--------------------------- MODULE ConvertersProofs ---------------------------
(* Proofs about the converters f142 and TdcTime, for every length of a      *)
(* second and width of the integers, all arrays and any number of workers,  *)
(* except where a theorem says otherwise.                                   *)
EXTENDS Converters, SequenceTheorems, FiniteSetTheorems, TLAPS

USE TimeAssumption, TdcAssumption, F142Assumption
    DEF vars, tdcVars, f142Vars, allVars
-----------------------------------------------------------------------------
(* Arithmetic of times.                                                    *)

\* Multiplication is monotone.
LEMMA Product ==
  ASSUME NEW x \in Int, NEW y \in Int, NEW s \in Nat, x <= y
  PROVE  x * s <= y * s
OBVIOUS

\* Division with remainder.
LEMMA DivMod ==
  ASSUME NEW t \in Nat, NEW s \in Nat \ {0}
  PROVE  /\ t \div s \in Nat /\ t % s \in 0..(s - 1)
         /\ t = (t \div s) * s + (t % s)
OBVIOUS

\* Quotient and remainder are the only ones.
LEMMA Remainder ==
  ASSUME NEW q \in Nat, NEW r \in Nat, NEW s \in Nat \ {0}, r < s
  PROVE  (q * s + r) \div s = q /\ (q * s + r) % s = r
OBVIOUS

\* A number below the modulus is its own remainder.
LEMMA SmallMod ==
  ASSUME NEW t \in Nat, NEW s \in Nat \ {0}, t < s
  PROVE  t % s = t
OBVIOUS

\* Valid times fit into Width nanoseconds.
LEMMA ValidNanoseconds ==
  ASSUME NEW sec, NEW nano, ValidTime(sec, nano)
  PROVE  /\ sec \in Nat /\ nano \in Nat /\ nano < Second
         /\ Nanoseconds(sec, nano) = sec * Second + nano
<1>1. sec \in Nat /\ nano \in Nat /\ nano < Second /\ sec + 1 <= Width \div Second
  BY DEF ValidTime
<1>2. /\ Width \div Second \in Nat /\ Width % Second \in Nat
      /\ Width = (Width \div Second) * Second + (Width % Second)
  BY DivMod
<1>3. (sec + 1) * Second <= (Width \div Second) * Second
  BY <1>1, <1>2, Product
<1>4. (sec + 1) * Second = sec * Second + Second
  BY <1>1
<1>5. sec * Second \in Nat /\ (Width \div Second) * Second \in Nat
  BY <1>1, <1>2
<1> DEFINE a == sec * Second
           b == (Width \div Second) * Second
<1>6. a + nano \in Nat /\ a + nano < Width
  <2>1. a \in Nat /\ b \in Nat /\ a + Second <= b /\ Width = b + (Width % Second)
    BY <1>2, <1>3, <1>4, <1>5
  <2> HIDE DEF a, b
  <2> QED BY <1>1, <1>2, <2>1
<1>7. (a + nano) % Width = a + nano
  <2> HIDE DEF a
  <2> QED BY <1>6, SmallMod
<1> QED BY <1>1, <1>7 DEF Nanoseconds

\* Times in nanoseconds are ordered as seconds, then nanoseconds.
LEMMA Lexicographic ==
  ASSUME NEW s1 \in Nat, NEW n1 \in Nat, NEW s2 \in Nat, NEW n2 \in Nat, n1 < Second, n2 < Second
  PROVE  (s1 < s2 \/ (s1 = s2 /\ n1 < n2)) <=> s1 * Second + n1 < s2 * Second + n2
<1>1. ASSUME NEW p \in Nat, NEW q \in Nat, p < q PROVE p * Second + Second <= q * Second
  <2>1. (p + 1) * Second <= q * Second
    BY <1>1, Product
  <2> QED BY <2>1
<1>2. s1 * Second \in Nat /\ s2 * Second \in Nat
  OBVIOUS
<1>3. CASE s1 < s2
  BY <1>1, <1>2, <1>3
<1>4. CASE s2 < s1
  BY <1>1, <1>2, <1>4
<1>5. CASE s1 = s2
  BY <1>2, <1>5
<1> QED BY <1>3, <1>4, <1>5
-----------------------------------------------------------------------------
(* TdcTime.                                                                *)

\* CalcTimestamps gives one number for every two elements.
LEMMA TimestampsType ==
  ASSUME NEW a \in Seq(Int)
  PROVE  /\ CalcTimestamps(a) \in Seq(Nat) /\ Len(CalcTimestamps(a)) = Len(a) \div 2
         /\ \A i \in 1..(Len(a) \div 2) : CalcTimestamps(a)[i] = Nanoseconds(a[2 * i - 1], a[2 * i])
<1> DEFINE t == CalcTimestamps(a)
<1>1. Len(a) \in Nat /\ Len(a) \div 2 \in Nat /\ 2 * (Len(a) \div 2) <= Len(a)
  OBVIOUS
<1>2. t = [i \in 1..(Len(a) \div 2) |-> Nanoseconds(a[2 * i - 1], a[2 * i])]
  BY DEF CalcTimestamps
<1>3. ASSUME NEW i \in 1..(Len(a) \div 2) PROVE Nanoseconds(a[2 * i - 1], a[2 * i]) \in Nat
  <2>1. 2 * i - 1 \in 1..Len(a) /\ 2 * i \in 1..Len(a)
    BY <1>1
  <2>2. a[2 * i - 1] \in Int /\ a[2 * i] \in Int
    BY <2>1
  <2>3. a[2 * i - 1] * Second + a[2 * i] \in Int
    BY <2>2
  <2> QED BY <2>3 DEF Nanoseconds
<1> HIDE DEF t
<1>4. t \in [1..(Len(a) \div 2) -> Nat]
  BY <1>2, <1>3
<1>5. t \in Seq(Nat) /\ Len(t) = Len(a) \div 2
  <2> DEFINE h == Len(a) \div 2
  <2>1. h \in Nat /\ t \in [1..h -> Nat]
    BY <1>1, <1>4
  <2> HIDE DEF h
  <2>2. t \in Seq(Nat) /\ Len(t) = h
    BY <2>1
  <2> QED BY <2>2 DEF h
<1> QED BY <1>2, <1>5 DEF t

\* What TimesOrdered says of one message.
Ordered(a, t) ==
  /\ Len(t) > 0 /\ 2 * Len(t) = Len(a)
  /\ \A i, j \in 1..Len(t) : Normal(a, i) /\ Normal(a, j) => (Earlier(a, i, j) <=> t[i] < t[j])

\* Whatever Converter::create makes a message of is converted in order.
LEMMA ConvertedInOrder ==
  ASSUME NEW a \in Seq(Int), NEW kind, Converts(kind, a)
  PROVE  Ordered(a, CalcTimestamps(a))
<1> DEFINE t == CalcTimestamps(a)
<1>0. Len(a) % 2 = 0 /\ t # <<>>
  BY Zenon DEF Converts
<1>1. /\ t \in Seq(Nat) /\ Len(t) = Len(a) \div 2 /\ Len(a) \in Nat /\ Len(a) % 2 = 0 /\ t # <<>>
      /\ \A i \in 1..Len(t) : t[i] = Nanoseconds(a[2 * i - 1], a[2 * i])
  BY <1>0, TimestampsType
<1> HIDE DEF t
<1>2. Len(t) > 0 /\ 2 * Len(t) = Len(a)
  <2>1. Len(t) # 0
    BY <1>1, EmptySeq
  <2>2. 2 * (Len(a) \div 2) = Len(a) /\ Len(t) \in Nat
    BY <1>1
  <2> QED BY <1>1, <2>1, <2>2
<1>3. ASSUME NEW i \in 1..Len(t), NEW j \in 1..Len(t), Normal(a, i), Normal(a, j)
      PROVE  Earlier(a, i, j) <=> t[i] < t[j]
  <2>1. /\ a[2 * i - 1] \in Nat /\ a[2 * i] \in Nat /\ a[2 * i] < Second
        /\ t[i] = a[2 * i - 1] * Second + a[2 * i]
    BY <1>1, <1>3, ValidNanoseconds DEF Normal
  <2>2. /\ a[2 * j - 1] \in Nat /\ a[2 * j] \in Nat /\ a[2 * j] < Second
        /\ t[j] = a[2 * j - 1] * Second + a[2 * j]
    BY <1>1, <1>3, ValidNanoseconds DEF Normal
  <2> DEFINE s1 == a[2 * i - 1]
             n1 == a[2 * i]
             s2 == a[2 * j - 1]
             n2 == a[2 * j]
  <2>3. Earlier(a, i, j) <=> (s1 < s2 \/ (s1 = s2 /\ n1 < n2))
    BY DEF Earlier
  <2>4. /\ s1 \in Nat /\ n1 \in Nat /\ s2 \in Nat /\ n2 \in Nat /\ n1 < Second /\ n2 < Second
        /\ t[i] = s1 * Second + n1 /\ t[j] = s2 * Second + n2
    BY <2>1, <2>2
  <2> HIDE DEF s1, n1, s2, n2
  <2>5. (s1 < s2 \/ (s1 = s2 /\ n1 < n2)) <=> s1 * Second + n1 < s2 * Second + n2
    BY <2>4, Lexicographic
  <2> QED BY <2>3, <2>4, <2>5
<1>4. Ordered(a, t)
  BY <1>2, <1>3 DEF Ordered
<1> QED BY <1>4 DEF t

\* What a worker is in the middle of is an array that makes a message, and
\* every message made is in order.
Messages == [sequence_counter : Nat, timestamps : Seq(Nat), from : Seq(Int)]
TdcInv ==
  /\ SequenceNumber \in Nat /\ sent \in Seq(Messages) /\ updates \in 0..MaxUpdates
  /\ pc \in [Workers -> {"idle", "increment"}]
  /\ input \in [Workers -> Seq(Int)] /\ loaded \in [Workers -> Nat]
  /\ \A w \in Workers : pc[w] = "increment" => Ordered(input[w], CalcTimestamps(input[w]))
  /\ \A m \in 1..Len(sent) : Ordered(sent[m].from, sent[m].timestamps)

\* The steps of ConvertersSpec as TdcTime sees them.
LEMMA TdcSteps ==
  ASSUME [ConvertersNext]_allVars, TdcInv
  PROVE  \/ UNCHANGED tdcVars /\ updates' \in {updates, updates + 1} /\ updates' \in 0..MaxUpdates
         \/ \E w \in Workers, kind \in Kinds, a \in Arrays : Load(w, kind, a)
         \/ \E w \in Workers : Store(w)
<1>1. CASE UNCHANGED vars
  BY <1>1 DEF TdcInv
<1>2. ASSUME NEW w \in Workers, ConvertF142(w)
      PROVE  UNCHANGED tdcVars /\ updates' = updates + 1 /\ updates' \in 0..MaxUpdates
  BY <1>2 DEF ConvertF142, TdcInv
<1>3. ASSUME NEW w \in Workers, NEW kind, NEW a, Rejects(w, kind, a)
      PROVE  UNCHANGED tdcVars /\ updates' = updates + 1 /\ updates' \in 0..MaxUpdates
  BY <1>3 DEF Rejects, TdcInv
<1> QED BY <1>1, <1>2, <1>3 DEF ConvertersNext, Next

\* Every step of the workers keeps the invariant of TdcTime.
LEMMA TdcInductive == TdcInv /\ [ConvertersNext]_allVars => TdcInv'
<1> SUFFICES ASSUME TdcInv, [ConvertersNext]_allVars PROVE TdcInv'
  OBVIOUS
<1>1. CASE UNCHANGED tdcVars /\ updates' \in 0..MaxUpdates
  BY <1>1 DEF TdcInv
<1>2. ASSUME NEW w \in Workers, NEW kind \in Kinds, NEW a \in Arrays, Load(w, kind, a) PROVE TdcInv'
  <2>1. /\ updates < MaxUpdates /\ Converts(kind, a) /\ updates' = updates + 1
        /\ input' = [input EXCEPT ![w] = a] /\ loaded' = [loaded EXCEPT ![w] = SequenceNumber]
        /\ pc' = [pc EXCEPT ![w] = "increment"] /\ UNCHANGED <<SequenceNumber, sent>>
    BY <1>2 DEF Load
  <2>2. Ordered(a, CalcTimestamps(a))
    BY <2>1, ConvertedInOrder
  <2>3. /\ pc' \in [Workers -> {"idle", "increment"}] /\ input' \in [Workers -> Seq(Int)]
        /\ loaded' \in [Workers -> Nat] /\ updates' \in 0..MaxUpdates
    BY <2>1 DEF TdcInv
  <2>4. ASSUME NEW v \in Workers, pc'[v] = "increment" PROVE Ordered(input'[v], CalcTimestamps(input'[v]))
    <3>1. CASE v = w
      <4>1. input'[v] = a
        BY <2>1, <3>1 DEF TdcInv
      <4> QED BY <2>2, <4>1
    <3>2. CASE v # w
      <4>1. input'[v] = input[v] /\ pc[v] = "increment"
        BY <2>1, <2>4, <3>2 DEF TdcInv
      <4> QED BY <4>1 DEF TdcInv
    <3> QED BY <3>1, <3>2
  <2> QED BY <2>1, <2>3, <2>4 DEF TdcInv
<1>3. ASSUME NEW w \in Workers, Store(w) PROVE TdcInv'
  <2> DEFINE a == input[w]
             new == [sequence_counter |-> loaded[w], timestamps |-> CalcTimestamps(a), from |-> a]
  <2>1. /\ pc[w] = "increment" /\ SequenceNumber' = (loaded[w] + 1) % Width
        /\ sent' = Append(sent, new) /\ updates' = updates
        /\ input' = [input EXCEPT ![w] = <<>>] /\ loaded' = [loaded EXCEPT ![w] = 0]
        /\ pc' = [pc EXCEPT ![w] = "idle"]
    BY <1>3 DEF Store
  <2>2. a \in Seq(Int) /\ Ordered(a, CalcTimestamps(a)) /\ loaded[w] \in Nat /\ CalcTimestamps(a) \in Seq(Nat)
    BY <2>1, TimestampsType DEF TdcInv
  <2>3. new \in Messages /\ new.from = a /\ new.timestamps = CalcTimestamps(a)
    BY <2>2 DEF Messages
  <2>4. SequenceNumber' \in Nat
    BY <2>1, <2>2
  <2>5. /\ pc' \in [Workers -> {"idle", "increment"}] /\ input' \in [Workers -> Seq(Int)]
        /\ loaded' \in [Workers -> Nat] /\ updates' \in 0..MaxUpdates
    BY <2>1 DEF TdcInv
  <2> HIDE DEF a, new
  <2>6. /\ Len(sent) \in Nat /\ sent' \in Seq(Messages) /\ Len(sent') = Len(sent) + 1
        /\ sent'[Len(sent) + 1] = new /\ \A m \in 1..Len(sent) : sent'[m] = sent[m]
    BY <2>1, <2>3, AppendProperties DEF TdcInv
  <2>7. ASSUME NEW m \in 1..Len(sent') PROVE Ordered(sent'[m].from, sent'[m].timestamps)
    <3>1. m \in 1..Len(sent) \/ m = Len(sent) + 1
      BY <2>6
    <3>2. CASE m \in 1..Len(sent)
      BY <2>6, <3>2 DEF TdcInv
    <3>3. CASE m = Len(sent) + 1
      BY <2>2, <2>3, <2>6, <3>3
    <3> QED BY <3>1, <3>2, <3>3
  <2>8. ASSUME NEW v \in Workers, pc'[v] = "increment" PROVE input'[v] = input[v] /\ pc[v] = "increment"
    BY <2>1, <2>8 DEF TdcInv
  <2>9. ASSUME NEW v \in Workers, pc'[v] = "increment" PROVE Ordered(input'[v], CalcTimestamps(input'[v]))
    BY <2>8, <2>9 DEF TdcInv
  <2> QED BY <2>4, <2>5, <2>6, <2>7, <2>9 DEF TdcInv
<1> QED BY <1>1, <1>2, <1>3, TdcSteps

\* It holds before the first update.
LEMMA TdcInit == ConvertersInit => TdcInv
<1> SUFFICES ASSUME ConvertersInit PROVE TdcInv
  OBVIOUS
<1>1. /\ SequenceNumber = 0 /\ pc = [w \in Workers |-> "idle"] /\ input = [w \in Workers |-> <<>>]
      /\ loaded = [w \in Workers |-> 0] /\ sent = <<>> /\ updates = 0
  BY DEF ConvertersInit, Init
<1>2. input \in [Workers -> Seq(Int)]
  BY <1>1
<1>3. sent \in Seq(Messages) /\ Len(sent) = 0
  BY <1>1
<1> QED BY <1>1, <1>2, <1>3 DEF TdcInv

\* SequenceNumber, and what a worker has read of it, is only as large as the
\* numbers in use: every smaller one has been used.
Used(n) == \A k \in 0..(n - 1) : \E j \in 1..Len(sent) : sent[j].sequence_counter = k
GapInv ==
  /\ Used(SequenceNumber) /\ SequenceNumber < Width
  /\ \A w \in Workers : pc[w] = "increment" => Used(loaded[w]) /\ loaded[w] < Width
  /\ NoGaps

\* Every step keeps it, also those that lose an increment.
LEMMA GapInductive == TdcInv /\ GapInv /\ [ConvertersNext]_allVars => GapInv'
<1> SUFFICES ASSUME TdcInv, GapInv, [ConvertersNext]_allVars PROVE GapInv'
  OBVIOUS
<1>0. /\ Len(sent) \in Nat /\ SequenceNumber \in Nat
      /\ pc \in [Workers -> {"idle", "increment"}] /\ loaded \in [Workers -> Nat]
  BY DEF TdcInv
<1>1. CASE UNCHANGED tdcVars
  BY <1>1 DEF GapInv, Used, NoGaps
<1>2. ASSUME NEW v \in Workers, NEW kind \in Kinds, NEW a \in Arrays, Load(v, kind, a) PROVE GapInv'
  <2>1. /\ loaded' = [loaded EXCEPT ![v] = SequenceNumber]
        /\ pc' = [pc EXCEPT ![v] = "increment"] /\ UNCHANGED <<SequenceNumber, sent>>
    BY <1>2 DEF Load
  <2>2. \A n : Used(n)' <=> Used(n)
    BY <2>1 DEF Used
  <2>3. NoGaps'
    BY <2>1 DEF GapInv, NoGaps
  <2>4. ASSUME NEW w \in Workers, pc'[w] = "increment" PROVE Used(loaded'[w]) /\ loaded'[w] < Width
    BY <1>0, <2>1, <2>4 DEF GapInv
  <2> QED BY <2>1, <2>2, <2>3, <2>4 DEF GapInv
<1>3. ASSUME NEW v \in Workers, Store(v) PROVE GapInv'
  <2> DEFINE l == loaded[v]
             new == [sequence_counter |-> l, timestamps |-> CalcTimestamps(input[v]), from |-> input[v]]
  <2>1. /\ pc[v] = "increment" /\ SequenceNumber' = (l + 1) % Width
        /\ sent' = Append(sent, new) /\ loaded' = [loaded EXCEPT ![v] = 0]
        /\ pc' = [pc EXCEPT ![v] = "idle"]
    BY <1>3 DEF Store
  <2>2. l \in Nat /\ Used(l) /\ l < Width
    BY <1>0, <2>1 DEF GapInv
  <2>3. new \in Messages /\ new.sequence_counter = l
    BY <1>0, TimestampsType DEF Messages, TdcInv
  <2> HIDE DEF new, l
  <2>4. /\ Len(sent') = Len(sent) + 1
        /\ sent'[Len(sent) + 1] = new /\ \A m \in 1..Len(sent) : sent'[m] = sent[m]
    BY <2>1, <2>3, AppendProperties DEF TdcInv
  <2>5. \A j \in 1..Len(sent) : j \in 1..Len(sent') /\ sent'[j].sequence_counter = sent[j].sequence_counter
    BY <1>0, <2>4
  <2>7. Used(SequenceNumber)' /\ SequenceNumber' < Width
    <3>1. CASE l + 1 < Width
      <4>1. SequenceNumber' = l + 1
        BY <2>1, <2>2, <3>1, SmallMod
      <4>2. ASSUME NEW k \in 0..l PROVE \E j \in 1..Len(sent') : sent'[j].sequence_counter = k
        <5>1. CASE k = l
          <6>1. Len(sent) + 1 \in 1..Len(sent')
            BY <1>0, <2>4
          <6> QED BY <2>3, <2>4, <5>1, <6>1
        <5>2. CASE k # l
          <6>1. k \in 0..(l - 1)
            BY <2>2, <5>2
          <6> QED BY <2>2, <2>5, <6>1 DEF Used
        <5> QED BY <5>1, <5>2
      <4>3. 0..(SequenceNumber' - 1) = 0..l
        BY <2>2, <4>1
      <4> QED BY <3>1, <4>1, <4>2, <4>3 DEF Used
    <3>2. CASE l + 1 = Width
      <4>1. SequenceNumber' = 0
        BY <2>1, <3>2
      <4>2. 0..(0 - 1) = {}
        OBVIOUS
      <4> QED BY <4>1, <4>2 DEF Used
    <3> QED BY <2>2, <3>1, <3>2
  <2>8. ASSUME NEW w \in Workers, pc'[w] = "increment" PROVE (Used(loaded[w]) /\ loaded[w] < Width)'
    <3>1. loaded'[w] = loaded[w] /\ pc[w] = "increment"
      BY <1>0, <2>1, <2>8
    <3>2. Used(loaded[w]) /\ loaded[w] < Width
      BY <3>1 DEF GapInv
    <3>3. \A k \in 0..(loaded[w] - 1) : \E j \in 1..Len(sent') : sent'[j].sequence_counter = k
      BY <2>5, <3>2 DEF Used
    <3> QED BY <3>1, <3>2, <3>3 DEF Used
  <2>9. ASSUME NEW i \in 1..Len(sent'), NEW n \in 0..(sent'[i].sequence_counter - 1)
        PROVE  \E j \in 1..(i - 1) : sent'[j].sequence_counter = n
    <3>1. CASE i \in 1..Len(sent)
      <4>1. \E j \in 1..(i - 1) : sent[j].sequence_counter = n
        BY <2>5, <3>1 DEF GapInv, NoGaps
      <4>2. \A j \in 1..(i - 1) : j \in 1..Len(sent)
        BY <1>0, <3>1
      <4> QED BY <2>5, <4>1, <4>2
    <3>2. CASE i = Len(sent) + 1
      <4>1. n \in 0..(l - 1) /\ 1..(i - 1) = 1..Len(sent)
        BY <1>0, <2>3, <2>4, <3>2
      <4> QED BY <2>2, <2>5, <4>1 DEF Used
    <3> QED BY <1>0, <2>4, <3>1, <3>2
  <2>10. NoGaps'
    BY <2>9 DEF NoGaps
  <2> QED BY <2>7, <2>8, <2>10 DEF GapInv
<1> QED BY <1>1, <1>2, <1>3, TdcSteps

\* With one worker SequenceNumber counts the messages, as long as there are
\* not more than it can count.
CountInv(w) ==
  /\ Len(sent) + (IF pc[w] = "increment" THEN 1 ELSE 0) <= updates
  /\ Len(sent) < Width => SequenceNumber = Len(sent)
  /\ pc[w] = "increment" => loaded[w] = Len(sent)
  /\ Consecutive

\* With one worker, every step keeps the count.
LEMMA CountInductive ==
  ASSUME NEW w, Workers = {w}, MaxUpdates <= Width
  PROVE  TdcInv /\ CountInv(w) /\ [ConvertersNext]_allVars => CountInv(w)'
<1> SUFFICES ASSUME TdcInv, CountInv(w), [ConvertersNext]_allVars PROVE CountInv(w)'
  OBVIOUS
<1>0. /\ Len(sent) \in Nat /\ updates \in 0..MaxUpdates /\ SequenceNumber \in Nat
      /\ pc[w] \in {"idle", "increment"} /\ loaded[w] \in Nat /\ w \in Workers
  BY DEF TdcInv
<1>1. CASE UNCHANGED tdcVars /\ updates' \in {updates, updates + 1}
  <2>1. UNCHANGED <<SequenceNumber, pc, loaded, sent>> /\ updates <= updates'
    BY <1>0, <1>1
  <2>2. updates' \in Nat
    BY <1>0, <1>1
  <2> QED BY <1>0, <2>1, <2>2 DEF CountInv, Consecutive
<1>2. ASSUME NEW v \in Workers, NEW kind \in Kinds, NEW a \in Arrays, Load(v, kind, a) PROVE CountInv(w)'
  <2>1. /\ v = w /\ pc[w] = "idle" /\ updates < MaxUpdates /\ updates' = updates + 1
        /\ loaded' = [loaded EXCEPT ![w] = SequenceNumber]
        /\ pc' = [pc EXCEPT ![w] = "increment"] /\ UNCHANGED <<SequenceNumber, sent>>
    BY <1>2 DEF Load
  <2>2. loaded'[w] = SequenceNumber /\ pc'[w] = "increment"
    BY <1>0, <2>1 DEF TdcInv
  <2>3. Len(sent) <= updates /\ (Len(sent) < Width => SequenceNumber = Len(sent)) /\ Consecutive
    BY <1>0, <2>1 DEF CountInv
  <2>4. Len(sent) < Width
    BY <1>0, <2>1, <2>3
  <2>5. Consecutive'
    BY <2>1, <2>3 DEF Consecutive
  <2> QED BY <1>0, <2>1, <2>2, <2>3, <2>4, <2>5 DEF CountInv
<1>3. ASSUME NEW v \in Workers, Store(v) PROVE CountInv(w)'
  <2> DEFINE new == [sequence_counter |-> loaded[w], timestamps |-> CalcTimestamps(input[w]), from |-> input[w]]
  <2>1. /\ v = w /\ pc[w] = "increment" /\ SequenceNumber' = (loaded[w] + 1) % Width
        /\ sent' = Append(sent, new) /\ updates' = updates
        /\ pc' = [pc EXCEPT ![w] = "idle"]
    BY <1>3 DEF Store
  <2>2. pc'[w] = "idle"
    BY <1>0, <2>1 DEF TdcInv
  <2>3. loaded[w] = Len(sent) /\ Len(sent) + 1 <= updates /\ Consecutive
    BY <2>1 DEF CountInv
  <2>4. new \in Messages /\ new.sequence_counter = loaded[w]
    BY <1>0, TimestampsType DEF Messages, TdcInv
  <2> HIDE DEF new
  <2>5. /\ Len(sent') = Len(sent) + 1
        /\ sent'[Len(sent) + 1] = new /\ \A m \in 1..Len(sent) : sent'[m] = sent[m]
    BY <2>1, <2>4, AppendProperties DEF TdcInv
  <2>6. ASSUME NEW m \in 1..Len(sent') PROVE sent'[m].sequence_counter = m - 1
    <3>1. m \in 1..Len(sent) \/ m = Len(sent) + 1
      BY <1>0, <2>5
    <3>2. CASE m \in 1..Len(sent)
      BY <2>3, <2>5, <3>2 DEF Consecutive
    <3>3. CASE m = Len(sent) + 1
      BY <1>0, <2>3, <2>4, <2>5, <3>3
    <3> QED BY <3>1, <3>2, <3>3
  <2>7. Consecutive'
    BY <2>6 DEF Consecutive
  <2>8. Len(sent') < Width => SequenceNumber' = Len(sent')
    BY <1>0, <2>1, <2>3, <2>5, SmallMod
  <2>9. Len(sent') <= updates'
    BY <2>1, <2>3, <2>5
  <2> QED BY <1>0, <2>2, <2>5, <2>7, <2>8, <2>9 DEF CountInv
<1> QED BY <1>1, <1>2, <1>3, TdcSteps

\* Converter::create of TdcTime gives one timestamp per pair, and timestamps
\* of valid pairs are ordered as the pairs are, for any number of workers.
THEOREM TdcTimesOrdered == ConvertersSpec => []TimesOrdered
<1>1. TdcInv => TimesOrdered
  <2> SUFFICES ASSUME TdcInv, NEW m \in 1..Len(sent)
               PROVE  LET a == sent[m].from
                          t == sent[m].timestamps
                      IN /\ Len(t) > 0 /\ 2 * Len(t) = Len(a)
                         /\ \A i, j \in 1..Len(t) :
                              Normal(a, i) /\ Normal(a, j) => (Earlier(a, i, j) <=> t[i] < t[j])
    BY DEF TimesOrdered
  <2>1. Ordered(sent[m].from, sent[m].timestamps)
    BY DEF TdcInv
  <2> QED BY <2>1, Zenon DEF Ordered
<1> QED BY <1>1, TdcInit, TdcInductive, PTL DEF ConvertersSpec

\* generateFlatbufferFromData with any number of conversion threads: although
\* SequenceNumber is not locked, a number is used only after all smaller ones
\* have been.
THEOREM TdcNumbersWithoutGaps == ConvertersSpec => []NoGaps
<1>1. ConvertersInit => GapInv
  <2> SUFFICES ASSUME ConvertersInit PROVE GapInv
    OBVIOUS
  <2>1. /\ SequenceNumber = 0 /\ sent = <<>> /\ Len(sent) = 0
        /\ \A w \in Workers : pc[w] = "idle"
    BY DEF ConvertersInit, Init
  <2>2. 0..(0 - 1) = {} /\ 0 < Width
    OBVIOUS
  <2> QED BY <2>1, <2>2 DEF GapInv, Used, NoGaps
<1>2. GapInv => NoGaps
  BY DEF GapInv
<1> QED BY <1>1, <1>2, GapInductive, TdcInit, TdcInductive, PTL DEF ConvertersSpec

\* With one conversion thread the static SequenceNumber, which is not locked,
\* numbers the tdct messages from zero without gap or repetition, as long as
\* its range lasts.
THEOREM TdcCountersConsecutive ==
  ASSUME NEW w, Workers = {w}, MaxUpdates <= Width
  PROVE  ConvertersSpec => []Consecutive
<1>1. ConvertersInit => CountInv(w)
  <2> SUFFICES ASSUME ConvertersInit PROVE CountInv(w)
    OBVIOUS
  <2>1. SequenceNumber = 0 /\ pc[w] = "idle" /\ sent = <<>> /\ Len(sent) = 0 /\ updates = 0
    BY DEF ConvertersInit, Init
  <2> QED BY <2>1 DEF CountInv, Consecutive
<1>2. TdcInv /\ CountInv(w) /\ [ConvertersNext]_allVars => CountInv(w)'
  BY CountInductive
<1>3. CountInv(w) => Consecutive
  BY DEF CountInv
<1> QED BY <1>1, <1>2, <1>3, TdcInit, TdcInductive, PTL DEF ConvertersSpec
-----------------------------------------------------------------------------
(* f142: values.                                                           *)

\* Zero is the only multiple of n between -n and n.
LEMMA ModUnique ==
  ASSUME NEW n \in Nat \ {0}, NEW d \in Int, -n < d, d < n, d % n = 0
  PROVE  d = 0
OBVIOUS

\* The size of an interval.
LEMMA IntervalSize ==
  ASSUME NEW lo \in Int, NEW n \in Nat \ {0}
  PROVE  Cardinality(lo..(lo + n - 1)) = n
<1>1. lo + n - 1 \in Int /\ ~ (lo > lo + n - 1) /\ (lo + n - 1) - lo + 1 = n
  OBVIOUS
<1> QED BY <1>1, FS_Interval

\* A range of n integers in a row.
InARow(S, n) == \E lo \in Int : S = lo..(lo + n - 1)

\* A value within a range is the only one of the range congruent to it.
LEMMA FitsRange ==
  ASSUME NEW S, NEW n \in Nat \ {0}, InARow(S, n), NEW v \in S
  PROVE  (CHOOSE x \in S : (x - v) % Cardinality(S) = 0) = v
<1>1. PICK lo \in Int : S = lo..(lo + n - 1)
  BY DEF InARow
<1>2. Cardinality(S) = n /\ v \in Int
  BY <1>1, IntervalSize
<1>3. (v - v) % n = 0
  <2>1. v - v = 0
    BY <1>2
  <2>2. 0 % n = 0
    OBVIOUS
  <2> QED BY <2>1, <2>2
<1>4. ASSUME NEW x \in S, (x - v) % n = 0 PROVE x = v
  <2>1. x \in Int /\ x - v \in Int /\ -n < x - v /\ x - v < n
    BY <1>1
  <2>2. x - v = 0
    BY <1>4, <2>1, ModUnique
  <2> QED BY <1>2, <2>1, <2>2
<1>5. \E x \in S : (x - v) % n = 0
  BY <1>3
<1> QED BY <1>2, <1>4, <1>5

\* The smaller integer types have an even number of values, at least four.
LEMMA EvenWidths ==
  /\ Width \in Nat \ {0}
  /\ Width \div 2 \in Nat \ {0} /\ Width \div 4 \in Nat \ {0} /\ Width \div 8 \in Nat \ {0}
  /\ 2 * (Width \div 2) = Width /\ 2 * ((Width \div 2) \div 2) = Width \div 2
  /\ 2 * ((Width \div 4) \div 2) = Width \div 4 /\ 2 * ((Width \div 8) \div 2) = Width \div 8
  /\ Width \div 8 >= 4
OBVIOUS

\* Signed types are ranges.
LEMMA SignedRange ==
  ASSUME NEW n \in Nat \ {0}, 2 * (n \div 2) = n
  PROVE  InARow(Signed(n), n)
<1>1. -(n \div 2) \in Int /\ (n \div 2) - 1 = -(n \div 2) + n - 1
  OBVIOUS
<1> QED BY <1>1 DEF InARow, Signed

\* Unsigned types are ranges.
LEMMA UnsignedRange ==
  ASSUME NEW n \in Nat \ {0}
  PROVE  InARow(Unsigned(n), n)
BY DEF InARow, Unsigned

\* Every integer type is a range.
IntegerNames == {"pvByte", "pvUByte", "pvShort", "pvUShort", "pvInt", "pvUInt", "pvLong", "pvULong"}
LEMMA IntegerRange ==
  /\ Integers8to64 = IntegerNames
  /\ \A T \in IntegerNames : \E n \in Nat \ {0} : InARow(Values[T], n)
<1>1. Integers8to64 = IntegerNames
  BY DEF Integers8to64, IntegerNames, Values
<1>2. /\ Values.pvByte = Signed(Width \div 8) /\ Values.pvUByte = Unsigned(Width \div 8)
      /\ Values.pvShort = Signed(Width \div 4) /\ Values.pvUShort = Unsigned(Width \div 4)
      /\ Values.pvInt = Signed(Width \div 2) /\ Values.pvUInt = Unsigned(Width \div 2)
      /\ Values.pvLong = Signed(Width) /\ Values.pvULong = Unsigned(Width)
  BY DEF Values
<1>3. /\ InARow(Values.pvByte, Width \div 8) /\ InARow(Values.pvUByte, Width \div 8)
      /\ InARow(Values.pvShort, Width \div 4) /\ InARow(Values.pvUShort, Width \div 4)
      /\ InARow(Values.pvInt, Width \div 2) /\ InARow(Values.pvUInt, Width \div 2)
      /\ InARow(Values.pvLong, Width) /\ InARow(Values.pvULong, Width)
  BY <1>2, EvenWidths, SignedRange, UnsignedRange
<1> QED BY <1>1, <1>3, EvenWidths DEF IntegerNames

\* An integer that is in the range of a type does not wrap around.
LEMMA FitInteger ==
  ASSUME NEW T \in IntegerNames, NEW v \in Values[T]
  PROVE  Fit(T, v) = v
<1>1. PICK n \in Nat \ {0} : InARow(Values[T], n)
  BY IntegerRange
<1> QED BY <1>1, IntegerRange, FitsRange DEF Fit

\* The builder of f142 for a type has room for every value of the type.
LEMMA FitScalar ==
  ASSUME NEW T \in DOMAIN Values, NEW v \in Values[T]
  PROVE  Fit(ScalarType(T), v) = v /\ ScalarType(T) # "NONE"
<1>1. T \in IntegerNames \cup {"pvBoolean", "pvFloat", "pvDouble", "pvString"}
  BY DEF Values, IntegerNames
<1>2. CASE T = "pvBoolean"
  <2>1. v \in {0, 1} /\ ScalarType(T) = "pvByte" /\ "pvByte" \in IntegerNames
    BY <1>2 DEF Values, ScalarType, IntegerNames
  <2>2. Values["pvByte"] = Signed(Width \div 8)
    BY DEF Values
  <2>3. 0 \in Signed(Width \div 8) /\ 1 \in Signed(Width \div 8)
    <3>1. (Width \div 8) \div 2 \in Int /\ (Width \div 8) \div 2 >= 2
      BY EvenWidths
    <3> QED BY <3>1 DEF Signed
  <2> QED BY <2>1, <2>2, <2>3, FitInteger
<1>3. CASE T = "pvFloat"
  <2>1. v \in {-2, 0, 4} /\ ScalarType(T) = "pvFloat" /\ "pvFloat" \notin IntegerNames
    BY <1>3 DEF Values, ScalarType, IntegerNames
  <2>2. 2 * (v \div 2) = v
    BY <2>1
  <2> QED BY <2>1, <2>2, IntegerRange DEF Fit
<1>4. CASE T \in {"pvDouble", "pvString"}
  <2>1. ScalarType(T) = T /\ T \notin IntegerNames /\ T # "pvFloat" /\ T # "NONE"
    BY <1>4 DEF ScalarType, IntegerNames
  <2> QED BY <2>1, IntegerRange DEF Fit
<1>5. CASE T \in IntegerNames
  <2>1. ScalarType(T) = T /\ T # "NONE"
    BY <1>5 DEF ScalarType, IntegerNames
  <2> QED BY <1>5, <2>1, FitInteger
<1> QED BY <1>1, <1>2, <1>3, <1>4, <1>5

Sendable(pv) ==
  pv.kind \in {"scalar", "NTEnum", "scalarArray"} /\ ~ (pv.kind = "scalarArray" /\ pv.type = "pvString")
Kept(pv, m) ==
  /\ m.Type # "NONE" <=> Sendable(pv)
  /\ Sendable(pv) => m.value = pv.value /\ m.array = (pv.kind = "scalarArray")

\* What there is to show of a PV that can be sent.
LEMMA KeptFacts ==
  ASSUME NEW pv, NEW m, Sendable(pv), m.Type # "NONE", m.value = pv.value,
         \/ m.array = TRUE /\ pv.kind = "scalarArray"
         \/ m.array = FALSE /\ pv.kind # "scalarArray"
  PROVE  Kept(pv, m)
<1>1. m.array = (pv.kind = "scalarArray")
  <2>1. CASE pv.kind = "scalarArray"
    BY <2>1
  <2>2. CASE pv.kind # "scalarArray"
    BY <2>2
  <2> QED BY <2>1, <2>2
<1> QED BY <1>1, Zenon DEF Kept

\* A scalar keeps its value.
LEMMA ScalarKept ==
  ASSUME NEW T \in DOMAIN Values, NEW v \in Values[T], NEW pv,
         pv.kind = "scalar", pv.type = T, pv.value = v
  PROVE  Kept(pv, makeValue(pv))
<1>1. makeValue(pv) = makeValueScalar(T, v)
  BY DEF makeValue
<1>2. Fit(ScalarType(T), v) = v /\ ScalarType(T) # "NONE"
  BY FitScalar
<1>3. /\ makeValue(pv).Type = ScalarType(T) /\ makeValue(pv).array = FALSE
      /\ makeValue(pv).value = v
  BY <1>1, <1>2 DEF makeValueScalar
<1>4. Sendable(pv)
  BY DEF Sendable
<1> QED BY <1>2, <1>3, <1>4, KeptFacts

\* An NTEnum keeps its index.
LEMMA EnumKept ==
  ASSUME NEW v \in Values.pvInt, NEW pv, pv.kind = "NTEnum", pv.value = v
  PROVE  Kept(pv, makeValue(pv))
<1>1. makeValue(pv) = makeValueScalar("pvInt", v)
  BY DEF makeValue
<1>2. "pvInt" \in DOMAIN Values
  BY DEF Values
<1>3. Fit(ScalarType("pvInt"), v) = v /\ ScalarType("pvInt") # "NONE"
  BY <1>2, FitScalar
<1>4. /\ makeValue(pv).Type = ScalarType("pvInt") /\ makeValue(pv).array = FALSE
      /\ makeValue(pv).value = v
  BY <1>1, <1>3 DEF makeValueScalar
<1>5. Sendable(pv)
  BY DEF Sendable
<1> QED BY <1>3, <1>4, <1>5, KeptFacts

\* Arrays of any length, with any values of the type.
LEMMA ArrayKept ==
  ASSUME NEW T \in DOMAIN Values, NEW n \in Nat, NEW a \in [1..n -> Values[T]], NEW pv,
         pv.kind = "scalarArray", pv.type = T, pv.value = a
  PROVE  Kept(pv, makeValue(pv))
<1>1. makeValue(pv) = makeValueArray(T, a)
  BY DEF makeValue
<1>2. CASE T = "pvString"
  BY <1>1, <1>2 DEF makeValueArray, NONE, Kept, Sendable
<1>3. CASE T # "pvString"
  <2>2. \A i \in 1..n : a[i] \in Values[T]
    OBVIOUS
  <2>3. \A i \in 1..n : Fit(ScalarType(T), a[i]) = a[i]
    BY <2>2, FitScalar
  <2>4. Len(a) = n
    OBVIOUS
  <2>5. [i \in 1..Len(a) |-> Fit(ScalarType(T), a[i])] = a
    BY <2>3, <2>4
  <2>6. ScalarType(T) # "NONE"
    BY DEF ScalarType, Values
  <2> DEFINE g == [i \in 1..Len(a) |-> Fit(ScalarType(T), a[i])]
  <2>a. makeValue(pv) = [Type |-> ScalarType(T), array |-> TRUE, value |-> g]
    BY <1>1, <1>3, Zenon DEF makeValueArray
  <2> HIDE DEF g
  <2>b. /\ makeValue(pv).Type = ScalarType(T) /\ makeValue(pv).array = TRUE
        /\ makeValue(pv).value = g
    BY <2>a
  <2>7. makeValue(pv).Type = ScalarType(T) /\ makeValue(pv).array = TRUE /\ makeValue(pv).value = a
    BY <2>5, <2>b DEF g
  <2>8. Sendable(pv)
    BY <1>3 DEF Sendable
  <2> QED BY <2>6, <2>7, <2>8, KeptFacts
<1> QED BY <1>2, <1>3

\* What makeValue makes of each PV that a worker can get.
LEMMA FieldKept ==
  ASSUME NEW f \in Fields, NEW pv, pv.kind = f.kind, pv.type = f.type, pv.value = f.value
  PROVE  Kept(pv, makeValue(pv))
<1>1. ASSUME NEW T \in DOMAIN Values,
             f \in [kind : {"scalar"}, type : {T}, value : Values[T]]
      PROVE  Kept(pv, makeValue(pv))
  <2>1. pv.kind = "scalar" /\ pv.type = T /\ pv.value \in Values[T]
    BY <1>1
  <2> QED BY <2>1, ScalarKept
<1>2. ASSUME NEW T \in DOMAIN Values,
             f \in [kind : {"scalarArray"}, type : {T}, value : UNION {[1..n -> Edges(T)] : n \in 0..2}]
      PROVE  Kept(pv, makeValue(pv))
  <2>1. pv.kind = "scalarArray" /\ pv.type = T /\ pv.value \in UNION {[1..n -> Edges(T)] : n \in 0..2}
    BY <1>2
  <2>2. PICK n \in 0..2 : pv.value \in [1..n -> Edges(T)]
    BY <2>1
  <2>3. Edges(T) \subseteq Values[T]
    BY DEF Edges
  <2>4. pv.value \in [1..n -> Values[T]] /\ n \in Nat
    BY <2>2, <2>3
  <2> QED BY <2>1, <2>4, ArrayKept
<1>3. ASSUME f \in [kind : {"NTEnum"}, type : {"pvInt"}, value : Values.pvInt]
      PROVE  Kept(pv, makeValue(pv))
  <2>1. pv.kind = "NTEnum" /\ pv.value \in Values.pvInt
    BY <1>3
  <2> QED BY <2>1, EnumKept
<1>4. ASSUME f \in [kind : {"no value", "structure", "structureArray", "union"}, type : {"none"}, value : {0}]
      PROVE  Kept(pv, makeValue(pv))
  <2>1. pv.kind \in {"no value", "structure", "structureArray", "union"}
    BY <1>4
  <2>2. makeValue(pv) = NONE
    BY <2>1 DEF makeValue
  <2>3. makeValue(pv).Type = "NONE"
    BY <2>2 DEF NONE
  <2>4. pv.kind \notin {"scalar", "NTEnum", "scalarArray"}
    BY <2>1
  <2> QED BY <2>3, <2>4, Zenon DEF Kept, Sendable
<1>5. \/ \E T \in DOMAIN Values : f \in [kind : {"scalar"}, type : {T}, value : Values[T]]
      \/ \E T \in DOMAIN Values :
           f \in [kind : {"scalarArray"}, type : {T}, value : UNION {[1..n -> Edges(T)] : n \in 0..2}]
      \/ f \in [kind : {"NTEnum"}, type : {"pvInt"}, value : Values.pvInt]
      \/ f \in [kind : {"no value", "structure", "structureArray", "union"}, type : {"none"}, value : {0}]
  <2> DEFINE A(T) == [kind : {"scalar"}, type : {T}, value : Values[T]]
             B(T) == [kind : {"scalarArray"}, type : {T}, value : UNION {[1..n -> Edges(T)] : n \in 0..2}]
             C == [kind : {"NTEnum"}, type : {"pvInt"}, value : Values.pvInt]
             D == [kind : {"no value", "structure", "structureArray", "union"}, type : {"none"}, value : {0}]
             X == UNION {A(T) : T \in DOMAIN Values}
             Y == UNION {B(T) : T \in DOMAIN Values}
  <2>1. Fields = X \cup Y \cup C \cup D
    BY DEF Fields
  <2> HIDE DEF A, B, C, D
  <2>2. f \in X => \E T \in DOMAIN Values : f \in A(T)
    BY Zenon
  <2>3. f \in Y => \E T \in DOMAIN Values : f \in B(T)
    BY Zenon
  <2> HIDE DEF X, Y
  <2>4. f \in X \/ f \in Y \/ f \in C \/ f \in D
    BY <2>1
  <2>5. \/ \E T \in DOMAIN Values : f \in A(T)
        \/ \E T \in DOMAIN Values : f \in B(T)
        \/ f \in C \/ f \in D
    BY <2>2, <2>3, <2>4
  <2> QED BY <2>5, Zenon DEF A, B, C, D
<1> QED BY <1>1, <1>2, <1>3, <1>4, <1>5

PVs == EpicsPVs \cup FakePVs

\* Every update that a worker gets has one of the values.
LEMMA PVKinds ==
  ASSUME NEW pv \in PVs
  PROVE  \/ \E f \in Fields : pv.kind = f.kind /\ pv.type = f.type /\ pv.value = f.value
         \/ pv.kind = "scalar" /\ pv.type = "pvInt" /\ pv.value = 1
         \/ pv.kind = "scalar" /\ pv.type = "pvDouble" /\ pv.value \in Values.pvDouble
<1>1. pv \in EpicsPVs \/ pv \in FakePVs
  BY DEF PVs
<1>2. CASE pv \in FakePVs
  <2> DEFINE G(v, now) == generateFakePVUpdate(v, now)
  <2>1. FakePVs = {G(v, now) : v \in Values.pvDouble, now \in Values.pvULong}
    BY DEF FakePVs
  <2> HIDE DEF G
  <2>2. \E v \in Values.pvDouble, now \in Values.pvULong : pv = G(v, now)
    BY <1>2, <2>1
  <2> QED BY <2>2 DEF G, generateFakePVUpdate
<1>3. CASE pv \in EpicsPVs
  <2> DEFINE A(f) == PV(f, <<1, 0>>, AllFields, TRUE)
             B(t) == PV(OneInt, t, AllFields, TRUE)
             C(F, changed) == PV(OneInt, <<1, 0>>, F, changed)
  <2>1. EpicsPVs = {A(f) : f \in Fields} \cup {B(t) : t \in Times}
                     \cup {C(F, changed) : F \in SUBSET AllFields, changed \in BOOLEAN}
    BY DEF EpicsPVs
  <2>a. ASSUME NEW f PROVE A(f).kind = f.kind /\ A(f).type = f.type /\ A(f).value = f.value
    BY DEF PV
  <2>b. ASSUME NEW t PROVE B(t).kind = "scalar" /\ B(t).type = "pvInt" /\ B(t).value = 1
    BY DEF PV, OneInt
  <2>c. ASSUME NEW F, NEW changed
        PROVE C(F, changed).kind = "scalar" /\ C(F, changed).type = "pvInt" /\ C(F, changed).value = 1
    BY DEF PV, OneInt
  <2> HIDE DEF A, B, C
  <2>2. \/ \E f \in Fields : pv = A(f)
        \/ \E t \in Times : pv = B(t)
        \/ \E F \in SUBSET AllFields, changed \in BOOLEAN : pv = C(F, changed)
    BY <1>3, <2>1
  <2> QED BY <2>2, <2>a, <2>b, <2>c
<1> QED BY <1>1, <1>2, <1>3

\* Each of them keeps its value.
LEMMA ValuesKept ==
  ASSUME NEW pv \in PVs
  PROVE  Kept(pv, makeValue(pv))
<1>1. "pvInt" \in DOMAIN Values /\ "pvDouble" \in DOMAIN Values /\ Values.pvInt = Signed(Width \div 2)
  BY DEF Values
<1>2. 1 \in Signed(Width \div 2)
  BY DEF Signed
<1> QED BY <1>1, <1>2, PVKinds, FieldKept, ScalarKept
-----------------------------------------------------------------------------
(* f142: times and the theorems.                                           *)

\* The last message is the one of some PV.
F142Inv ==
  LogData # NoMessage => \E pv \in PVs :
    LogData = [from |-> pv, value |-> makeValue(pv), timestamp |-> TimeStamp(pv)]

\* Every step of the workers keeps the invariant of f142.
LEMMA F142Inductive == F142Inv /\ [ConvertersNext]_allVars => F142Inv'
<1> SUFFICES ASSUME F142Inv, [ConvertersNext]_allVars PROVE F142Inv'
  OBVIOUS
<1>1. CASE UNCHANGED f142Vars
  BY <1>1 DEF F142Inv
<1>2. ASSUME NEW pv \in PVs, create(pv) PROVE F142Inv'
  <2>1. \/ UNCHANGED LogData
        \/ LogData' = [from |-> pv, value |-> makeValue(pv), timestamp |-> TimeStamp(pv)]
    BY <1>2 DEF create
  <2> QED BY <2>1, Zenon DEF F142Inv
<1>3. UNCHANGED f142Vars \/ \E pv \in PVs : create(pv)
  BY DEF ConvertersNext, ConvertF142, PVs
<1> QED BY <1>1, <1>2, <1>3

\* The last message is always the one that create made.
LEMMA F142Invariant == ConvertersSpec => []F142Inv
<1>1. ConvertersInit => F142Inv
  BY DEF ConvertersInit, F142Inv
<1> QED BY <1>1, F142Inductive, PTL DEF ConvertersSpec

\* The parts of the last message.
LEMMA MessageOf ==
  ASSUME F142Inv, LogData # NoMessage
  PROVE  \E pv \in PVs : /\ LogData.from = pv /\ LogData.value = makeValue(pv)
                         /\ LogData.timestamp = TimeStamp(pv)
<1>1. PICK pv \in PVs :
        LogData = [from |-> pv, value |-> makeValue(pv), timestamp |-> TimeStamp(pv)]
  BY DEF F142Inv
<1> QED BY <1>1

\* makeLogData: every PV that can be sent is sent with its own value in a
\* field wide enough for it, for every width of the integers.
THEOREM F142ValuesKept == ConvertersSpec => []ValueKept
<1>1. ASSUME F142Inv PROVE ValueKept
  <2> SUFFICES ASSUME LogData # NoMessage PROVE Kept(LogData.from, LogData.value)
    BY Zenon DEF ValueKept, Kept, Sendable
  <2>1. PICK pv \in PVs : LogData.from = pv /\ LogData.value = makeValue(pv)
    BY <1>1, MessageOf
  <2> QED BY <2>1, ValuesKept
<1> QED BY <1>1, F142Invariant, PTL

\* A reader of the uint64 timestamp of f142 gets seconds and nanoseconds of
\* the PV back, if the seconds fit.
THEOREM F142TimesKept == ConvertersSpec => []TimeKept
<1>1. ASSUME F142Inv PROVE TimeKept
  <2> DEFINE sec == LogData.from.timeStamp[1]
             nano == LogData.from.timeStamp[2]
             t == LogData.timestamp
  <2>1. ASSUME LogData # NoMessage, "timeStamp" \in LogData.from.fields, ValidTime(sec, nano)
        PROVE  t \div Second = sec /\ t % Second = nano
    <3>1. PICK pv \in PVs : LogData.from = pv /\ LogData.timestamp = TimeStamp(pv)
      BY <1>1, <2>1, MessageOf
    <3>2. t = Nanoseconds(sec, nano)
      BY <2>1, <3>1 DEF TimeStamp
    <3> HIDE DEF sec, nano, t
    <3>3. sec \in Nat /\ nano \in Nat /\ nano < Second /\ t = sec * Second + nano
      BY <2>1, <3>2, ValidNanoseconds
    <3> QED BY <3>3, Remainder
  <2> QED BY <2>1 DEF TimeKept
<1> QED BY <1>1, F142Invariant, PTL
=============================================================================
