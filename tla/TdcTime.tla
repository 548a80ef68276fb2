------------------------------- MODULE TdcTime -------------------------------
(***************************************************************************)
(* The TdcTime converter: arrays of (seconds, nanoseconds) pairs become    *)
(* tdct messages, numbered by the static SequenceNumber, which all         *)
(* converter instances and all worker threads share without a lock.        *)
(*                                                                         *)
(* The increment of SequenceNumber is a load and a store: what a data race *)
(* on it can do on the machines the program is built for.                  *)
(***************************************************************************)
EXTENDS EpicsTime, Sequences, FiniteSets

CONSTANTS
  Workers,    \* conversion threads
  Arrays,     \* the arrays of integers that come
  MaxUpdates  \* bound: updates converted

ASSUME TdcAssumption ==
  Arrays \subseteq Seq(Int) /\ MaxUpdates \in Nat

VARIABLES
  SequenceNumber,
  pc,      \* each worker: "idle", or "increment" within SequenceNumber++
  input,   \* the array each worker converts
  loaded,  \* the value of SequenceNumber each worker has read
  sent,    \* messages, in the order in which they were made
  updates

vars == <<SequenceNumber, pc, input, loaded, sent, updates>>

Kinds == {"NTScalarArray of int", "NTScalarArray of other", "other"}

\* Mutant: the pairs overlap.
CalcTimestamps_Overlapping(a) ==
  [i \in 1..(Len(a) \div 2) |-> Nanoseconds(a[i], a[i + 1])]

\* CalcTimestamps for an array of even length.
CalcTimestamps(a) ==
  [i \in 1..(Len(a) \div 2) |-> Nanoseconds(a[2 * i - 1], a[2 * i])]

\* Whether create makes a message of it.
Converts(kind, a) ==
  kind = "NTScalarArray of int" /\ Len(a) % 2 = 0 /\ CalcTimestamps(a) # <<>>

Init ==
  /\ SequenceNumber = 0
  /\ pc = [w \in Workers |-> "idle"]
  /\ input = [w \in Workers |-> <<>>]
  /\ loaded = [w \in Workers |-> 0]
  /\ sent = <<>>
  /\ updates = 0

\* Converter::create returns nothing: wrong type, odd length, no timestamps.
Rejects(w, kind, a) ==
  /\ pc[w] = "idle" /\ updates < MaxUpdates
  /\ ~ Converts(kind, a)
  /\ updates' = updates + 1
  /\ UNCHANGED <<SequenceNumber, pc, input, loaded, sent>>

\* Mutant: updates that make no message are numbered too.
Load_CountsAll(w, kind, a) ==
  /\ pc[w] = "idle" /\ updates < MaxUpdates
  /\ Converts(kind, a)
  /\ updates' = updates + 1
  /\ input' = [input EXCEPT ![w] = a]
  /\ loaded' = [loaded EXCEPT ![w] = updates]
  /\ pc' = [pc EXCEPT ![w] = "increment"]
  /\ UNCHANGED <<SequenceNumber, sent>>

\* generateFlatbufferFromData, up to the load in SequenceNumber++.
Load(w, kind, a) ==
  /\ pc[w] = "idle" /\ updates < MaxUpdates
  /\ Converts(kind, a)
  /\ updates' = updates + 1
  /\ input' = [input EXCEPT ![w] = a]
  /\ loaded' = [loaded EXCEPT ![w] = SequenceNumber]
  /\ pc' = [pc EXCEPT ![w] = "increment"]
  /\ UNCHANGED <<SequenceNumber, sent>>

\* The store, and the finished message.
Store(w) ==
  /\ pc[w] = "increment"
  /\ SequenceNumber' = (loaded[w] + 1) % Width
  /\ sent' = Append(sent, [sequence_counter |-> loaded[w],
                           timestamps |-> CalcTimestamps(input[w]), from |-> input[w]])
  /\ input' = [input EXCEPT ![w] = <<>>]
  /\ loaded' = [loaded EXCEPT ![w] = 0]
  /\ pc' = [pc EXCEPT ![w] = "idle"]
  /\ UNCHANGED updates

Next == \E w \in Workers :
  \/ \E kind \in Kinds, a \in Arrays : Rejects(w, kind, a) \/ Load(w, kind, a)
  \/ Store(w)

Spec == Init /\ [][Next]_vars
-----------------------------------------------------------------------------
\* What the documentation asks of a converter with state: it is thread safe.
\* The sequence counters of the messages count up from zero without a gap
\* and without a repetition, as SequenceNumber++ does in one thread. (With
\* two conversion threads they do not.)
Consecutive == \A i \in 1..Len(sent) : sent[i].sequence_counter = i - 1

\* With any number of threads no number is left out: a message has a number
\* only after every smaller one has been used, whichever threads have lost
\* their increment or set SequenceNumber back in between; updates that make
\* no message use none.
NoGaps ==
  \A i \in 1..Len(sent) : \A n \in 0..(sent[i].sequence_counter - 1) :
    \E j \in 1..(i - 1) : sent[j].sequence_counter = n

\* A message has one timestamp per pair, and timestamps keep the order of
\* pairs that are valid times (as long as the values fit).
Normal(a, i) == ValidTime(a[2 * i - 1], a[2 * i])
Earlier(a, i, j) ==
  \/ a[2 * i - 1] < a[2 * j - 1]
  \/ a[2 * i - 1] = a[2 * j - 1] /\ a[2 * i] < a[2 * j]
TimesOrdered ==
  \A m \in 1..Len(sent) :
    LET a == sent[m].from
        t == sent[m].timestamps
    IN /\ Len(t) > 0 /\ 2 * Len(t) = Len(a)
       /\ \A i, j \in 1..Len(t) :
            Normal(a, i) /\ Normal(a, j) => (Earlier(a, i, j) <=> t[i] < t[j])
=============================================================================
