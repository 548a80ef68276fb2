----------------------------- MODULE Converters -----------------------------
(***************************************************************************)
(* Conversion workers at work: packet after packet a worker converts an    *)
(* update with the converter of the packet's path, TdcTime or f142,        *)
(* updates of EPICS as well as updates of the fake client. The f142        *)
(* converter has no state that messages depend on: its create is one step. *)
(***************************************************************************)
EXTENDS TdcTime, F142

tdcVars == <<SequenceNumber, pc, input, loaded, sent>>
allVars == <<vars, f142Vars>>

\* The values tried for each type: the ends of its range and those around
\* zero.
Edges(T) ==
  LET S == Values[T] IN
  IF T = "pvString" THEN S
  ELSE {v \in S : v \in -1..1 \/ (\A x \in S : x <= v) \/ (\A x \in S : x >= v)}

\* PVs of each kind with a value of each type.
Fields ==
  (UNION {[kind : {"scalar"}, type : {T}, value : Values[T]] : T \in DOMAIN Values})
  \cup (UNION {[kind : {"scalarArray"}, type : {T},
                value : UNION {[1..n -> Edges(T)] : n \in 0..2}] : T \in DOMAIN Values})
  \cup [kind : {"NTEnum"}, type : {"pvInt"}, value : Values.pvInt]
  \cup [kind : {"no value", "structure", "structureArray", "union"}, type : {"none"}, value : {0}]

Times == (-1..((Width \div Second) - 1)) \X (-1..Second)

PV(f, time, fields, changed) ==
  [kind |-> f.kind, type |-> f.type, value |-> f.value, timeStamp |-> time,
   fields |-> fields, AlarmStatusChanged |-> changed]

\* Every value at one time, one value at every time, and one value with any
\* of the fields missing.
OneInt == [kind |-> "scalar", type |-> "pvInt", value |-> 1]
AllFields == {"alarm", "timeStamp"} \cup AlarmFields \cup TimeFields
EpicsPVs ==
  {PV(f, <<1, 0>>, AllFields, TRUE) : f \in Fields}
  \cup {PV(OneInt, t, AllFields, TRUE) : t \in Times}
  \cup {PV(OneInt, <<1, 0>>, F, changed) : F \in SUBSET AllFields, changed \in BOOLEAN}

FakePVs == {generateFakePVUpdate(v, now) : v \in Values.pvDouble, now \in Values.pvULong}

\* The worker takes a packet of an f142 path.
ConvertF142(w) ==
  /\ pc[w] = "idle" /\ updates < MaxUpdates
  /\ updates' = updates + 1
  /\ \E pv \in EpicsPVs \cup FakePVs : create(pv)
  /\ UNCHANGED tdcVars

ConvertersInit == Init /\ LogData = NoMessage /\ crashed = FALSE

ConvertersNext ==
  /\ ~ crashed
  /\ \/ Next /\ UNCHANGED f142Vars
     \/ \E w \in Workers : ConvertF142(w)

ConvertersSpec == ConvertersInit /\ [][ConvertersNext]_allVars
-----------------------------------------------------------------------------
\* An f142 message has the value of the PV, whatever its type, in a field
\* wide enough for it: only PVs without a value, arrays of strings,
\* structures other than NTEnum and unions are sent without one.
ValueKept ==
  LogData # NoMessage =>
    LET pv == LogData.from
        m == LogData.value
        sendable == pv.kind \in {"scalar", "NTEnum", "scalarArray"}
                      /\ ~ (pv.kind = "scalarArray" /\ pv.type = "pvString")
    IN /\ m.Type # "NONE" <=> sendable
       /\ sendable => m.value = pv.value /\ m.array = (pv.kind = "scalarArray")

\* From the timestamp of an f142 message a reader gets back the seconds and
\* nanoseconds of the PV, and for a fake update the time it was made.
TimeKept ==
  LogData # NoMessage /\ "timeStamp" \in LogData.from.fields =>
    LET sec == LogData.from.timeStamp[1]
        nano == LogData.from.timeStamp[2]
        t == LogData.timestamp
    IN ValidTime(sec, nano) => t \div Second = sec /\ t % Second = nano
=============================================================================
