-------------------------------- MODULE F142 --------------------------------
(***************************************************************************)
(* The f142 converter: which Value of the LogData message a PV becomes,    *)
(* its timestamp, and the fields it looks up; and the structure that the   *)
(* fake client (EpicsClientRandom) makes for it.                           *)
(*                                                                         *)
(* The integers of 8, 16, 32 and 64 bits have Width \div 8, \div 4, \div 2 *)
(* and Width values here. Real numbers are integers, of which a float      *)
(* keeps the even ones only. A builder of LogData has the name of the      *)
(* scalar type whose values it has room for.                               *)
(***************************************************************************)
EXTENDS EpicsTime, Sequences, FiniteSets

CONSTANTS
  Strings,    \* values of PVs of type string
  NoMessage   \* no message yet

\* The halves of the smallest range are whole and hold the booleans.
ASSUME F142Assumption == Width % 16 = 0 /\ Width >= 32

VARIABLES
  LogData,    \* the message that create has made last, with the PV it is from
  crashed     \* a field that a PV does not have was dereferenced

f142Vars == <<LogData, crashed>>

Signed(n) == (-(n \div 2))..((n \div 2) - 1)
Unsigned(n) == 0..(n - 1)
\* What PVs of each scalar type can hold (a few of the real numbers).
Values ==
  [pvBoolean |-> {0, 1},
   pvByte |-> Signed(Width \div 8), pvUByte |-> Unsigned(Width \div 8),
   pvShort |-> Signed(Width \div 4), pvUShort |-> Unsigned(Width \div 4),
   pvInt |-> Signed(Width \div 2), pvUInt |-> Unsigned(Width \div 2),
   pvLong |-> Signed(Width), pvULong |-> Unsigned(Width),
   pvFloat |-> {-2, 0, 4}, pvDouble |-> {-1, 0, 3}, pvString |-> Strings]
Integers8to64 == DOMAIN Values \ {"pvBoolean", "pvFloat", "pvDouble", "pvString"}

\* A value v put into a builder of type T: integers wrap around.
Fit(T, v) ==
  IF T \in Integers8to64
    THEN CHOOSE x \in Values[T] : (x - v) % Cardinality(Values[T]) = 0
  ELSE IF T = "pvFloat" THEN 2 * (v \div 2)
  ELSE v

\* Mutant: unsigned 32 bit integers are written as signed ones.
ScalarType_Signed(T) ==
  CASE T = "pvBoolean" -> "pvByte" [] T = "pvUInt" -> "pvInt" [] OTHER -> T

\* The builder Make_Scalar, Make_ScalarArray and MakeScalarString choose.
ScalarType(T) == IF T = "pvBoolean" THEN "pvByte" ELSE T

NONE == [Type |-> "NONE", array |-> FALSE, value |-> 0]

makeValueScalar(T, v) ==
  [Type |-> ScalarType(T), array |-> FALSE, value |-> Fit(ScalarType(T), v)]

\* The bytes of an array are copied; arrays of strings are not implemented.
makeValueArray(T, a) ==
  IF T = "pvString" THEN NONE
  ELSE [Type |-> ScalarType(T), array |-> TRUE,
        value |-> [i \in 1..Len(a) |-> Fit(ScalarType(T), a[i])]]

\* Of an NTEnum the index, an int, is sent. Other structures, arrays of
\* structures, unions and PVs without a value give no value.
makeValue(pv) ==
  CASE pv.kind = "scalar" -> makeValueScalar(pv.type, pv.value)
    [] pv.kind = "scalarArray" -> makeValueArray(pv.type, pv.value)
    [] pv.kind = "NTEnum" -> makeValueScalar("pvInt", pv.value)
    [] OTHER -> NONE

\* Mutant: the seconds are multiplied in 32 bits.
TimeStamp_Narrow(pv) ==
  IF "timeStamp" \in pv.fields
    THEN (Fit("pvUInt", pv.timeStamp[1] * Second) + pv.timeStamp[2]) % Width
    ELSE 0

\* The timestamp field; 0 is the default of the schema.
TimeStamp(pv) ==
  IF "timeStamp" \in pv.fields
    THEN Nanoseconds(pv.timeStamp[1], pv.timeStamp[2])
    ELSE 0

\* A PV may have no alarm and no timeStamp, but what is within them is looked
\* up without a check: by getAlarmStatus and getAlarmSeverity if the alarm
\* status has changed, and for the timestamp.
AlarmFields == {"message", "severity"}
TimeFields == {"secondsPastEpoch", "nanoseconds"}
NullField(pv) ==
  \/ pv.AlarmStatusChanged /\ "alarm" \in pv.fields /\ ~ (AlarmFields \subseteq pv.fields)
  \/ "timeStamp" \in pv.fields /\ ~ (TimeFields \subseteq pv.fields)

\* Converter::create; with a null field the process ends.
create(pv) ==
  IF NullField(pv)
    THEN crashed' = TRUE /\ UNCHANGED LogData
    ELSE /\ LogData' = [from |-> pv, value |-> makeValue(pv), timestamp |-> TimeStamp(pv)]
         /\ UNCHANGED crashed
-----------------------------------------------------------------------------
\* EpicsClientRandom: a double, the current time split up, an alarm that has
\* a message only; emit leaves AlarmStatusChanged as it is.
generateFakePVUpdate(v, now) ==
  [kind |-> "scalar", type |-> "pvDouble", value |-> v,
   timeStamp |-> <<now \div Second, now - (now \div Second) * Second>>,
   fields |-> {"alarm", "message", "timeStamp"} \cup TimeFields,
   AlarmStatusChanged |-> FALSE]
=============================================================================
