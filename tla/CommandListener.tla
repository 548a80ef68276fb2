--------------------------- MODULE CommandListener ---------------------------
(***************************************************************************)
(* The commands on their way from the command topic to the command         *)
(* handler: Consumer::addTopic assigns the partitions of the topic at      *)
(* their high watermarks when the Forwarder is constructed; the main loop  *)
(* polls one message at a time and hands it to ConfigCallback.             *)
(*                                                                         *)
(* The topic is external: commands are appended to its partitions at any   *)
(* time. librdkafka is external: it delivers each assigned partition in    *)
(* order from the assigned offset; an offset out of range is reset to the  *)
(* end.                                                                    *)
(***************************************************************************)
EXTENDS Integers, Sequences

CONSTANTS
  Partitions,  \* number of partitions of the command topic
  MaxLog,      \* bound: messages in a partition
  Earlier      \* bound: messages in a partition before the program starts

ASSUME ListenerAssumption ==
  Partitions \in Nat /\ MaxLog \in Nat /\ Earlier \in 0..MaxLog

PartitionIDs == 1..Partitions
Kinds == {"command", "exit", "empty"}   \* what a message may be

VARIABLES
  log,       \* the messages of each partition
  stage,     \* of the main thread: "metadata", "query", "loop", "stopped", "threw"
  next,      \* the partition whose watermarks are queried next
  offset,    \* TopicPartitionsWithOffsets: the offset set for each partition
  assigned,  \* whether the partitions have been assigned
  position,  \* librdkafka: messages of each partition already delivered
  handled,   \* positions of the messages of each partition given to ConfigCallback
  old,       \* history: length of each partition when the program started
  seen,      \* history: length of each partition when addTopic came to it
  known      \* history: partitions whose query succeeded

brokerVars == <<log, old>>
listenerVars == <<brokerVars, stage, next, offset, assigned, position, handled, seen, known>>

ListenerNew ==
  /\ log \in [PartitionIDs -> UNION {[1..n -> {"command"}] : n \in 0..Earlier}]
  /\ old = [p \in PartitionIDs |-> Len(log[p])]
  /\ next = 1
  /\ offset = [p \in PartitionIDs |-> 0]
  /\ assigned = FALSE
  /\ position = [p \in PartitionIDs |-> 0]
  /\ handled = [p \in PartitionIDs |-> {}]
  /\ seen = [p \in PartitionIDs |-> 0]
  /\ known = {}
ListenerInit == ListenerNew /\ stage = "metadata"
-----------------------------------------------------------------------------
\* Somebody sends a message to the topic. What is sent after the program has
\* ended makes no difference.
Send(p, kind) ==
  /\ stage \notin {"stopped", "threw"} /\ Len(log[p]) < MaxLog
  /\ log' = [log EXCEPT ![p] = Append(@, kind)]
  /\ UNCHANGED <<old, stage, next, offset, assigned, position, handled, seen, known>>

\* findTopic. Listener catches the failure of the metadata query and goes on
\* without an assignment; a topic that does not exist ends the program.
findTopic ==
  /\ stage = "metadata"
  /\ stage' \in {"query", "loop", "threw"}
  /\ UNCHANGED <<brokerVars, next, offset, assigned, position, handled, seen, known>>

\* Mutant: the low watermark is taken.
queryWatermarks_Low ==
  /\ stage = "query" /\ next <= Partitions
  /\ offset' = [offset EXCEPT ![next] = 0]
  /\ seen' = [seen EXCEPT ![next] = Len(log[next])]
  /\ known' = known \cup {next}
  /\ next' = next + 1
  /\ UNCHANGED <<brokerVars, stage, assigned, position, handled>>

\* query_watermark_offsets for one partition. The result is not looked at:
\* if the query failed, High has any value.
queryWatermarks ==
  /\ stage = "query" /\ next <= Partitions
  /\ \/ /\ offset' = [offset EXCEPT ![next] = Len(log[next])]
        /\ known' = known \cup {next}
     \/ /\ \E High \in 0..(MaxLog + 1) : offset' = [offset EXCEPT ![next] = High]
        /\ UNCHANGED known
  /\ seen' = [seen EXCEPT ![next] = Len(log[next])]
  /\ next' = next + 1
  /\ UNCHANGED <<brokerVars, stage, assigned, position, handled>>

\* assign, with all partitions at once, and the end of addTopic, which
\* deletes the TopicPartitions; an error ends the program.
assign ==
  /\ stage = "query" /\ next > Partitions
  /\ \/ /\ stage' = "loop"
        /\ assigned' = TRUE
        /\ position' = [p \in PartitionIDs |->
                          IF offset[p] <= Len(log[p]) THEN offset[p] ELSE Len(log[p])]
     \/ /\ stage' = "threw"
        /\ UNCHANGED <<assigned, position>>
  /\ offset' = [p \in PartitionIDs |-> 0]
  /\ UNCHANGED <<brokerVars, next, handled, seen, known>>

\* Mutant: what a command throws leaves the main loop.
ConfigCallback_Throws(kind, valid) ==
  stage' = CASE ~ valid -> "threw"
             [] kind = "exit" -> "stopped"
             [] OTHER -> stage

\* ConfigCallback::operator(): whatever is thrown is caught; exit stops the
\* loop. A command is not valid if it makes the parser or the handler throw;
\* any may: the payload is read up to the next zero byte, which may lie
\* behind its end.
ConfigCallback(kind, valid) ==
  stage' = IF kind = "exit" /\ valid THEN "stopped" ELSE stage

\* Listener::poll with a message. An empty one is not handed on, neither are
\* the end of a partition and errors.
poll(p, valid) ==
  /\ stage = "loop" /\ assigned
  /\ position[p] < Len(log[p])
  /\ position' = [position EXCEPT ![p] = @ + 1]
  /\ LET kind == log[p][position'[p]] IN
       IF kind = "empty"
         THEN UNCHANGED <<stage, handled>>
         ELSE /\ handled' = [handled EXCEPT ![p] = @ \cup {position'[p]}]
              /\ ConfigCallback(kind, valid)
  /\ UNCHANGED <<brokerVars, next, offset, assigned, seen, known>>

ListenerNext ==
  \/ \E p \in PartitionIDs, kind \in Kinds : Send(p, kind)
  \/ findTopic \/ queryWatermarks \/ assign
  \/ \E p \in PartitionIDs, valid \in BOOLEAN : poll(p, valid)

ListenerSpec == ListenerInit /\ [][ListenerNext]_listenerVars

\* The main thread goes on, and librdkafka delivers from every partition.
\* Whether anything is sent is open.
ListenerFairness ==
  /\ WF_listenerVars(queryWatermarks) /\ WF_listenerVars(assign)
  /\ \A p \in PartitionIDs : WF_listenerVars(\E valid \in BOOLEAN : poll(p, valid))
-----------------------------------------------------------------------------
\* Commands that were in the topic before the program started are not
\* carried out again by a forwarder that is started anew, as long as the
\* watermarks of their partition could be queried.
NoOldCommand ==
  \A p \in known : \A i \in handled[p] : i > old[p]

\* Every command that arrives in a partition after addTopic has asked for
\* its watermarks is handed to the command handler, also if it arrives
\* before the partitions are assigned, and whatever commands before it have
\* thrown; unless an exit command comes.
Missing(p) == {i \in (seen[p] + 1)..Len(log[p]) : log[p][i] # "empty" /\ i \notin handled[p]}
CommandsReachHandler ==
  \A p \in PartitionIDs :
    (assigned /\ p \in known) ~> (stage = "stopped" \/ Missing(p) = {})
=============================================================================
