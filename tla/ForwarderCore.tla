---------------------------- MODULE ForwarderCore ----------------------------
(***************************************************************************)
(* The forwarding core: the list of streams (Streams), the streams with    *)
(* their conversion paths (Stream, ConversionPath), the conversion worker  *)
(* threads and the scheduler they share (ConversionWorker,                 *)
(* ConversionScheduler), driven by the main thread (Forwarder: commands    *)
(* and shutdown), the status thread (StatusReporter -> checkStreamStatus)  *)
(* and the EPICS client callbacks.                                         *)
(*                                                                         *)
(* A step is what one thread does between two points where another thread  *)
(* can see a difference: acquiring a mutex, reading the stream list,       *)
(* dropping a shared_ptr, changing a transit counter, freeing a path.      *)
(*                                                                         *)
(* An update is its turn: 1 for the first that is dequeued from the output *)
(* queue of its stream, 2 for the second, and so on. The output queue is a *)
(* moodycamel::ConcurrentQueue: it keeps the order of each thread that     *)
(* enqueues (EPICS callback threads, the PV update timer), not an order    *)
(* between them, so the turn need not be the order of arrival, and nothing *)
(* here depends on it. The queue of a worker is filled by that worker      *)
(* alone and is therefore first in, first out. Both are unbounded: enqueue *)
(* fails for want of memory only, which is left out, and a null update is  *)
(* never enqueued (the clients assert it).                                 *)
(*                                                                         *)
(* A path is <<stream, position in ConversionPaths>>.                      *)
(***************************************************************************)
EXTENDS Integers, Sequences, FiniteSets

CONSTANTS
  Workers,      \* conversion worker threads (MainSettings.ConversionThreads)
  Main, Status, \* the thread of forward_epics_to_kafka and of StatusReporter
  NoOne,        \* owner of a free mutex
  Streams,      \* Stream objects that addMapping may create
  NoStream,     \* the null shared_ptr<Stream>
  ChannelOf,    \* channel_name of each Stream object
  Converters,   \* number of converters configured for each Stream object
  FillLimit,    \* nfm: 2^32-1 in the code, a small bound here
  MaxUpdates,   \* bound: updates each EPICS client delivers
  Stoppable,    \* channels for which a stop_channel command may arrive
  StopAll,      \* whether stop_all commands may arrive
  Failing       \* streams whose EPICS client may report an error

Threads == Workers \cup {Main, Status}
Channels == {ChannelOf[s] : s \in Streams}
Paths == UNION {{s} \X (1..Converters[s]) : s \in Streams}
Packets == Paths \X (Nat \ {0})
NoPacket == <<>>

ASSUME ThreadsAssumption ==
  /\ Main \notin Workers /\ Status \notin Workers /\ Main # Status
  /\ NoOne \notin Threads
ASSUME StreamsAssumption ==
  /\ NoStream \notin Streams
  /\ Converters \in [Streams -> Nat]
ASSUME BoundsAssumption == FillLimit \in Nat \ {0} /\ MaxUpdates \in Nat
ASSUME InputsAssumption == Stoppable \subseteq Channels /\ StopAll \in BOOLEAN /\ Failing \subseteq Streams

VARIABLES
  StreamPointers, \* Streams::StreamPointers
  StreamsMutex,   \* owner of Streams::StreamsMutex, when held across steps
  streams_mutex,  \* owner of Forwarder::streams_mutex
  mx,             \* owner of ConversionScheduler::mx
  sid,            \* ConversionScheduler::sid, an index from 0
  pc,             \* where each worker thread is
  do_run,         \* ConversionWorker::do_run
  queue,          \* ConversionWorker::queue
  hand,           \* the packet a worker has dequeued and not yet destroyed
  cur,            \* temporary shared_ptr returned by streams[sid] in fill
  sid0,           \* local of fill
  room,           \* nfm - nfc - NumQueued: what fill may still queue
  budget,         \* BufferSize - NumDequeued of fillConversionQueue
  last,           \* update of the packets in cwp_last, 0 if none
  main,           \* where the main thread is
  adding,         \* shared_ptr held by addMapping while it runs
  created,        \* Stream objects constructed so far
  clientUp,       \* streams whose EPICS client has not been stopped
  failed,         \* streams whose client has status() < 0
  produced,       \* number of updates ever enqueued in OutputQueue
  taken,          \* number of updates ever dequeued from OutputQueue
  npaths,         \* ConversionPaths.size()
  transit,        \* ConversionPath::transit
  marked,         \* packets whose stream pointer is set
  reap,           \* streams whose destructor a thread is running
  dead,           \* paths whose destructor has finished
  emitted,        \* updates that ConversionPath::emit was called with
  fault           \* the exception that left a thread: std::terminate

listVars == <<StreamPointers, StreamsMutex>>
fillVars == <<sid, cur, sid0, room, budget, last>>
flowVars == <<produced, taken, queue, hand, emitted, transit, marked>>
mainVars == <<main, adding, created, npaths>>
clientVars == <<clientUp, failed>>
vars == <<listVars, streams_mutex, mx, fillVars, pc, do_run, flowVars,
          mainVars, clientVars, reap, dead, fault>>

WorkerPCs == {"new", "loop", "size", "lock", "reset", "get", "fill", "drop",
              "next", "drain", "packet", "done"}

Size == Len(StreamPointers)
InList(s) == \E i \in 1..Size : StreamPointers[i] = s
PathsOf(s) == {<<s, i>> : i \in 1..npaths[s]}
\* The shared_ptr copies other than the one in the list.
Held(s) == adding = s \/ \E w \in Workers : cur[w] = s
Without(seq, i) == [j \in 1..(Len(seq) - 1) |-> IF j < i THEN seq[j] ELSE seq[j + 1]]
Terminated == fault # "none"
Reaped(t) == \A s \in reap[t] : PathsOf(s) \subseteq dead

Init ==
  /\ StreamPointers = <<>>
  /\ StreamsMutex = NoOne /\ streams_mutex = NoOne /\ mx = NoOne
  /\ sid = 0
  /\ pc = [w \in Workers |-> "new"]
  /\ do_run = [w \in Workers |-> 0]
  /\ queue = [w \in Workers |-> <<>>]
  /\ hand = [w \in Workers |-> NoPacket]
  /\ cur = [w \in Workers |-> NoStream]
  /\ sid0 = [w \in Workers |-> 0]
  /\ room = [w \in Workers |-> 0]
  /\ budget = [w \in Workers |-> 0]
  /\ last = [w \in Workers |-> 0]
  /\ main = "setup"
  /\ adding = NoStream
  /\ created = {} /\ clientUp = {} /\ failed = {}
  /\ produced = [s \in Streams |-> 0]
  /\ taken = [s \in Streams |-> 0]
  /\ npaths = [s \in Streams |-> 0]
  /\ transit = [p \in Paths |-> 0]
  /\ marked = {} /\ dead = {}
  /\ reap = [t \in Threads |-> {}]
  /\ emitted = [p \in Paths |-> <<>>]
  /\ fault = "none"
-----------------------------------------------------------------------------
(* Main thread: the constructor's mappings, the commands, the shutdown.    *)

\* addMapping up to Streams::add: the stream is in the list, without
\* converters, and its EPICS client is running.
AddStream(s) ==
  /\ main \in {"setup", "loop"} /\ adding = NoStream
  /\ s \notin created
  /\ streams_mutex = NoOne /\ StreamsMutex = NoOne
  /\ \A i \in 1..Size : ChannelOf[StreamPointers[i]] # ChannelOf[s]
  /\ streams_mutex' = Main
  /\ adding' = s
  /\ created' = created \cup {s}
  /\ clientUp' = clientUp \cup {s}
  /\ StreamPointers' = Append(StreamPointers, s)
  /\ UNCHANGED <<StreamsMutex, mx, fillVars, pc, do_run, flowVars, main,
                 npaths, failed, reap, dead, fault>>

\* The rest of addMapping: n converters are pushed; n smaller than what is
\* configured when pushConverterToStream throws. If the status thread has
\* erased the stream meanwhile, the main thread drops the last reference.
AddConverters(n) ==
  /\ npaths' = [npaths EXCEPT ![adding] = n]
  /\ streams_mutex' = NoOne
  /\ adding' = NoStream
  /\ IF InList(adding)
       THEN UNCHANGED <<clientUp, dead>>
       ELSE /\ clientUp' = clientUp \ {adding}
            /\ dead' = dead \cup {<<adding, i>> : i \in 1..n}
  /\ UNCHANGED <<listVars, mx, fillVars, pc, do_run, flowVars, main, created,
                 failed, reap, fault>>

\* Start of forward_epics_to_kafka.
Start ==
  /\ main = "setup" /\ adding = NoStream
  /\ main' = "loop"
  /\ do_run' = [w \in Workers |-> 1]
  /\ pc' = [w \in Workers |-> "loop"]
  /\ UNCHANGED <<listVars, streams_mutex, mx, fillVars, flowVars, adding,
                 created, npaths, clientVars, reap, dead, fault>>

\* Streams::stopChannel: under StreamsMutex; erasing the last shared_ptr
\* runs ~Stream, which stops the client and then waits for the paths.
StopChannel(i) ==
  /\ main = "loop" /\ adding = NoStream
  /\ StreamsMutex = NoOne
  /\ i \in 1..Size /\ ChannelOf[StreamPointers[i]] \in Stoppable
  /\ StreamsMutex' = Main
  /\ main' = "stopping"
  /\ LET s == StreamPointers[i] IN
       IF Held(s)
         THEN UNCHANGED <<reap, clientUp>>
         ELSE /\ reap' = [reap EXCEPT ![Main] = @ \cup {s}]
              /\ clientUp' = clientUp \ {s}
  /\ StreamPointers' = Without(StreamPointers, i)
  /\ UNCHANGED <<streams_mutex, mx, fillVars, pc, do_run, flowVars, adding,
                 created, npaths, failed, dead, fault>>

\* Streams::clearStreams, for the stop_all command and in the shutdown.
ClearStreams(to) ==
  /\ StreamsMutex = NoOne
  /\ StreamsMutex' = Main
  /\ main' = to
  /\ clientUp' = {s \in clientUp : ~ InList(s)}
  /\ reap' = [reap EXCEPT ![Main] = @ \cup {s \in Streams : InList(s) /\ ~ Held(s)}]
  /\ StreamPointers' = <<>>
  /\ UNCHANGED <<streams_mutex, mx, fillVars, pc, do_run, flowVars, adding,
                 created, npaths, failed, dead, fault>>

StopAllChannels ==
  /\ StopAll
  /\ main = "loop" /\ adding = NoStream
  /\ ClearStreams("stopping")

\* The destructors have returned: StreamsMutex is released.
EraseDone ==
  /\ main \in {"stopping", "clearing"} /\ Reaped(Main)
  /\ reap' = [reap EXCEPT ![Main] = {}]
  /\ StreamsMutex' = NoOne
  /\ main' = IF main = "stopping" THEN "loop" ELSE "stopped"
  /\ UNCHANGED <<StreamPointers, streams_mutex, mx, fillVars, pc, do_run,
                 flowVars, adding, created, npaths, clientVars, dead, fault>>

\* The run flag is no longer RUN (exit command or signal).
Exit ==
  /\ main = "loop" /\ adding = NoStream
  /\ main' = "joining"
  /\ UNCHANGED <<listVars, streams_mutex, mx, fillVars, pc, do_run, flowVars,
                 adding, created, npaths, clientVars, reap, dead, fault>>

\* conversion_workers_clear: one worker after the other is told to stop and
\* joined.
StopWorker(w) ==
  /\ main = "joining"
  /\ do_run[w] = 1
  /\ \A v \in Workers : do_run[v] = 1 \/ pc[v] = "done"
  /\ do_run' = [do_run EXCEPT ![w] = 0]
  /\ UNCHANGED <<listVars, streams_mutex, mx, fillVars, pc, flowVars,
                 mainVars, clientVars, reap, dead, fault>>

\* Mutant: the streams are not cleared after the workers have been joined.
Shutdown_KeepsStreams ==
  /\ main = "joining"
  /\ \A w \in Workers : pc[w] = "done"
  /\ main' = "stopped"
  /\ UNCHANGED <<listVars, streams_mutex, mx, fillVars, pc, do_run, flowVars,
                 adding, created, npaths, clientVars, reap, dead, fault>>

Shutdown ==
  /\ main = "joining"
  /\ \A w \in Workers : pc[w] = "done"
  /\ ClearStreams("clearing")
-----------------------------------------------------------------------------
(* The status thread and the EPICS clients.                                *)

\* Streams::checkStreamStatus erases the streams in error one by one, all
\* under StreamsMutex.
EraseFailed(i) ==
  /\ main # "setup"
  /\ StreamsMutex = NoOne \/ (StreamsMutex = Status /\ Reaped(Status))
  /\ i \in 1..Size /\ StreamPointers[i] \in failed
  /\ StreamsMutex' = Status
  /\ clientUp' = clientUp \ {StreamPointers[i]}
  /\ reap' = [reap EXCEPT ![Status] =
                IF Held(StreamPointers[i]) THEN @ ELSE @ \cup {StreamPointers[i]}]
  /\ StreamPointers' = Without(StreamPointers, i)
  /\ UNCHANGED <<streams_mutex, mx, fillVars, pc, do_run, flowVars, mainVars,
                 failed, dead, fault>>

StatusChecked ==
  /\ StreamsMutex = Status /\ Reaped(Status)
  /\ reap' = [reap EXCEPT ![Status] = {}]
  /\ StreamsMutex' = NoOne
  /\ UNCHANGED <<StreamPointers, streams_mutex, mx, fillVars, pc, do_run,
                 flowVars, mainVars, clientVars, dead, fault>>

\* EpicsClientInterface::emit: an update enters the stream's OutputQueue.
Update(s) ==
  /\ s \in clientUp /\ produced[s] < MaxUpdates
  /\ produced' = [produced EXCEPT ![s] = @ + 1]
  /\ UNCHANGED <<listVars, streams_mutex, mx, fillVars, pc, do_run, taken,
                 queue, hand, emitted, transit, marked, mainVars, clientVars,
                 reap, dead, fault>>

\* EpicsClientInterface::errorInEpics.
ClientError(s) ==
  /\ s \in clientUp \cap Failing /\ s \notin failed
  /\ failed' = failed \cup {s}
  /\ UNCHANGED <<listVars, streams_mutex, mx, fillVars, pc, do_run, flowVars,
                 mainVars, clientUp, reap, dead, fault>>

\* Mutant: ~ConversionPath does not wait for the packets in transit.
DestroyPath_NoWait(t, p) ==
  /\ p[1] \in reap[t] /\ p \in PathsOf(p[1]) /\ p \notin dead
  /\ dead' = dead \cup {p}
  /\ UNCHANGED <<listVars, streams_mutex, mx, fillVars, pc, do_run, flowVars,
                 mainVars, clientVars, reap, fault>>

\* ~ConversionPath returns once it reads transit = 0.
DestroyPath(t, p) ==
  /\ p[1] \in reap[t] /\ p \in PathsOf(p[1]) /\ p \notin dead
  /\ transit[p] = 0
  /\ dead' = dead \cup {p}
  /\ UNCHANGED <<listVars, streams_mutex, mx, fillVars, pc, do_run, flowVars,
                 mainVars, clientVars, reap, fault>>
-----------------------------------------------------------------------------
(* The worker threads.                                                     *)

Goto(w, label) == pc' = [pc EXCEPT ![w] = label]

\* while (do_run), and fill only when the own queue is empty.
Loop(w) ==
  /\ pc[w] = "loop"
  /\ IF do_run[w] = 0 THEN Goto(w, "done") /\ UNCHANGED mx
     ELSE IF queue[w] # <<>> THEN Goto(w, "drain") /\ UNCHANGED mx
     ELSE mx = NoOne /\ mx' = w /\ Goto(w, "size")
  /\ UNCHANGED <<listVars, streams_mutex, fillVars, do_run, flowVars,
                 mainVars, clientVars, reap, dead, fault>>

\* fill: return at once if there is no stream.
CheckSize(w) ==
  /\ pc[w] = "size" /\ StreamsMutex = NoOne
  /\ IF Size = 0 THEN Goto(w, "drain") /\ mx' = NoOne
                 ELSE Goto(w, "lock") /\ UNCHANGED mx
  /\ UNCHANGED <<listVars, streams_mutex, fillVars, do_run, flowVars,
                 mainVars, clientVars, reap, dead, fault>>

LockStreams(w) ==
  /\ pc[w] = "lock" /\ streams_mutex = NoOne
  /\ streams_mutex' = w
  /\ Goto(w, "reset")
  /\ UNCHANGED <<listVars, mx, fillVars, do_run, flowVars, mainVars,
                 clientVars, reap, dead, fault>>

\* fill: where the round starts.
ResetSid(w) ==
  /\ pc[w] = "reset" /\ StreamsMutex = NoOne
  /\ sid' = IF sid >= Size THEN 0 ELSE sid
  /\ sid0' = [sid0 EXCEPT ![w] = sid']
  /\ room' = [room EXCEPT ![w] = FillLimit]
  /\ Goto(w, "get")
  /\ UNCHANGED <<listVars, streams_mutex, mx, cur, budget, last, do_run,
                 flowVars, mainVars, clientVars, reap, dead, fault>>

\* streams[sid] throws std::out_of_range when the list has become shorter;
\* nothing in the worker thread catches it.
GetStream(w) ==
  /\ pc[w] = "get" /\ StreamsMutex = NoOne
  /\ IF sid < Size
       THEN /\ LET s == StreamPointers[sid + 1] IN
                 /\ cur' = [cur EXCEPT ![w] = s]
                 /\ budget' = [budget EXCEPT ![w] = produced[s] - taken[s]]
            /\ last' = [last EXCEPT ![w] = 0]
            /\ Goto(w, "fill")
            /\ UNCHANGED fault
       ELSE fault' = "out_of_range" /\ UNCHANGED <<cur, budget, last, pc>>
  /\ UNCHANGED <<listVars, streams_mutex, mx, sid, sid0, room, do_run,
                 flowVars, mainVars, clientVars, reap, dead>>

\* Mutant: the room left in the worker's queue is not looked at.
MayDequeue_NoRoomCheck(w) == budget[w] > 0

MayDequeue(w) == budget[w] > 0 /\ room[w] >= npaths[cur[w]]

\* FillOne with the worker's queue becoming q and k updates counted.
FillWith(w, q, k) ==
  /\ pc[w] = "fill" /\ MayDequeue(w)
  /\ taken' = [taken EXCEPT ![cur[w]] = @ + k]
  /\ queue' = [queue EXCEPT ![w] = q]
  /\ budget' = [budget EXCEPT ![w] = @ - 1]
  /\ room' = [room EXCEPT ![w] = @ - npaths[cur[w]]]
  /\ last' = [last EXCEPT ![w] = taken[cur[w]] + 1]
  /\ UNCHANGED <<listVars, streams_mutex, mx, sid, cur, sid0, pc, do_run,
                 produced, hand, emitted, transit, marked, mainVars,
                 clientVars, reap, dead, fault>>
Batch(w, n) == [i \in 1..n |-> <<<<cur[w], i>>, taken[cur[w]] + 1>>]
\* Mutants: the packets enter the queue at the front; the last path gets no
\* packet; the update stays in OutputQueue.
FillOne_Front(w) == FillWith(w, Batch(w, npaths[cur[w]]) \o queue[w], 1)
FillOne_SkipsPath(w) == FillWith(w, queue[w] \o Batch(w, npaths[cur[w]] - 1), 1)
FillOne_Peeks(w) == FillWith(w, queue[w] \o Batch(w, npaths[cur[w]]), 0)

\* fillConversionQueue, one round of the loop: whichever update try_dequeue
\* hands out has the next turn; one packet of it for each path.
FillOne(w) ==
  LET s == cur[w]
      n == taken[s] + 1
  IN
  /\ pc[w] = "fill" /\ MayDequeue(w)
  /\ taken' = [taken EXCEPT ![s] = n]
  /\ queue' = [queue EXCEPT ![w] = @ \o [i \in 1..npaths[s] |-> <<<<s, i>>, n>>]]
  /\ budget' = [budget EXCEPT ![w] = @ - 1]
  /\ room' = [room EXCEPT ![w] = @ - npaths[s]]
  /\ last' = [last EXCEPT ![w] = n]
  /\ UNCHANGED <<listVars, streams_mutex, mx, sid, cur, sid0, pc, do_run,
                 produced, hand, emitted, transit, marked, mainVars,
                 clientVars, reap, dead, fault>>

\* Mutant: the last packet of a path is not marked and not counted.
FillDone_Unmarked(w) ==
  /\ pc[w] = "fill" /\ ~ MayDequeue(w)
  /\ budget' = [budget EXCEPT ![w] = 0]
  /\ last' = [last EXCEPT ![w] = 0]
  /\ Goto(w, "drop")
  /\ UNCHANGED <<listVars, streams_mutex, mx, sid, cur, sid0, room, do_run,
                 flowVars, mainVars, clientVars, reap, dead, fault>>

\* fillConversionQueue, after the loop: the last packet of each path carries
\* the path's transit count.
FillDone(w) ==
  LET P == IF last[w] = 0 THEN {} ELSE PathsOf(cur[w]) IN
  /\ pc[w] = "fill" /\ ~ MayDequeue(w)
  /\ marked' = marked \cup {<<p, last[w]>> : p \in P}
  /\ transit' = [p \in Paths |-> IF p \in P THEN transit[p] + 1 ELSE transit[p]]
  /\ budget' = [budget EXCEPT ![w] = 0]   \* locals end here
  /\ last' = [last EXCEPT ![w] = 0]
  /\ Goto(w, "drop")
  /\ UNCHANGED <<listVars, streams_mutex, mx, sid, cur, sid0, room, do_run,
                 produced, taken, queue, hand, emitted, mainVars, clientVars,
                 reap, dead, fault>>

\* The temporary shared_ptr goes: if the stream was erased meanwhile, this
\* worker runs ~Stream.
DropStream(w) ==
  LET s == cur[w] IN
  /\ pc[w] = "drop"
  /\ cur' = [cur EXCEPT ![w] = NoStream]
  /\ IF InList(s)
       THEN UNCHANGED <<reap, clientUp>>
       ELSE /\ reap' = [reap EXCEPT ![w] = @ \cup {s}]
            /\ clientUp' = clientUp \ {s}
  /\ Goto(w, "next")
  /\ UNCHANGED <<listVars, streams_mutex, mx, sid, sid0, room, budget, last,
                 do_run, flowVars, mainVars, failed, dead, fault>>

\* NextStream with another successor of sid.
AdvanceTo(w, next) ==
  /\ pc[w] = "next" /\ Reaped(w) /\ StreamsMutex = NoOne
  /\ reap' = [reap EXCEPT ![w] = {}]
  /\ sid' = next
  /\ IF sid' = sid0[w] \/ room[w] = 0
       THEN /\ streams_mutex' = NoOne /\ mx' = NoOne
            /\ sid0' = [sid0 EXCEPT ![w] = 0]
            /\ room' = [room EXCEPT ![w] = 0]
            /\ Goto(w, "drain")
       ELSE UNCHANGED <<streams_mutex, mx, sid0, room>> /\ Goto(w, "get")
  /\ UNCHANGED <<listVars, cur, budget, last, do_run, flowVars, mainVars,
                 clientVars, dead, fault>>
\* Mutants: the wrap-around comes one too late; the next stream is never
\* visited.
NextStream_LateWrap(w) == AdvanceTo(w, IF sid + 1 > Size THEN 0 ELSE sid + 1)
NextStream_Stays(w) == AdvanceTo(w, sid)

\* fill: advance sid; leave when the round is complete or the limit reached.
NextStream(w) ==
  /\ pc[w] = "next" /\ Reaped(w) /\ StreamsMutex = NoOne
  /\ reap' = [reap EXCEPT ![w] = {}]
  /\ sid' = IF sid + 1 >= Size THEN 0 ELSE sid + 1
  /\ IF sid' = sid0[w] \/ room[w] = 0
       THEN /\ streams_mutex' = NoOne /\ mx' = NoOne
            /\ sid0' = [sid0 EXCEPT ![w] = 0]   \* locals end here
            /\ room' = [room EXCEPT ![w] = 0]
            /\ Goto(w, "drain")
       ELSE UNCHANGED <<streams_mutex, mx, sid0, room>> /\ Goto(w, "get")
  /\ UNCHANGED <<listVars, cur, budget, last, do_run, flowVars, mainVars,
                 clientVars, dead, fault>>

\* One packet: dequeued, handed to ConversionPath::emit.
EmitPacket(w) ==
  /\ pc[w] = "drain" /\ queue[w] # <<>>
  /\ hand' = [hand EXCEPT ![w] = Head(queue[w])]
  /\ queue' = [queue EXCEPT ![w] = Tail(@)]
  /\ emitted' = [emitted EXCEPT ![Head(queue[w])[1]] = Append(@, Head(queue[w])[2])]
  /\ Goto(w, "packet")
  /\ UNCHANGED <<listVars, streams_mutex, mx, fillVars, do_run, produced,
                 taken, transit, marked, mainVars, clientVars, reap, dead,
                 fault>>

\* Mutant: the destructor of a packet does not give the count back.
DestroyPacket_NoDecrement(w) ==
  /\ pc[w] = "packet"
  /\ marked' = marked \ {hand[w]}
  /\ hand' = [hand EXCEPT ![w] = NoPacket]
  /\ Goto(w, "drain")
  /\ UNCHANGED <<listVars, streams_mutex, mx, fillVars, do_run, produced,
                 taken, queue, emitted, transit, mainVars, clientVars, reap,
                 dead, fault>>

\* ~ConversionWorkPacket.
DestroyPacket(w) ==
  /\ pc[w] = "packet"
  /\ IF hand[w] \in marked
       THEN /\ transit' = [transit EXCEPT ![hand[w][1]] = @ - 1]
            /\ marked' = marked \ {hand[w]}
       ELSE UNCHANGED <<transit, marked>>
  /\ hand' = [hand EXCEPT ![w] = NoPacket]
  /\ Goto(w, "drain")
  /\ UNCHANGED <<listVars, streams_mutex, mx, fillVars, do_run, produced,
                 taken, queue, emitted, mainVars, clientVars, reap, dead,
                 fault>>

\* Mutant: a worker told to stop leaves its queue behind.
Drained_Abandons(w) ==
  /\ pc[w] = "drain" /\ (queue[w] = <<>> \/ do_run[w] = 0)
  /\ Goto(w, "loop")
  /\ UNCHANGED <<listVars, streams_mutex, mx, fillVars, do_run, flowVars,
                 mainVars, clientVars, reap, dead, fault>>

Drained(w) ==
  /\ pc[w] = "drain" /\ queue[w] = <<>>
  /\ Goto(w, "loop")
  /\ UNCHANGED <<listVars, streams_mutex, mx, fillVars, do_run, flowVars,
                 mainVars, clientVars, reap, dead, fault>>
-----------------------------------------------------------------------------
WorkerStep(w) ==
  \/ Loop(w) \/ CheckSize(w) \/ LockStreams(w) \/ ResetSid(w) \/ GetStream(w)
  \/ FillOne(w) \/ FillDone(w) \/ DropStream(w) \/ NextStream(w)
  \/ EmitPacket(w) \/ DestroyPacket(w) \/ Drained(w)

\* What the main thread does without waiting for input.
MainStep ==
  \/ /\ adding # NoStream
     /\ \E n \in 0..Converters[adding] : AddConverters(n)
  \/ Start
  \/ EraseDone
  \/ \E w \in Workers : StopWorker(w)
  \/ Shutdown

Command ==
  \/ \E s \in Streams : AddStream(s)
  \/ \E i \in 1..Size : StopChannel(i)
  \/ StopAllChannels
  \/ Exit

StatusStep == (\E i \in 1..Size : EraseFailed(i)) \/ StatusChecked

Epics == \E s \in Streams : Update(s) \/ ClientError(s)

\* The process has returned from forward_epics_to_kafka, or is gone.
Ended == (main = "stopped" \/ Terminated) /\ UNCHANGED vars

Next ==
  \/ /\ ~ Terminated
     /\ \/ \E w \in Workers : WorkerStep(w)
        \/ MainStep
        \/ Command
        \/ StatusStep
        \/ Epics
        \/ \E t \in Threads, p \in Paths : DestroyPath(t, p)
  \/ Ended

Spec == Init /\ [][Next]_vars

\* Every thread keeps running. std::mutex promises no fairness, but a worker
\* sleeps between two rounds of its loop without holding a lock, so a
\* thread that waits for a mutex gets it in the end (SF on acquiring one).
\* Commands, updates and EPICS errors come or do not come.
Fairness ==
  /\ \A w \in Workers : WF_vars(~ Terminated /\ WorkerStep(w))
  /\ \A w \in Workers : SF_vars(~ Terminated /\ (Loop(w) \/ LockStreams(w)))
  /\ WF_vars(~ Terminated /\ MainStep)
  /\ WF_vars(~ Terminated /\ StatusStep)
  /\ \A t \in Threads : WF_vars(~ Terminated /\ \E p \in Paths : DestroyPath(t, p))

FairSpec == Spec /\ Fairness
-----------------------------------------------------------------------------
\* Type invariant of the state of Streams, Stream, ConversionWorker,
\* ConversionScheduler and Forwarder.
TypeOK ==
  /\ StreamPointers \in Seq(Streams)
  /\ StreamsMutex \in {Main, Status, NoOne}
  /\ streams_mutex \in Workers \cup {Main, NoOne}
  /\ mx \in Workers \cup {NoOne}
  /\ sid \in Nat
  /\ pc \in [Workers -> WorkerPCs]
  /\ do_run \in [Workers -> {0, 1}]
  /\ queue \in [Workers -> Seq(Packets)]
  /\ hand \in [Workers -> Packets \cup {NoPacket}]
  /\ cur \in [Workers -> Streams \cup {NoStream}]
  /\ sid0 \in [Workers -> Nat]
  /\ room \in [Workers -> Nat]
  /\ budget \in [Workers -> Int]
  /\ last \in [Workers -> Nat]
  /\ main \in {"setup", "loop", "stopping", "joining", "clearing", "stopped"}
  /\ adding \in Streams \cup {NoStream}
  /\ created \subseteq Streams /\ clientUp \subseteq Streams /\ failed \subseteq Streams
  /\ produced \in [Streams -> Nat]
  /\ taken \in [Streams -> Nat]
  /\ npaths \in [Streams -> Nat] /\ \A s \in Streams : npaths[s] <= Converters[s]
  /\ transit \in [Paths -> Int]
  /\ marked \subseteq Packets
  /\ reap \in [Threads -> SUBSET Streams]
  /\ dead \subseteq Paths
  /\ emitted \in [Paths -> Seq(Nat \ {0})]
  /\ fault \in {"none", "out_of_range"}

InQueue(w) == {queue[w][j] : j \in 1..Len(queue[w])}
Counted(p) == {k \in marked : k[1] = p}
Carried(w) == InQueue(w) \cup ({hand[w]} \ {NoPacket})

\* No use after free: the path of a packet that a worker still has in its
\* queue or in its hands exists, and so do the paths of the stream whose
\* fillConversionQueue is running. This is what the transit counter and the
\* wait in ~ConversionPath are for, although only the last packet of a
\* batch is counted.
PathAlive ==
  \A w \in Workers :
    /\ \A k \in Carried(w) : k[1] \notin dead
    /\ cur[w] # NoStream => PathsOf(cur[w]) \cap dead = {}

\* The transit counter of a path is the number of undestroyed packets that
\* carry it: it never goes below zero and never keeps ~ConversionPath
\* waiting for a packet that is gone.
TransitExact ==
  /\ \A p \in Paths : transit[p] = Cardinality(Counted(p))
  /\ marked \subseteq UNION {Carried(w) : w \in Workers}

Sent(p) == {emitted[p][i] : i \in 1..Len(emitted[p])}
Waiting(p) == {k[2] : k \in {k \in UNION {InQueue(w) : w \in Workers} : k[1] = p}}

\* Conservation: an update that was dequeued from a stream is, for every
\* path of the stream, either waiting in one worker's queue or has been
\* emitted, and never both. Workers finish only when nothing is left with
\* them, so a shutdown loses no dequeued update.
NothingLost ==
  /\ \A s \in Streams : \A p \in PathsOf(s) :
       /\ Waiting(p) \cup Sent(p) = 1..taken[s]
       /\ Waiting(p) \cap Sent(p) = {}
  /\ \A w \in Workers : pc[w] = "done" => Carried(w) = {}

\* The forwarding core implements a pipe per path that neither duplicates
\* nor invents updates.
Pipe == INSTANCE UpdatePipe WITH Fifo <- FALSE
ImplementsPipe == Pipe!Spec

\* With one conversion thread the updates leave every path in the order in
\* which they were dequeued from the stream's output queue, without a gap:
\* batches, partial fills and the draining at shutdown change no order. Those
\* of one EPICS thread, or of the timer, then leave in the order in which that
\* thread enqueued them; between threads the queue promises no order.
FifoPipe == INSTANCE UpdatePipe WITH Fifo <- TRUE
ImplementsFifoPipe == FifoPipe!Spec

\* As long as nobody stops it, every update of a stream leaves on every path
\* of the stream.
UpdatesForwarded ==
  \A p \in Paths : \A n \in 1..MaxUpdates :
    (n <= produced[p[1]] /\ p \in PathsOf(p[1]))
      ~> (n \in Sent(p) \/ main \notin {"setup", "loop"})

\* The exit command ends forward_epics_to_kafka: all workers are joined and
\* all streams destroyed (an exception that ended the process first is the
\* matter of NoTerminate).
ExitCompletes ==
  (main = "joining")
    ~> \/ Terminated
       \/ main = "stopped" /\ \A s \in created : PathsOf(s) \subseteq dead

\* stop_channel and stop_all return: the main thread gets back to its loop.
StopReturns == (main = "stopping") ~> (main # "stopping" \/ Terminated)

\* No exception leaves a worker thread.
NoTerminate == ~ Terminated
-----------------------------------------------------------------------------
(* The inductive invariant behind PathAlive and TransitExact.              *)

Filling == {"size", "lock", "reset", "get", "fill", "drop", "next"}

\* Who holds which mutex; a worker has a stream in its hands only inside
\* fillConversionQueue.
LockInv ==
  /\ \A w \in Workers :
       /\ mx = w <=> pc[w] \in Filling
       /\ streams_mutex = w <=> pc[w] \in Filling \ {"size", "lock"}
       /\ cur[w] # NoStream <=> pc[w] \in {"fill", "drop"}
       /\ hand[w] # NoPacket <=> pc[w] = "packet"
  /\ streams_mutex = Main <=> adding # NoStream
  /\ main = "setup" => \A w \in Workers : pc[w] = "new"

\* The life of a Stream object: constructed, in the list at most once, and
\* never destroyed while the list or another shared_ptr refers to it.
LifeInv ==
  /\ \A i \in 1..Size : StreamPointers[i] \in created
  /\ \A i, j \in 1..Size : StreamPointers[i] = StreamPointers[j] => i = j
  /\ \A s \in Streams : Held(s) => s \in created
  /\ \A t \in Threads : \A s \in reap[t] : s \in created /\ ~ InList(s) /\ ~ Held(s)
  /\ \A p \in dead : p[1] \in created /\ ~ InList(p[1]) /\ ~ Held(p[1])
  /\ \A s \in Streams : (s \notin created \/ adding = s) => npaths[s] = 0

Known == UNION {Carried(w) : w \in Workers}

\* Packets belong to existing paths, are numbered by what was dequeued, and
\* are in one place only.
PacketInv ==
  /\ \A k \in Known : k[1] \in PathsOf(k[1][1]) /\ k[2] <= taken[k[1][1]]
  /\ \A w, v \in Workers : \A i \in 1..Len(queue[w]) : \A j \in 1..Len(queue[v]) :
       queue[w][i] = queue[v][j] => w = v /\ i = j
  /\ \A w, v \in Workers : \A j \in 1..Len(queue[v]) : hand[w] # queue[v][j]
  /\ \A w, v \in Workers : hand[w] = hand[v] /\ hand[w] # NoPacket => w = v

\* fillConversionQueue has queued packets and not yet marked the last ones.
Marking(w) == pc[w] = "fill" /\ last[w] # 0

\* The packet at position m of the queue keeps its path alive: it carries
\* the transit count, or will when fillConversionQueue returns.
Guards(w, m) ==
  \/ queue[w][m] \in marked
  \/ Marking(w) /\ queue[w][m][1][1] = cur[w] /\ queue[w][m][2] = last[w]

\* Behind every packet, in the same queue, is one that guards its path.
GuardInv ==
  \A w \in Workers :
    /\ \A j \in 1..Len(queue[w]) : \E m \in j..Len(queue[w]) :
         queue[w][m][1] = queue[w][j][1] /\ Guards(w, m)
    /\ hand[w] # NoPacket => \/ hand[w] \in marked
                            \/ \E m \in 1..Len(queue[w]) :
                                 queue[w][m][1] = hand[w][1] /\ Guards(w, m)

\* The counters are exact, a counted path is alive, and the packets about to
\* be marked are in the queue and not marked yet.
MarkInv ==
  /\ marked \subseteq Known
  /\ \A p \in Paths : IsFiniteSet(Counted(p)) /\ transit[p] = Cardinality(Counted(p))
  /\ \A k \in marked : k[1] \notin dead
  /\ \A w \in Workers : Marking(w) =>
       /\ last[w] <= taken[cur[w]]
       /\ \A p \in PathsOf(cur[w]) : <<p, last[w]>> \in InQueue(w)
       /\ \A k \in marked : ~ (k[1][1] = cur[w] /\ k[2] = last[w])

SafeInv == TypeOK /\ LockInv /\ LifeInv /\ PacketInv /\ GuardInv /\ MarkInv

\* Nothing is dequeued that was not delivered: the number read before the
\* loop of fillConversionQueue stays valid, since only one worker fills. A
\* stream without converters has forwarded nothing yet. A worker looks at
\* do_run only when its queue is empty.
TakeInv ==
  /\ \A s \in Streams : taken[s] <= produced[s]
  /\ \A s \in Streams : (s \notin created \/ adding = s) =>
       taken[s] = 0 /\ \A p \in Paths : p[1] = s => emitted[p] = <<>>
  /\ \A w \in Workers : pc[w] = "fill" => budget[w] <= produced[cur[w]] - taken[cur[w]]
  /\ \A w \in Workers : pc[w] \in {"new", "loop", "done"} => queue[w] = <<>>

\* Each dequeued update is on each path in one place: queued or emitted.
PlaceInv ==
  \A p \in Paths : p \in PathsOf(p[1]) =>
    /\ Waiting(p) \cup Sent(p) = 1..taken[p[1]]
    /\ Waiting(p) \cap Sent(p) = {}

IInv == SafeInv /\ TakeInv /\ PlaceInv
=============================================================================
