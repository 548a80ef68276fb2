------------------------------ MODULE UpdatePipe ------------------------------
(***************************************************************************)
(* What the forwarding core promises to the outside: every conversion path *)
(* of a stream is a pipe from the output queue of the stream to the Kafka  *)
(* producer. Each update goes through at most once, none is invented, and, *)
(* when Fifo, all paths follow the one order in which the updates leave    *)
(* the output queue, without a gap. An update is its turn in that order.   *)
(***************************************************************************)
EXTENDS Integers, Sequences

CONSTANTS Streams, Paths, Fifo

VARIABLES
  produced,  \* updates the client of each stream has delivered so far
  emitted    \* the updates that have left each path, in order

Sent(p) == {emitted[p][i] : i \in 1..Len(emitted[p])}

Init ==
  /\ produced = [s \in Streams |-> 0]
  /\ emitted = [p \in Paths |-> <<>>]

Produce(s) ==
  /\ produced' = [produced EXCEPT ![s] = @ + 1]
  /\ UNCHANGED emitted

Deliver(p) ==
  \E n \in 1..produced[p[1]] :
    /\ n \notin Sent(p)
    /\ Fifo => n = Len(emitted[p]) + 1
    /\ emitted' = [emitted EXCEPT ![p] = Append(@, n)]
    /\ UNCHANGED produced

Next == (\E s \in Streams : Produce(s)) \/ (\E p \in Paths : Deliver(p))

Spec == Init /\ [][Next]_<<produced, emitted>>
=============================================================================
