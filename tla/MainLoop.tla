------------------------------ MODULE MainLoop ------------------------------
(***************************************************************************)
(* The three things the main thread drives from the loop of                *)
(* forward_epics_to_kafka: the producers it polls (KafkaProducer), the     *)
(* command listener it polls (CommandListener), and the run flag that it   *)
(* looks at in every round and whose end it carries out (RunControl).      *)
(*                                                                         *)
(* The three share no variable, so a behaviour of all of them is an        *)
(* interleaving of a behaviour of each, and a property of one cannot       *)
(* depend on the steps of another. A behaviour of this module therefore    *)
(* follows one part, chosen at the start; the others are over.             *)
(***************************************************************************)
EXTENDS KafkaProducer, RunControl, CommandListener

VARIABLE part   \* the part that is followed

Parts == {"producer", "control", "listener"}
vars == <<part, producerVars, controlVars, listenerVars>>

Init ==
  /\ part \in Parts
  /\ ProducerNew /\ phase = IF part = "producer" THEN "run" ELSE "destroyed"
  /\ ControlNew /\ main = IF part = "control" THEN "start" ELSE "gone"
  /\ ListenerNew /\ stage = IF part = "listener" THEN "metadata" ELSE "threw"
  \* One state is enough for a part that is over.
  /\ part # "control" => timers = {} /\ ~ StatusTopic
  /\ part # "listener" => \A p \in PartitionIDs : log[p] = <<>>

\* The listener may have nothing to do: no message in the topic.
Next ==
  /\ UNCHANGED part
  /\ \/ /\ part = "producer" /\ ProducerNext
        /\ UNCHANGED <<controlVars, listenerVars>>
     \/ /\ part = "control" /\ ControlNext
        /\ UNCHANGED <<producerVars, listenerVars>>
     \/ /\ part = "listener" /\ (ListenerNext \/ UNCHANGED listenerVars)
        /\ UNCHANGED <<producerVars, controlVars>>

\* No fair action of a part that is over is enabled.
Spec ==
  /\ Init /\ [][Next]_vars
  /\ ProducerFairness /\ ControlFairness /\ ListenerFairness
=============================================================================
