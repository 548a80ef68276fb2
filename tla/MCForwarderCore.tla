--------------------------- MODULE MCForwarderCore ---------------------------
(* Instances of the forwarding core for TLC. *)
EXTENDS ForwarderCore, TLC

CONSTANTS s1, s2, w1, w2

\* Two channels: s1 feeds two converters, s2 feeds one.
TwoChannels == s1 :> "pv1" @@ s2 :> "pv2"
TwoConverters == s1 :> 2 @@ s2 :> 1
TwoForOne == s1 :> 2
OneChannel == s1 :> "pv1"
\* s2 is a second Stream object for the channel of s1.
SameChannel == s1 :> "pv1" @@ s2 :> "pv1"
=============================================================================
