------------------------------- MODULE MCMapping -------------------------------
(* Instances of Mapping for TLC. *)
EXTENDS Mapping

Conv(sch, host, topic, name) ==
  [host |-> host, topic |-> topic, name |-> name, schema |-> sch]
Str(channel, cs) == [channel |-> channel, provider |-> "pva", converter |-> cs]
User(k) == [auto |-> FALSE, n |-> k]

\* The streams file: two schemas for pv1, one of the converters shared with
\* pv2, which has a schema nobody registered too; EPICS has no provider for
\* the first pv3, the second has a topic that does not parse.
FileStreams ==
  <<Str("pv1", <<Conv("f142", "h1", "t1", User(1)), Conv("TdcTime", "h1", "t1", User(2))>>),
    Str("pv2", <<Conv("f142", "h1", "t2", User(1)), Conv("fXXX", "h1", "t2", User(4))>>),
    [Str("pv3", <<Conv("f142", "h1", "t2", User(1))>>) EXCEPT !.provider = "ca"],
    Str("pv3", <<Conv("f142", "h1", "bad", User(1))>>)>>

\* Each timer is there or not, as the two options say.
AnyTimers == SUBSET TimerNames
NoTimer == {{}}

\* Commands in which a name stands for one schema.
GoodCommands ==
  { <<Str("pv1", <<Conv("f142", "h1", "t1", User(1)), Conv("f142", "h1", "t1", User(1))>>),
      Str("pv3", <<Conv("f142", "h2", "t2", User(3)), Conv("f142", "h1", "t2", User(1))>>)>>,
    <<Str("pv2", <<Conv("TdcTime", "h1", "t1", User(2)), Conv("f142", "h1", "t2", NoName)>>)>>,
    \* a schema nobody registered, a topic that does not parse
    <<Str("pv2", <<Conv("f142", "h1", "t2", User(1)), Conv("fXXX", "h1", "t2", User(4))>>),
      Str("pv3", <<Conv("f142", "h1", "t1", User(1))>>)>>,
    <<Str("pv3", <<Conv("f142", "h1", "bad", User(1))>>)>>,
    \* topics that parse and cannot be created, for a converter and for the status
    <<Str("pv2", <<Conv("f142", "h1", "t2", User(1)), Conv("TdcTime", "h2", "long", User(2))>>)>>,
    <<Str("pv3", <<Conv("f142", "h2", "long", User(1))>>)>>,
    \* one document with two unnamed converters
    <<Str("pv3", <<Conv("f142", "h1", "t1", Unnamed), Conv("TdcTime", "h1", "t2", Unnamed)>>)>> }

NoStreams == <<>>
\* A topic on two servers.
TwoServers == { <<Str("pv1", <<Conv("f142", "h1", "t1", User(1)), Conv("f142", "h2", "t1", User(1))>>)>> }
\* Two commands, each with one unnamed converter.
UnnamedCommands ==
  { <<Str("pv1", <<Conv("f142", "h1", "t1", Unnamed)>>)>>,
    <<Str("pv2", <<Conv("TdcTime", "h1", "t2", Unnamed)>>)>> }
=============================================================================
