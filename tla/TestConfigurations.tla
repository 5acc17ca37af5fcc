-------------------------- MODULE TestConfigurations --------------------------
(***************************************************************************)
(* The configurations of BuilderTest.cpp.  Names are numbers: a step that  *)
(* is not a queue is called 9, the queue "queue1" is called 1.             *)
(***************************************************************************)
EXTENDS Sequences

LOCAL Is(key, value, children) == [key |-> key, value |-> value, children |-> children]
LOCAL P(key, value) == Is(key, value, <<>>)
LOCAL A(kind, parameters) == Is(kind, 0, <<P("name", 9)>> \o parameters)
LOCAL Pipe(nodes) == Is("pipe", 0, nodes)
LOCAL Count(n) == <<P("message_count", n), P("producer_number", 0)>>
LOCAL Heartbeat == A("heartbeat", <<P("milliseconds", 100)>>)
LOCAL SendToQueue1 == A("send_to_queue", <<P("queue", 1)>>)
LOCAL Queue1 == Is("input_queue", 0, <<P("name", 1), P("entry_count", 100)>>)
LOCAL Consumer == A("consumer", <<>>)

testJson1 == <<Pipe(<<A("producer", <<P("message_count", 10)>>), Consumer>>)>>
testJson2 == <<Pipe(<<Heartbeat, Consumer>>)>>
testJson3 == <<Pipe(<<Heartbeat, SendToQueue1>>), Pipe(<<Queue1, Consumer>>)>>
testJson4 ==
    <<Pipe(<<Heartbeat, SendToQueue1>>),
      Pipe(<<A("producer", Count(100000)), SendToQueue1>>),
      Pipe(<<A("producer", Count(400000)), SendToQueue1>>),
      Pipe(<<Queue1, A("shuffler", <<P("look_ahead", 100)>>),
             A("ordered_merge", <<P("look_ahead", 1000)>>), Consumer>>)>>
testJson5 ==
    <<Pipe(<<A("producer", <<P("message_count", 10)>>), A("binary_copy", <<>>),
             A("test_message_copy", <<>>), A("forward_pass_thru", <<>>),
             A("tee", <<P("output", 3)>>), Consumer>>)>>

\* runBuilderTest requires that each can be constructed, and starts and stops it.
Tests == {testJson1, testJson2, testJson3, testJson4, testJson5}
=============================================================================
