---------------------------- MODULE MCStdioServer ----------------------------
(* Frames of up to four bytes: two lines that mix good calls, aliases and     *)
(* duplicates at several depths, lines one byte too long or far too long with *)
(* an object at their end, and a last line without its newline; and a call    *)
(* alone with an alias under every chain of up to three fields and arrays.    *)
EXTENDS StdioServer, StrictJSON

K(name) == <<name, 1>>
Alias(name) == <<name, 2>>

Call(args) == Object(<<<<K("method"), Scalar>>, <<K("params"), Object(<<<<K("arguments"), args>>>>)>>>>)

Picked ==
  <<Call(Object(<<<<K("mailbox"), Scalar>>>>)),
   Call(Object(<<<<K("mailbox"), Scalar>>, <<Alias("mailbox"), Scalar>>>>)),
   Call(Object(<<<<K("mailbox"), Array(<<Object(<<<<K("uids"), Scalar>>, <<Alias("uids"), Scalar>>>>)>>)>>>>)),
   Call(Object(<<<<K("mailbox"), Null>>>>)),
   Call(Object(<<<<K("other"), Scalar>>>>)),
   Object(<<<<K("method"), Scalar>>, <<Alias("method"), Scalar>>>>),
   Object(<<<<K("method"), Scalar>>, <<K("method"), Scalar>>>>),
   Object(<<<<K("_meta"), Object(<<<<K("x"), Null>>, <<Alias("x"), Null>>>>)>>>>),
   Object(<<<<K("capabilities"), Object(<<<<K("extensions"), Object(<<<<K("x"), Scalar>>, <<Alias("x"), Scalar>>>>)>>>>)>>>>),
   Object(<<<<K("params"), Array(<<Object(<<<<K("x"), Scalar>>, <<Alias("x"), Scalar>>>>)>>)>>>>),
   Object(<<<<K("params"), Object(<<<<K("arguments"), Scalar>>, <<Alias("arguments"), Null>>>>)>>>>),
   Object(<<<<K("other"), Object(<<<<Alias("arguments"), Object(<<<<K("x"), Null>>, <<Alias("x"), Null>>>>)>>>>)>>>>),
   Array(<<>>),
   Call(Object(<<<<K("mailbox"), Array(<<Array(<<Array(<<>>)>>)>>)>>>>)),
   Object(<<<<K("params"), Array(<<Object(<<<<K("arguments"),
     Object(<<<<K("mailbox"), Scalar>>, <<Alias("mailbox"), Scalar>>>>)>>>>)>>)>>>>)>>

\* An alias under a chain of wrappers, one for each digit.
Names == <<"params", "arguments", "_meta", "capabilities", "extensions", "mailbox">>
Wrap(digit, v) ==
  CASE digit = 0 -> v
    [] digit = 7 -> Array(<<v>>)
    [] OTHER -> Object(<<<<K(Names[digit]), v>>>>)
Aliased == Object(<<<<K("uids"), Scalar>>, <<Alias("uids"), Scalar>>>>)
Chained ==
  [n \in 1 .. 512 |-> Wrap((n - 1) % 8, Wrap(((n - 1) \div 8) % 8, Wrap((n - 1) \div 64, Aliased)))]

MCDocuments == Picked \o Chained

\* What the checks make of them.
MCAdmissible == ValidDocuments
MCCallable == callParams
MCDecodable == decodeArguments
MCAmbiguous == AmbiguousDocuments

Frame(len, doc, tail, ended) == [len |-> len, doc |-> doc, tail |-> tail, ended |-> ended]

MCStreams ==
  {<<Frame(2, d, 0, TRUE), Frame(n, 1, 0, e)>> : d \in DOMAIN Picked, n \in {3, 4}, e \in BOOLEAN}
  \cup {<<Frame(n, 1, 0, TRUE), Frame(m, 1, t, TRUE), Frame(2, 1, 0, e)>> :
          n \in {2, 4}, m \in {4, 5, 7}, t \in {0, 6}, e \in BOOLEAN}
  \cup {<<Frame(2, d, 0, TRUE)>> : d \in DOMAIN MCDocuments}
=============================================================================
