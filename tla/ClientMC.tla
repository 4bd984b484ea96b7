------------------------------ MODULE ClientMC ------------------------------
(***************************************************************************)
(* The instance of the client library that TLC checks.                     *)
(***************************************************************************)
EXTENDS Client

(* What is said in the model: URIs of every kind, messages with every      *)
(* field, sequences of messages from the same structures, over nodes with  *)
(* each strategy and with the sequence number option on and off.           *)
Seg(k, t, v) == [k |-> k, t |-> t, v |-> v]
P(v) == Seg("plain", 0, v)
a == <<97>>
Text == <<<<48, 120>>, <<48, 120, 52, 49>>, <<48, 120, 48, 49>>, <<48, 120, 50, 102>>, <<48, 120, 50, 48>>,
          <<48, 120, 52>>, <<34, 97, 34>>, <<97, 61>>, <<126, 46>>>>

\* URIs: empty, with slashes too many, with every prefix, wrong in every way.
Uris == {<<>>, <<P(a)>>, <<P(<<>>), P(a)>>, <<P(a), P(<<>>)>>, <<P(a), P(<<>>), P(a)>>,
         <<Seg("name", 0, a), Seg("name", 0, <<>>)>>, <<Seg("name", 0, <<>>), P(a)>>,
         <<Seg("app", 0, a)>>, <<P(a), Seg("app", 4095, <<>>)>>, <<P(a), Seg("app", 4096, a)>>,
         <<P(a), Seg("chunk", 0, <<49, 50>>)>>, <<P(a), Seg("chunk", 0, <<51, 48, 48>>)>>,
         <<P(a), Seg("chunk", 0, <<97>>)>>, <<P(a), Seg("chunk", 0, <<49>>), P(<<>>)>>,
         <<Seg("chunk", 0, <<49>>)>>, <<P(a), Seg("hex", 4, <<49>>)>>, <<P(a), Seg("hex", 4, <<>>)>>,
         <<P(a), Seg("hex", 4, <<48, 120, 48, 49>>)>>, <<Seg("hex", 9, a), P(a)>>, <<P(a), Seg("hex", 9, <<>>)>>}
        \cup {<<P(a), P(Text[i])>> : i \in DOMAIN Text}
        \cup {<<Seg("hex", 9, <<48, 120, 52, 49>>), Seg("app", 7, <<48, 120, 48, 49>>)>>}

Interest == [kind |-> "interest", uri |-> <<P(a)>>, chunk |-> None, hop |-> 3, life |-> None, reg |-> "none",
             num |-> None, cachetime |-> None, expiry |-> 0, last |-> None, payload |-> 0, hw |-> None,
             stamp |-> 0, tp |-> NoTransport, flags |-> {}, keyid |-> None, hash |-> None, alg |-> "none"]
Object == [Interest EXCEPT !.kind = "object", !.chunk = 0, !.expiry = 5000700]
Long(n) == <<P([i \in 1 .. n |-> 97])>>

Interests ==
    {[Interest EXCEPT !.uri = u] : u \in Uris}
    \cup {[Interest EXCEPT !.chunk = 70000, !.life = l, !.hop = h] : l \in {None, 0, 4000}, h \in 1 .. 2}
    \cup {[Interest EXCEPT !.uri = <<P(a), Seg("chunk", 0, <<49>>)>>, !.chunk = 5],
          [Interest EXCEPT !.reg = "reg", !.life = 1], [Interest EXCEPT !.reg = "reg_p", !.life = 1],
          [Interest EXCEPT !.keyid = 1, !.hash = 2, !.payload = 10, !.alg = "crc"],
          [Interest EXCEPT !.flags = {1, 13}, !.hw = 16, !.stamp = 8, !.alg = "rsa"],
          [Interest EXCEPT !.flags = {2}, !.tp = [variant |-> 1, len |-> 4], !.life = 100],
          [Interest EXCEPT !.tp = [variant |-> 9, len |-> 0], !.hw = 0],
          [Interest EXCEPT !.tp = [variant |-> 1, len |-> 240], !.life = 100],
          [Interest EXCEPT !.uri = Long(NameMax - 4)], [Interest EXCEPT !.uri = Long(NameMax - 3)],
          [Interest EXCEPT !.uri = Long(NameMax - 4), !.chunk = 1], [Interest EXCEPT !.uri = Long(NameMax - 12), !.chunk = 1]}

Objects ==
    {[Object EXCEPT !.cachetime = c, !.last = e, !.payload = p] : c \in {None, 1999}, e \in {None, 300}, p \in {0, 40}}
    \cup {[Object EXCEPT !.alg = al, !.hw = 1, !.stamp = 16, !.flags = {1}, !.payload = 40] : al \in {"crc", "rsa"}}
    \cup {[Object EXCEPT !.hw = 17, !.payload = 40], [Object EXCEPT !.alg = "crc", !.cachetime = 4000]}

Fib == <<[face |-> 1, cost |-> 2, type |-> "local", active |-> FALSE], [face |-> 2, cost |-> 5, type |-> "udp", active |-> TRUE],
         [face |-> 3, cost |-> 5, type |-> "udp", active |-> TRUE], [face |-> 4, cost |-> 1, type |-> "tcp", active |-> TRUE]>>

Node0 == [strategy |-> "shortest", seqnum |-> FALSE, numbered |-> FALSE, full |-> FALSE,
          type |-> "udp", fib |-> Fib, down |-> <<2, 3>>]
Say(say, at) == [say |-> say] @@ at

Singles ==
    {Say(<<i>>, Node0) : i \in Interests}
    \cup {Say(<<o>>, [Node0 EXCEPT !.strategy = st, !.seqnum = q, !.numbered = n]) :
             o \in Objects, st \in {"shortest", "flooding"}, q \in BOOLEAN, n \in BOOLEAN}
    \cup {Say(<<Interest>>, [Node0 EXCEPT !.strategy = st, !.type = t]) :
             st \in {"shortest", "flooding"}, t \in {"local", "tcp", "udp"}}

Runs ==
    {<<[Interest EXCEPT !.flags = {1}], [Interest EXCEPT !.flags = {2}, !.hw = 1], [Interest EXCEPT !.hw = 16]>>,
     <<[Interest EXCEPT !.reg = "reg", !.life = 1], [Interest EXCEPT !.alg = "rsa"], [Interest EXCEPT !.reg = "dereg", !.life = 1]>>,
     <<[Object EXCEPT !.alg = "crc"], [Object EXCEPT !.chunk = 1, !.payload = 40], [Object EXCEPT !.chunk = 2, !.alg = "rsa"]>>,
     <<[Object EXCEPT !.hw = 1], [Object EXCEPT !.chunk = 1, !.alg = "crc"], [Interest EXCEPT !.payload = 9]>>}
Streams == {Say(r, [Node0 EXCEPT !.full = f, !.strategy = IF f THEN "flooding" ELSE "shortest", !.seqnum = TRUE]) :
               r \in Runs, f \in BOOLEAN}

MCScenarios == Singles \cup Streams

-----------------------------------------------------------------------------
(* What is asked of the tools in the model.                               *)

\* Parameters as Transfer writes them (Missing, PlainUri and the others)
Absent == -2
PlainGiven == 0
SlashGiven == 1
InvalidGiven == 2
BareGiven == 3
UnknownGiven == 0
Opt(opt, val) == [opt |-> opt, val |-> val]
PlainName == Opt("uri", PlainGiven)
Line(param, val) == [param |-> param, val |-> val, signs |-> 1]
Conf == <<[Line("PORT_NUM", 9) EXCEPT !.signs = 2], Line("PORT_NUM", 3), Line("LOCAL_SOCK_ID", 1)>>

\* A file of three blocks, published and then retrieved.
File == [get |-> "cefgetfile", args |-> <<PlainName, Opt("-s", 2)>>, put |-> "cefputfile", putArgs |-> <<PlainName>>,
         blocks |-> 3, size |-> 3, conf |-> Conf, socket |-> [port |-> 3, id |-> 1], listens |-> TRUE,
         after |-> TRUE, slow |-> FALSE, signal |-> FALSE, returns |-> FALSE, lose |-> 0, split |-> 0, full |-> 0]

FileLosses == {[File EXCEPT !.lose = l, !.split = 2 - l, !.args = <<PlainName, Opt("-s", p)>>] : l \in 0 .. 2, p \in 1 .. 3}
Hurried == {[File EXCEPT !.slow = TRUE, !.lose = 1, !.blocks = 2, !.size = 2, !.args = <<Opt("-s", 0), PlainName>>],
            [File EXCEPT !.after = FALSE, !.lose = 1], [File EXCEPT !.signal = TRUE, !.blocks = 2]}
Odd == {[File EXCEPT !.full = 1], [File EXCEPT !.size = 2], [File EXCEPT !.size = 4], [File EXCEPT !.returns = TRUE, !.full = 1],
        [File EXCEPT !.blocks = 7, !.size = 7, !.lose = 1], [File EXCEPT !.blocks = 6, !.size = 6, !.lose = 1],
        [File EXCEPT !.args = Append(@, Opt("-m", 2)), !.lose = 1], [File EXCEPT !.args = Append(@, Opt("-m", 0))],
        [File EXCEPT !.putArgs = Append(@, Opt("-t", 0)), !.after = FALSE], [File EXCEPT !.put = "cefputstream"],
        [File EXCEPT !.put = "cefputstream", !.putArgs = Append(@, Opt("-t", 9))]}
FileStreams ==
  {[File EXCEPT !.get = g, !.args = <<PlainName, Opt("-z", 1)>>, !.put = p, !.putArgs = IF p = "cefputfile" THEN <<PlainName, Opt("-z", 1)>> ELSE <<PlainName>>,
                !.after = FALSE, !.lose = 1, !.split = 1, !.slow = s, !.blocks = 4, !.size = 4] :
     g \in {"cefgetfile", "cefgetstream"}, p \in {"cefputfile", "cefputstream"}, s \in BOOLEAN}
  \cup {[File EXCEPT !.get = "cefgetstream", !.lose = l, !.split = 1, !.blocks = 4] : l \in 0 .. 1}
FileChunks ==
  {[File EXCEPT !.get = "cefgetchunk", !.args = <<PlainName, Opt("-c", c)>>, !.split = s, !.returns = TRUE] : c \in {1, 3}, s \in 0 .. 1}

\* Lines that are refused, and some that are not though they look like it.
Wrong ==
  {[File EXCEPT !.args = line] : line \in {<<>>, <<PlainName, PlainName>>, <<PlainName, Opt("-s", Absent)>>, <<PlainName, Opt("-z", 4)>>, <<PlainName, Opt("-x", 1)>>,
                                     <<PlainName, Opt("-v", UnknownGiven)>>, <<Opt("uri", InvalidGiven)>>, <<Opt("uri", BareGiven)>>, <<Opt("uri", BareGiven), Opt("-f", 1)>>, <<PlainName, Opt("-p", 2)>>, <<PlainName, Opt("-p", 3)>>}}
  \cup {[File EXCEPT !.get = "cefgetstream", !.args = line] : line \in {<<PlainName, Opt("-p", 3), Opt("-l", 0)>>, <<PlainName, Opt("-l", 0), Opt("-p", 3)>>,
                                                                  <<PlainName, Opt("-z", Absent)>>, <<PlainName, Opt("-l", 2)>>}}
  \cup {[File EXCEPT !.get = "cefgetchunk", !.args = <<PlainName>>],
        [File EXCEPT !.putArgs = <<Opt("uri", SlashGiven)>>], [File EXCEPT !.putArgs = <<PlainName, Opt("-f", 1), Opt("-D", 1)>>]}
  \cup {[File EXCEPT !.conf = c] : c \in {<<>>, <<Line("PORT_NUM", 9)>>, Conf \o <<Line("LOCAL_SOCK_ID", 4)>>,
                                          Conf \o <<Line("PORT_NUM", 2)>>, SubSeq(Conf, 3, 3)}}
  \cup {[File EXCEPT !.listens = FALSE, !.after = FALSE]}

\* What the tools are idle with while an application talks
Nothing == [File EXCEPT !.get = "cefgetchunk", !.args = <<>>, !.blocks = 0, !.size = 0]

MCJobs == {Nothing} \cup FileLosses \cup Hurried \cup Odd \cup FileStreams \cup FileChunks \cup Wrong

\* While the tools are at work, no application says anything.
MCScenariosOrNone == MCScenarios \cup {Say(<<>>, Node0)}
=============================================================================
