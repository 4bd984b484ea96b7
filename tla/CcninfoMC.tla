----------------------------- MODULE CcninfoMC -----------------------------
(***************************************************************************)
(* Scenarios of the path query.                                            *)
(***************************************************************************)
EXTENDS Ccninfo

Link(to, type) == [to |-> to, type |-> type, up |-> TRUE]
Plain(fib) == [id |-> 12, fib |-> fib, policy |-> 0, full |-> 1, valid |-> "none",
               app |-> FALSE, cached |-> {}, info |-> None]
LocalUse(to) == Link(to, "udp")

Flag(o) == [o |-> o, v |-> 0]
With(o, v) == [o |-> o, v |-> v]
NameOf(len, chunk) == With("name", [len |-> len, chunk |-> chunk])
Short == NameOf(16, None)
Chunk3 == NameOf(16, 3)

Base(argv, node) ==
    [argv |-> argv, conf |-> "none", node |-> node, home |-> "a", cont |-> FALSE,
     signed |-> "good", late |-> FALSE, lossy |-> FALSE]

(***************************************************************************)
(* Topologies.  FIB entries name the next nodes.                           *)
(***************************************************************************)
On(n, to) == n :> to
Cached(p, set) == [p EXCEPT !.cached = set]

Line == ("a" :> Plain(<<Link("b", "udp")>>)) @@ ("b" :> Plain(<<Link("c", "udp")>>)) @@ ("c" :> Plain(<<>>))
Ring == ("a" :> Plain(<<Link("b", "udp")>>)) @@ ("b" :> Plain(<<Link("c", "udp")>>))
        @@ ("c" :> Plain(<<Link("b", "udp"), Link("a", "udp")>>))
MixedRing == ("a" :> Plain(<<Link("b", "tcp"), Link("c", "udp")>>)) @@ ("b" :> Plain(<<Link("c", "udp"), Link("a", "tcp")>>))
        @@ ("c" :> Plain(<<Link("a", "tcp"), Link("b", "udp")>>))
Fork == ("a" :> Plain(<<Link("b", "udp"), Link("c", "udp"), Link("d", "tcp")>>))
        @@ ("b" :> Cached(Plain(<<Link("d", "udp")>>), {3}))
        @@ ("c" :> Plain(<<Link("d", "udp")>>))
        @@ ("d" :> [Plain(<<>>) EXCEPT !.app = TRUE])

At2(node, n, r) == [node EXCEPT ![n] = r]

Argvs == {
    <<Short>>, <<Flag("-c"), Short>>, <<Flag("-o"), Short>>, <<With("-r", 2), Short>>, <<With("-r", 2), With("-s", 1), Short>>,
    <<With("-s", 1), Short>>, <<With("-s", 2), Chunk3>>, <<Flag("-c"), Chunk3>>, <<Flag("-f"), Flag("-c"), Short>>,
    <<With("-v", "crc"), Flag("-V"), Flag("-c"), Short>>, <<With("-v", "rsa"), Flag("-V"), Short>>,
    <<Flag("-V"), Flag("-c"), Short>>}
BadArgvs == {
    <<>>, <<Short, Short>>, <<With("-r", 256), Short>>, <<With("-s", 16), Short>>, <<With("-s", 2), With("-r", 2), Short>>,
    <<Flag("-c"), Flag("-c"), Short>>, <<Short, Flag("-v")>>, <<With("-v", "md5"), Short>>}

Owners == {Line, At2(Line, "c", [Line["c"] EXCEPT !.app = TRUE]), At2(Line, "b", Cached(Line["b"], {3})),
           At2(Line, "b", [Line["b"] EXCEPT !.policy = 1]), At2(Line, "b", [Line["b"] EXCEPT !.policy = 2]),
           At2(Line, "b", [Line["b"] EXCEPT !.full = 0]), At2(Line, "c", [Cached(Line["c"], {0}) EXCEPT !.valid = "crc"])}

Lines == {Base(a, l) : a \in Argvs, l \in Owners}
Rings == {Base(a, l) : a \in Argvs, l \in {Ring, MixedRing}}
Forks == {Base(a, Fork) : a \in Argvs}
Bad == {Base(a, Line) : a \in BadArgvs}

DefaultAlgorithm == {[Base(<<Short, Flag("-v")>>, Line) EXCEPT !.conf = "crc"]}
Unsigned == {[Base(<<With("-v", "rsa"), Short>>, Line) EXCEPT !.signed = "bad"],
             [Base(<<With("-v", "rsa"), With("-s", 1), Short>>, Line) EXCEPT !.signed = "bad"]}
LongNames == {Base(<<Flag("-c"), NameOf(l, None)>>, At2(Line, "c", [Line["c"] EXCEPT !.app = TRUE, !.valid = "crc"])) : l \in {300, 600, 1000, 1250}}
Wide == {Base(<<Short>>, [n \in DOMAIN Line |-> [Line[n] EXCEPT !.id = i]]) : i \in {70, 75, 120, 200}}
Local == {[Base(a, At2(Line, "a", [Line["a"] EXCEPT !.info = i])) EXCEPT !.cont = TRUE] : a \in {<<Flag("-c"), Short>>}, i \in {None, 100}}
Late == {[x EXCEPT !.late = TRUE] : x \in {Base(<<Short>>, l) : l \in Owners}}
Lossy == {[x EXCEPT !.lossy = TRUE] : x \in {Base(<<Flag("-f"), Short>>, Fork), Base(<<Short>>, Ring)}}

Closed == {Base(a, At2(Line, "b", [Cached(Line["b"], {3}) EXCEPT !.policy = 1])) : a \in {<<Flag("-c"), Short>>, <<Short>>}}
Diamond == ("a" :> Plain(<<Link("b", "udp"), Link("c", "udp")>>)) @@ ("b" :> Plain(<<Link("d", "udp")>>))
           @@ ("c" :> Plain(<<Link("d", "udp")>>)) @@ ("d" :> Plain(<<Link("e", "udp")>>))
           @@ ("e" :> [Plain(<<>>) EXCEPT !.app = TRUE])
Diamonds == {Base(<<Flag("-f"), Flag("-c"), Short>>, Diamond)}
DeadEnds == {Base(<<With("-s", 3), Short>>, Line),
             Base(<<Short>>, At2(Line, "c", Plain(<<Link("b", "udp")>>))),
             Base(<<Short>>, At2(Line, "b", Plain(<<[Link("c", "udp") EXCEPT !.up = FALSE]>>)))}
Skips == {Base(<<With("-s", s)>> \o a, l) : s \in 3 .. 5, l \in {Ring, MixedRing},
                                           a \in {<<Short>>, <<Flag("-f"), Short>>, <<With("-v", "crc"), Flag("-V"), Flag("-c"), Short>>}}
Odd == {Base(<<NameOf(l, None)>>, At2(Line, "b", Cached(Line["b"], {3}))) : l \in 191 .. 197}
Refused == {Base(<<Flag("-V"), Flag("-c"), With("-s", 1), Short>>, At2(Line, "a", [Line["a"] EXCEPT !.policy = 2]))}
Meeting == {Base(<<Flag("-f"), With("-s", 2), Short>>, Diamond)}
MCScenarios == Lines \cup Rings \cup Forks \cup Bad \cup DefaultAlgorithm \cup Unsigned \cup LongNames
               \cup Wide \cup Local \cup Late \cup Lossy
               \cup DeadEnds \cup Skips \cup Odd \cup Closed \cup Diamonds \cup Refused \cup Meeting
=============================================================================
