--------------------------- MODULE CcninfoProofs ---------------------------
(***************************************************************************)
(* Theorems about Ccninfo, for every set of scenarios: any command line,   *)
(* any nodes with any FIBs and settings, any limits of the lengths.        *)
(***************************************************************************)
EXTENDS Ccninfo, WellFoundedInduction, SequenceTheorems, FiniteSetTheorems, TLAPS

HopLimit == Value("-r", 32)
SkipHops == Value("-s", 0)

\* What the tool has read when it asks.
Read == HopLimit \in 1 .. 255 /\ SkipHops \in 0 .. 15 /\ SkipHops < HopLimit

LEMMA ReadIs == ArgumentsRead => Read
<1> SUFFICES ASSUME ArgumentsRead PROVE Read OBVIOUS
<1>1. HopLimit \in 1 .. 255 BY DEF ArgumentsRead, HopRead, HopLimit
<1>2. SkipHops < HopLimit BY DEF ArgumentsRead, LessSkip, HopLimit, SkipHops
<1>3. Value("-s", 1) \in 1 .. 15 BY DEF ArgumentsRead, SkipRead
<1>4. Value("-s", 0) = 0 \/ Value("-s", 0) = Value("-s", 1) BY DEF Value
<1>5. SkipHops \in 0 .. 15 BY <1>3, <1>4 DEF SkipHops
<1>6. QED BY <1>1, <1>2, <1>5 DEF Read

-----------------------------------------------------------------------------
(* The way behind the skipped nodes.                                       *)

Way(p) == SubSeq(p, SkipHops + 1, Len(p))

LEMMA WayIs ==
  ASSUME NEW S, NEW p \in Seq(S), SkipHops \in Nat
  PROVE  /\ Way(p) \in Seq(S)
         /\ Len(Way(p)) = IF Len(p) <= SkipHops THEN 0 ELSE Len(p) - SkipHops
         /\ \A i \in DOMAIN Way(p) : i + SkipHops \in DOMAIN p /\ Way(p)[i] = p[i + SkipHops]
         /\ Len(p) <= SkipHops => Way(p) = <<>>
         /\ SkipHops = 0 => Way(p) = p
<1>1. Len(p) \in Nat /\ SkipHops + 1 \in Int OBVIOUS
<1>2. \A i \in SkipHops + 1 .. Len(p) : p[i] \in S BY <1>1
<1>3. /\ Way(p) \in Seq(S)
      /\ Len(Way(p)) = IF SkipHops + 1 <= Len(p) THEN Len(p) - (SkipHops + 1) + 1 ELSE 0
      /\ \A i \in 1 .. Len(p) - (SkipHops + 1) + 1 : Way(p)[i] = p[(SkipHops + 1) + i - 1]
  BY <1>1, <1>2, SubSeqProperties DEF Way
<1>4. Len(Way(p)) = IF Len(p) <= SkipHops THEN 0 ELSE Len(p) - SkipHops BY <1>1, <1>3
<1>5. ASSUME NEW i \in DOMAIN Way(p)
      PROVE  i + SkipHops \in DOMAIN p /\ Way(p)[i] = p[i + SkipHops]
  <2>1. i \in 1 .. Len(Way(p)) BY <1>3
  <2>2. i \in 1 .. Len(p) - (SkipHops + 1) + 1 /\ (SkipHops + 1) + i - 1 = i + SkipHops BY <2>1, <1>1, <1>4
  <2>3. i + SkipHops \in 1 .. Len(p) BY <2>2, <1>1
  <2>4. Way(p)[i] = p[(SkipHops + 1) + i - 1] BY <2>2, <1>3
  <2>5. QED BY <2>2, <2>3, <2>4
<1>6. Len(p) <= SkipHops => Way(p) = <<>> BY <1>3, <1>4
<1>7. SkipHops = 0 => Way(p) = p BY SubSeqFull DEF Way
<1>8. QED BY <1>3, <1>4, <1>5, <1>6, <1>7

LEMMA WayGrows ==
  ASSUME NEW S, NEW p \in Seq(S), NEW n \in S, NEW q, q = Append(p, n), SkipHops \in Nat
  PROVE  /\ Len(p) < SkipHops => Way(q) = <<>>
         /\ Len(p) >= SkipHops => /\ Way(q) = Append(Way(p), n)
                                  /\ SubSeq(Way(q), 1, Len(Way(q)) - 1) = Way(p)
<1>1. /\ q \in Seq(S) /\ Len(q) = Len(p) + 1 /\ q[Len(q)] = n /\ Len(p) \in Nat
      /\ \A i \in 1 .. Len(p) : q[i] = p[i]
  BY AppendProperties
<1>2. /\ Way(p) \in Seq(S) /\ Len(Way(p)) = IF Len(p) <= SkipHops THEN 0 ELSE Len(p) - SkipHops
      /\ \A i \in DOMAIN Way(p) : i + SkipHops \in DOMAIN p /\ Way(p)[i] = p[i + SkipHops]
  BY WayIs
<1>3. /\ Way(q) \in Seq(S) /\ Len(Way(q)) = IF Len(q) <= SkipHops THEN 0 ELSE Len(q) - SkipHops
      /\ \A i \in DOMAIN Way(q) : i + SkipHops \in DOMAIN q /\ Way(q)[i] = q[i + SkipHops]
      /\ Len(q) <= SkipHops => Way(q) = <<>>
  BY <1>1, WayIs
<1>4. Len(p) < SkipHops => Way(q) = <<>> BY <1>1, <1>3
<1>5. ASSUME Len(p) >= SkipHops PROVE Way(q) = Append(Way(p), n) /\ SubSeq(Way(q), 1, Len(Way(q)) - 1) = Way(p)
  <2> DEFINE a == Append(Way(p), n)
  <2>1. a \in Seq(S) /\ Len(a) = Len(Way(p)) + 1 /\ a[Len(a)] = n /\ \A i \in 1 .. Len(Way(p)) : a[i] = Way(p)[i]
    BY <1>2, AppendProperties
  <2> HIDE DEF a
  <2>2. Len(Way(p)) = Len(p) - SkipHops /\ Len(Way(q)) = Len(p) + 1 - SkipHops BY <1>1, <1>2, <1>3, <1>5
  <2>3. ASSUME NEW i \in 1 .. Len(Way(p)) PROVE Way(q)[i] = Way(p)[i]
    <3>1. i \in DOMAIN Way(p) /\ i \in DOMAIN Way(q) BY <1>1, <1>2, <1>3, <2>2
    <3>2. i + SkipHops \in 1 .. Len(p) BY <3>1, <1>2
    <3>3. QED BY <3>1, <3>2, <1>1, <1>2, <1>3
  <2>4. Way(q)[Len(Way(q))] = n
    <3>1. Len(Way(q)) \in DOMAIN Way(q) BY <1>1, <1>3, <2>2, <1>5
    <3>2. Way(q)[Len(Way(q))] = q[Len(Way(q)) + SkipHops] BY <3>1, <1>3
    <3>3. Len(Way(q)) + SkipHops = Len(q) BY <1>1, <2>2
    <3>4. QED BY <3>2, <3>3, <1>1
  <2>5. Len(a) = Len(Way(q)) /\ \A i \in 1 .. Len(a) : a[i] = Way(q)[i]
    <3>1. Len(a) = Len(Way(q)) /\ Len(Way(p)) \in Nat BY <1>2, <2>1, <2>2, <1>1
    <3>2. ASSUME NEW i \in 1 .. Len(a) PROVE a[i] = Way(q)[i]
      <4>1. i \in 1 .. Len(Way(p)) \/ i = Len(a) BY <3>1, <2>1
      <4>2. QED BY <4>1, <3>1, <2>1, <2>3, <2>4
    <3>3. QED BY <3>1, <3>2
  <2>6. Way(q) = a BY <1>3, <2>1, <2>5, SeqEqual
  <2>7. Way(q) = Append(Way(p), n) BY <2>6 DEF a
  <2>8. Len(Way(q)) - 1 = Len(Way(p)) /\ Len(Way(p)) \in Nat BY <2>2, <1>1, <1>2
  <2>9. SubSeq(Way(q), 1, Len(Way(p))) = Way(p)
    <3> DEFINE b == SubSeq(Way(q), 1, Len(Way(p)))
    <3>1. \A i \in 1 .. Len(Way(p)) : Way(q)[i] \in S
      <4>1. \A i \in 1 .. Len(Way(p)) : Way(p)[i] \in S BY <1>2, ElementOfSeq
      <4>2. QED BY <4>1, <2>3
    <3>2. b \in Seq(S) /\ Len(b) = (IF 1 <= Len(Way(p)) THEN Len(Way(p)) - 1 + 1 ELSE 0)
          /\ \A i \in 1 .. Len(Way(p)) - 1 + 1 : b[i] = Way(q)[1 + i - 1]
      BY <3>1, <2>8, SubSeqProperties
    <3> HIDE DEF b
    <3>3. Len(b) = Len(Way(p)) BY <3>2, <2>8
    <3>4. ASSUME NEW i \in 1 .. Len(b) PROVE b[i] = Way(p)[i]
      <4>1. i \in 1 .. Len(Way(p)) - 1 + 1 /\ 1 + i - 1 = i /\ i \in 1 .. Len(Way(p)) BY <3>3, <2>8
      <4>2. QED BY <4>1, <3>2, <2>3
    <3>5. b = Way(p) BY <1>2, <3>2, <3>3, <3>4, SeqEqual
    <3>6. QED BY <3>5 DEF b
  <2>10. QED BY <2>7, <2>8, <2>9
<1>6. QED BY <1>4, <1>5

-----------------------------------------------------------------------------
(* Messages.                                                               *)

\* A record with the fields of a message.
Fields == {"k", "hop", "skip", "rpts", "by", "blk", "req", "code", "fatal", "hdr", "disc", "pkt",
           "sent", "val", "path"}
Shape(m) == m = [f \in Fields |-> m[f]]

\* What no operation on the lengths and the validation changes.
SameWay(a, b) ==
  /\ Shape(a)
  /\ a.k = b.k /\ a.hop = b.hop /\ a.skip = b.skip /\ a.rpts = b.rpts /\ a.hdr = b.hdr /\ a.path = b.path
SameSaid(a, b) ==
  a.by = b.by /\ a.blk = b.blk /\ a.req = b.req /\ a.code = b.code /\ a.fatal = b.fatal
SaidNothing(a) ==
  a.by = Nobody /\ a.blk = "none" /\ a.req = FALSE /\ a.code = "NO_SPACE" /\ a.fatal = FALSE

LEMMA StripKeeps ==
  ASSUME NEW m, Shape(m) PROVE SameWay(Strip(m), m) /\ SameSaid(Strip(m), m)
BY DEF Shape, Fields, Strip, SameWay, SameSaid

LEMMA SealedKeeps ==
  ASSUME NEW m, Shape(m), NEW n PROVE SameWay(Sealed(n, m), m) /\ SameSaid(Sealed(n, m), m)
BY DEF Shape, Fields, Sealed, Validated, SameWay, SameSaid

LEMMA CutDownKeeps ==
  ASSUME NEW m, Shape(m) PROVE SameWay(CutDown(m), m) /\ SaidNothing(CutDown(m))
<1> DEFINE d == 4 + NameLen
           p == m.hdr + 4 + d
<1>1. CutDown(m) = [m EXCEPT !.disc = d, !.pkt = p, !.sent = p, !.code = "NO_SPACE", !.fatal = FALSE,
                             !.by = Nobody, !.blk = "none", !.req = FALSE]
  BY DEF CutDown
<1> HIDE DEF d, p
<1>2. SaidNothing(CutDown(m))
  <2>1. {"by", "blk", "req", "code", "fatal"} \subseteq DOMAIN m BY DEF Shape, Fields
  <2>2. QED BY <1>1, <2>1 DEF SaidNothing
<1>3. Shape(CutDown(m)) BY <1>1 DEF Shape, Fields
<1>4. DOMAIN m = Fields BY DEF Shape
<1>5. /\ CutDown(m).k = m.k /\ CutDown(m).hop = m.hop /\ CutDown(m).skip = m.skip
      /\ CutDown(m).rpts = m.rpts /\ CutDown(m).hdr = m.hdr /\ CutDown(m).path = m.path
  BY <1>1, <1>4 DEF Fields
<1>6. QED BY <1>2, <1>3, <1>5 DEF SameWay

\* s is m with the report block of n.
Stamped(s, m, n) ==
  /\ Shape(s) /\ SameSaid(s, m)
  /\ s.k = m.k /\ s.hop = m.hop /\ s.skip = m.skip /\ s.path = m.path /\ s.val = m.val
  /\ s.rpts = Append(m.rpts, n) /\ s.hdr = (m.hdr + 8 + Id(n)) % 256

LEMMA StampIs ==
  ASSUME NEW m, Shape(m), NEW n PROVE Stamped(Stamp(n, m), m, n)
<1> DEFINE r == Append(m.rpts, n)
           h == (m.hdr + 8 + Id(n)) % 256
           p == m.pkt + 8 + Id(n)
<1>1. Stamp(n, m) = [m EXCEPT !.rpts = r, !.hdr = h, !.pkt = p, !.sent = p] BY DEF Stamp
<1> HIDE DEF r, h, p
<1>2. Shape(Stamp(n, m)) BY <1>1 DEF Shape, Fields
<1>3. DOMAIN m = Fields BY DEF Shape
<1>4. SameSaid(Stamp(n, m), m) BY <1>1, <1>3 DEF Fields, SameSaid
<1>5. /\ Stamp(n, m).k = m.k /\ Stamp(n, m).hop = m.hop /\ Stamp(n, m).skip = m.skip
      /\ Stamp(n, m).path = m.path /\ Stamp(n, m).val = m.val
      /\ Stamp(n, m).rpts = r /\ Stamp(n, m).hdr = h
  BY <1>1, <1>3 DEF Fields
<1>6. QED BY <1>2, <1>4, <1>5 DEF Stamped, r, h

LEMMA FitKeeps ==
  ASSUME NEW m, Shape(m), NEW n
  PROVE  /\ SameWay(Fit(n, m), m)
         /\ SameSaid(Fit(n, m), m) \/ SaidNothing(Fit(n, m))
<1> DEFINE c == CutDown(m)
<1>1. SameWay(m, m) /\ SameSaid(m, m) BY DEF SameWay, SameSaid
<1>2. SameWay(Strip(m), m) /\ SameSaid(Strip(m), m) BY StripKeeps
<1>3. SameWay(c, m) /\ SaidNothing(c) BY CutDownKeeps
<1> HIDE DEF c
<1>4. SameWay(Sealed(n, c), m) /\ SaidNothing(Sealed(n, c))
  BY <1>3, SealedKeeps DEF SameWay, SameSaid, SaidNothing
<1>5. Fit(n, m) \in {m, Strip(m), c, Sealed(n, c)} BY DEF Fit, c
<1>6. QED BY <1>1, <1>2, <1>3, <1>4, <1>5

-----------------------------------------------------------------------------
(* What is true of every message.                                          *)

Typed(m) ==
  /\ Shape(m)
  /\ m.hop \in 0 .. 255 /\ m.skip \in 0 .. 15 /\ m.hdr \in 0 .. 255
  /\ m.rpts \in Seq(Nodes) /\ m.path \in Seq(Nodes) /\ m.by \in Nodes \cup {Nobody}

LEMMA TypedFrom ==
  ASSUME NEW x, Shape(x), NEW m, Typed(m), x.hop = m.hop, x.skip = m.skip, x.hdr \in 0 .. 255,
         x.rpts \in Seq(Nodes), x.path \in Seq(Nodes), x.by \in Nodes \cup {Nobody}
  PROVE  Typed(x)
BY DEF Typed

Distinct(s) == \A i, j \in DOMAIN s : s[i] = s[j] => i = j

\* m is a Request that the nodes of p have passed on, of which the first has
\* it from the tool.
Asked(m, p) ==
  /\ Typed(m) /\ m.k = "req" /\ p \in Seq(Nodes)
  /\ m.hop = HopLimit - Len(p)
  /\ m.skip = (IF Len(p) < SkipHops THEN SkipHops - Len(p) ELSE 0)
  /\ m.rpts = Way(p) /\ Distinct(m.rpts)
  /\ m.by = Nobody /\ m.blk = "none" /\ m.req = TRUE /\ m.code = "NO_ERROR" /\ m.fatal = FALSE
  /\ m.val \in {"none", sc.signed}
  /\ p # <<>> => p[1] = sc.home

\* m is a Reply, and true unless it has lost its request block.
Ends(p) == {p, SubSeq(p, 1, Len(p) - 1)}
Told(m) ==
  /\ Typed(m) /\ m.k = "rep"
  /\ m.path # <<>> /\ m.path[1] = sc.home
  /\ SkipHops = 0 => m.rpts \in Ends(m.path) /\ Blocks(m) \in Ends(m.path)
  /\ m.req => Routed(m) /\ Honest(m)

LEMMA ToldKept ==
  ASSUME NEW b, Told(b), NEW a, SameWay(a, b), SameSaid(a, b) \/ SaidNothing(a)
  PROVE  Told(a) /\ a.path = b.path
<1>1. /\ Shape(a) /\ a.hop = b.hop /\ a.skip = b.skip /\ a.rpts = b.rpts /\ a.hdr = b.hdr
      /\ a.k = b.k /\ a.path = b.path
  BY DEF SameWay
<1>2. Typed(b) /\ b.k = "rep" /\ b.path # <<>> /\ b.path[1] = sc.home
      /\ (SkipHops = 0 => b.rpts \in Ends(b.path) /\ Blocks(b) \in Ends(b.path))
  BY DEF Told
<1>3. CASE SameSaid(a, b)
  <2>1. a.by = b.by /\ a.blk = b.blk /\ a.req = b.req /\ a.code = b.code /\ a.fatal = b.fatal
    BY <1>3 DEF SameSaid
  <2>2. Blocks(a) = Blocks(b) BY <1>1, <2>1 DEF Blocks, ReplyBlockNode
  <2>3. Routed(b) => Routed(a) BY <1>1, <2>1, <2>2 DEF Routed, Route
  <2>4. Honest(b) => Honest(a) BY <1>1, <2>1 DEF Honest, Listed, Visits
  <2>5. Typed(a) BY <1>1, <1>2, <2>1 DEF Typed
  <2>6. QED BY <1>1, <1>2, <2>1, <2>2, <2>3, <2>4, <2>5 DEF Told
<1>4. CASE SaidNothing(a)
  <2>1. a.by = Nobody /\ ~a.req BY <1>4 DEF SaidNothing
  <2>2. Typed(a) BY <1>1, <1>2, <2>1 DEF Typed
  <2>3. Blocks(a) = b.rpts
    <3>1. b.rpts \in Seq(Nodes) BY <1>2 DEF Typed
    <3>2. b.rpts \o <<>> = b.rpts BY <3>1, ConcatEmptySeq
    <3>3. QED BY <1>1, <2>1, <3>2 DEF Blocks, ReplyBlockNode
  <2>4. QED BY <1>1, <1>2, <2>1, <2>2, <2>3 DEF Told
<1>5. QED BY <1>3, <1>4

LEMMA FinishTold ==
  ASSUME NEW x, Told(x), NEW n
  PROVE  /\ Told(Strip(x)) /\ Strip(x).path = x.path
         /\ Told(Fit(n, x)) /\ Fit(n, x).path = x.path
         /\ Told(Fit(n, Sealed(n, x))) /\ Fit(n, Sealed(n, x)).path = x.path
         /\ Told(Fit(n, Sealed(n, Strip(x)))) /\ Fit(n, Sealed(n, Strip(x))).path = x.path
<1>1. \A y : Told(y) => Shape(y) BY DEF Told, Typed
<1>2. \A y : Told(y) => Told(Strip(y)) /\ Strip(y).path = y.path BY <1>1, StripKeeps, ToldKept
<1>3. \A y : Told(y) => Told(Sealed(n, y)) /\ Sealed(n, y).path = y.path BY <1>1, SealedKeeps, ToldKept
<1>4. \A y : Told(y) => Told(Fit(n, y)) /\ Fit(n, y).path = y.path BY <1>1, FitKeeps, ToldKept
<1>5. QED BY <1>2, <1>3, <1>4

-----------------------------------------------------------------------------
(* The answers of a node.                                                  *)

\* n has the Request m from the last node of p, or from the tool.
AtNode(n, m, p) ==
  /\ sc \in Scenarios /\ Read /\ n \in Nodes
  /\ Asked(m, p) /\ m.path = Append(p, n)
  /\ p = <<>> => n = sc.home

LEMMA NodeIs ==
  ASSUME sc \in Scenarios
  PROVE  /\ sc.home \in Nodes /\ Tool \notin Nodes /\ Nobody \notin Nodes
         /\ \A n \in Nodes : Id(n) \in Nat /\ Node(n).fib \in Seq([to : Nodes, type : {"local", "tcp", "udp"}, up : BOOLEAN])
BY CcninfoAssumption DEF IsScenario, IsNode, Nodes, Node, Id

LEMMA PathIs ==
  ASSUME NEW n, NEW m, NEW p, AtNode(n, m, p)
  PROVE  /\ m.path \in Seq(Nodes) /\ m.path # <<>> /\ m.path[1] = sc.home
         /\ Len(m.path) = Len(p) + 1 /\ m.path[Len(m.path)] = n
         /\ \A i \in 1 .. Len(p) : m.path[i] = p[i]
         /\ SubSeq(m.path, 1, Len(m.path) - 1) = p
         /\ Len(p) \in Nat
<1>1. p \in Seq(Nodes) /\ n \in Nodes /\ m.path = Append(p, n) BY DEF AtNode, Asked
<1>2. /\ m.path \in Seq(Nodes) /\ m.path # <<>> /\ Len(m.path) = Len(p) + 1 /\ Len(p) \in Nat
      /\ m.path[Len(m.path)] = n /\ \A i \in 1 .. Len(p) : m.path[i] = p[i]
  BY <1>1, AppendProperties
<1>3. m.path[1] = sc.home
  <2>1. CASE p = <<>> BY <2>1, <1>2 DEF AtNode
  <2>2. CASE p # <<>>
    <3>1. 1 \in 1 .. Len(p) BY <2>2, <1>1, EmptySeq
    <3>2. QED BY <3>1, <1>2, <2>2 DEF AtNode, Asked
  <2>3. QED BY <2>1, <2>2
<1>4. SubSeq(m.path, 1, Len(p)) = p
  <2>1. Len(p) = 0 => p = <<>> /\ SubSeq(m.path, 1, Len(p)) = <<>> BY <1>1, EmptySeq, SubSeqEmpty
  <2>2. \A i \in 1 .. Len(p) : m.path[i] \in Nodes BY <1>1, <1>2, ElementOfSeq
  <2>3. /\ SubSeq(m.path, 1, Len(p)) \in Seq(Nodes)
        /\ Len(SubSeq(m.path, 1, Len(p))) = IF 1 <= Len(p) THEN Len(p) - 1 + 1 ELSE 0
        /\ \A i \in 1 .. Len(p) - 1 + 1 : SubSeq(m.path, 1, Len(p))[i] = m.path[1 + i - 1]
    BY <2>2, <1>2, SubSeqProperties
  <2>4. Len(SubSeq(m.path, 1, Len(p))) = Len(p) BY <2>3, <1>2
  <2>5. \A i \in 1 .. Len(p) : SubSeq(m.path, 1, Len(p))[i] = p[i]
    <3> TAKE i \in 1 .. Len(p)
    <3>1. i \in 1 .. Len(p) - 1 + 1 /\ 1 + i - 1 = i BY <1>2
    <3>2. QED BY <3>1, <2>3, <1>2
  <2>6. QED BY <1>1, <2>3, <2>4, <2>5, SeqEqual
<1>5. Len(m.path) - 1 = Len(p) BY <1>2
<1>6. QED BY <1>2, <1>3, <1>4, <1>5

\* The way of the path that ends here, in front of the skipped nodes' end and behind it.
LEMMA RouteIs ==
  ASSUME NEW n, NEW m, NEW p, AtNode(n, m, p)
  PROVE  /\ SkipHops \in Nat /\ Way(m.path) \in Seq(Nodes)
         /\ m.skip = 0 => /\ Way(m.path) = Append(m.rpts, n)
                          /\ m.rpts = SubSeq(Way(m.path), 1, Len(Way(m.path)) - 1)
         /\ m.skip # 0 => m.rpts = <<>> /\ Way(m.path) = <<>> /\ Len(m.path) <= SkipHops
         /\ SkipHops = 0 => Way(m.path) = m.path /\ m.rpts = p /\ m.skip = 0
<1>1. /\ p \in Seq(Nodes) /\ n \in Nodes /\ m.path = Append(p, n) /\ m.rpts = Way(p)
      /\ m.skip = (IF Len(p) < SkipHops THEN SkipHops - Len(p) ELSE 0)
  BY DEF AtNode, Asked
<1>2. SkipHops \in Nat BY DEF AtNode, Read
<1>3. Len(p) \in Nat /\ m.path \in Seq(Nodes) /\ Len(m.path) = Len(p) + 1 BY PathIs
<1>4. m.skip = 0 <=> Len(p) >= SkipHops BY <1>1, <1>2, <1>3
<1>5. /\ Len(p) < SkipHops => Way(m.path) = <<>>
      /\ Len(p) >= SkipHops => /\ Way(m.path) = Append(Way(p), n)
                               /\ SubSeq(Way(m.path), 1, Len(Way(m.path)) - 1) = Way(p)
  BY <1>1, <1>2, WayGrows
<1>6. /\ Len(p) <= SkipHops => Way(p) = <<>>
      /\ SkipHops = 0 => Way(p) = p
  BY <1>1, <1>2, WayIs
<1>7. Way(m.path) \in Seq(Nodes) /\ (SkipHops = 0 => Way(m.path) = m.path) BY <1>2, <1>3, WayIs
<1>8. m.skip # 0 => Len(p) < SkipHops /\ Len(p) <= SkipHops /\ Len(m.path) <= SkipHops BY <1>2, <1>3, <1>4
<1>9. SkipHops = 0 => Len(p) >= SkipHops BY <1>2, <1>3
<1>10. QED BY <1>1, <1>2, <1>4, <1>5, <1>6, <1>7, <1>8, <1>9

LEMMA LoopVisits ==
  ASSUME NEW n, NEW m, NEW p, AtNode(n, m, p), Loop(n, m)
  PROVE  Visits(m, n) > 1
<1> DEFINE V == {i \in DOMAIN m.path : m.path[i] = n}
<1>1. PICK j \in DOMAIN m.rpts : m.rpts[j] = n BY DEF Loop, ToSet
<1>2. p \in Seq(Nodes) /\ m.rpts = Way(p) BY DEF AtNode, Asked
<1>3. SkipHops \in Nat BY RouteIs
<1>4. PICK i \in DOMAIN p : p[i] = n BY <1>1, <1>2, <1>3, WayIs
<1>5. /\ Len(p) \in Nat /\ m.path \in Seq(Nodes) /\ Len(m.path) = Len(p) + 1 /\ m.path[Len(m.path)] = n
      /\ \A x \in 1 .. Len(p) : m.path[x] = p[x]
  BY PathIs
<1>6. i \in 1 .. Len(p) BY <1>2, <1>4
<1>7. i \in V /\ Len(p) + 1 \in V /\ i # Len(p) + 1 BY <1>4, <1>5, <1>6
<1>8. IsFiniteSet(V)
  <2>1. V \subseteq 1 .. Len(p) + 1 BY <1>5
  <2>2. IsFiniteSet(1 .. Len(p) + 1) BY <1>5, FS_Interval
  <2>3. QED BY <2>1, <2>2, FS_Subset
<1>9. Cardinality(V) \in Nat BY <1>8, FS_CardinalityType
<1>10. Cardinality(V) # 0 BY <1>7, <1>8, FS_EmptySet
<1>11. Cardinality(V) # 1
  <2>1. SUFFICES ASSUME Cardinality(V) = 1 PROVE FALSE OBVIOUS
  <2>2. PICK x : V = {x} BY <1>8, <2>1, FS_Singleton
  <2>3. QED BY <1>7, <2>2
<1>12. Cardinality(V) > 1 BY <1>9, <1>10, <1>11
<1>13. QED BY <1>12 DEF Visits

\* Why a node refuses: the calls of Reply in the handler.
Cause(n, m, code) ==
  \/ code = "NO_SPACE" /\ m.skip = 0
  \/ code = "INVALID_REQUEST" /\ m.skip = 0 /\ (sc.signed = "bad" \/ (ValidAsked /\ ~Checks(n)))
  \/ code = "ADMIN_PROHIB" /\ Prohibited(n)
  \/ code = "NO_INFO" /\ m.hop = 1 /\ m.skip = 0
  \/ code = "NO_ERROR" /\ Loop(n, m)
  \/ code = "NO_ROUTE" /\ Node(n).fib = <<>> /\ m.skip = 0

LEMMA AskedIs ==
  ASSUME NEW n, NEW m, NEW p, AtNode(n, m, p)
  PROVE  /\ Typed(m) /\ Shape(m)
         /\ m.hop = HopLimit - Len(p) /\ m.hdr \in 0 .. 255 /\ Id(n) \in Nat
         /\ m.by = Nobody /\ m.blk = "none" /\ m.req = TRUE
         /\ m.rpts \in Seq(Nodes) /\ Append(m.rpts, n) \in Seq(Nodes) /\ n \in Nodes
         /\ HopLimit \in Nat
<1>1. n \in Nodes /\ sc \in Scenarios /\ Asked(m, p) /\ HopLimit \in Nat BY DEF AtNode, Read
<1>2. m.rpts \in Seq(Nodes) BY <1>1 DEF Asked, Typed
<1>3. Id(n) \in Nat BY <1>1, NodeIs
<1>4. QED BY <1>1, <1>2, <1>3, AppendProperties DEF Asked, Typed

LEMMA ReplyTold ==
  ASSUME NEW n, NEW m, NEW p, AtNode(n, m, p), NEW code, Cause(n, m, code)
  PROVE  Told(Reply(n, m, code)) /\ Reply(n, m, code).path = m.path
<1> DEFINE loop == Loop(n, m)
           bare == code = "NO_SPACE" \/ (code = "NO_ERROR" /\ ~loop)
           s == IF bare THEN m ELSE Stamp(n, m)
           c == Coded(n, code)
           t == Strip(s)
           x == [t EXCEPT !.k = "rep", !.code = c, !.fatal = loop]
<1>1. /\ Typed(m) /\ Shape(m)
      /\ m.hop = HopLimit - Len(p) /\ m.hdr \in 0 .. 255 /\ Id(n) \in Nat
      /\ m.by = Nobody /\ m.blk = "none" /\ m.req = TRUE
      /\ m.rpts \in Seq(Nodes) /\ Append(m.rpts, n) \in Seq(Nodes) /\ n \in Nodes
      /\ HopLimit \in Nat
  BY AskedIs
<1>2. Reply(n, m, code) = Fit(n, Sealed(n, x)) BY DEF Reply
<1>3. (bare <=> code = "NO_SPACE") BY DEF Cause
<1>4. /\ Shape(s) /\ s.by = Nobody /\ s.blk = "none" /\ s.req = TRUE /\ s.path = m.path
      /\ s.hop = m.hop /\ s.skip = m.skip /\ s.hdr \in 0 .. 255
      /\ s.rpts = IF code = "NO_SPACE" THEN m.rpts ELSE Append(m.rpts, n)
  <2>1. CASE code = "NO_SPACE" BY <2>1, <1>1
  <2>2. CASE code # "NO_SPACE"
    <3>1. s = Stamp(n, m) BY <2>2, <1>3
    <3>2. Stamped(s, m, n) BY <3>1, <1>1, StampIs
    <3>3. (m.hdr + 8 + Id(n)) % 256 \in 0 .. 255
      <4>0. m.hdr \in 0 .. 255 /\ Id(n) \in Nat BY <1>1, Zenon
      <4>1. m.hdr + 8 + Id(n) \in Nat BY <4>0
      <4>2. \A a \in Nat : a % 256 \in 0 .. 255 OBVIOUS
      <4>3. QED BY <4>1, <4>2
    <3>4. QED BY <3>2, <3>3, <1>1, <2>2 DEF Stamped, SameSaid
  <2>3. QED BY <2>1, <2>2
<1> HIDE DEF s
<1>5. /\ Shape(t) /\ t.by = Nobody /\ t.blk = "none" /\ t.req = TRUE /\ t.path = m.path
      /\ t.hop = m.hop /\ t.skip = m.skip /\ t.hdr \in 0 .. 255 /\ t.rpts = s.rpts
  BY <1>4, StripKeeps DEF SameWay, SameSaid
<1> HIDE DEF t, loop, c
<1>6. /\ Shape(x) /\ x.by = Nobody /\ x.blk = "none" /\ x.req = TRUE /\ x.path = m.path
      /\ x.hop = m.hop /\ x.skip = m.skip /\ x.hdr \in 0 .. 255 /\ x.rpts = s.rpts
      /\ x.k = "rep" /\ x.code = c /\ x.fatal = loop
  BY <1>5 DEF Shape, Fields
<1> HIDE DEF x
<1>7. /\ m.path \in Seq(Nodes) /\ m.path # <<>> /\ m.path[1] = sc.home
      /\ Len(m.path) = Len(p) + 1 /\ m.path[Len(m.path)] = n /\ Len(p) \in Nat
      /\ SubSeq(m.path, 1, Len(m.path) - 1) = p
  BY PathIs
<1>8. /\ SkipHops \in Nat /\ Way(m.path) \in Seq(Nodes)
      /\ m.skip = 0 => /\ Way(m.path) = Append(m.rpts, n)
                       /\ m.rpts = SubSeq(Way(m.path), 1, Len(Way(m.path)) - 1)
      /\ m.skip # 0 => m.rpts = <<>> /\ Len(m.path) <= SkipHops
      /\ SkipHops = 0 => Way(m.path) = m.path /\ m.rpts = p /\ m.skip = 0
  BY RouteIs
<1>9. x.rpts \in Seq(Nodes) BY <1>1, <1>4, <1>6
<1>10. Blocks(x) = x.rpts BY <1>6, <1>9, ConcatEmptySeq DEF Blocks, ReplyBlockNode
<1>11. Typed(x) BY <1>1, <1>6, <1>7, <1>9, TypedFrom
<1>12. SkipHops = 0 => x.rpts \in Ends(x.path)
  <2>1. SUFFICES ASSUME SkipHops = 0 PROVE x.rpts = m.path \/ x.rpts = p BY <1>6, <1>7 DEF Ends
  <2>2. m.path = Append(m.rpts, n) /\ m.rpts = p BY <2>1, <1>8
  <2>3. QED BY <2>2, <1>4, <1>6
<1>13. c \in {code, "INVALID_REQUEST"} /\ (c # code => ValidAsked /\ ~Checks(n))
       /\ (code = "NO_SPACE" => c = code)
  BY DEF c, Coded
<1>14. Routed(x)
  <2>1. Route(x) = x.rpts BY <1>10 DEF Route
  <2>2. SubSeq(x.path, Value("-s", 0) + 1, Len(x.path)) = Way(m.path) BY <1>6 DEF Way, SkipHops
  <2>3. CASE m.skip = 0 /\ code # "NO_SPACE" BY <2>1, <2>2, <2>3, <1>4, <1>6, <1>8 DEF Routed
  <2>4. CASE m.skip = 0 /\ code = "NO_SPACE"
    <3>1. x.code = "NO_SPACE" BY <2>4, <1>6, <1>13
    <3>2. Route(x) = SubSeq(Way(m.path), 1, Len(Way(m.path)) - 1) BY <2>1, <2>4, <1>4, <1>6, <1>8
    <3>3. QED BY <3>1, <3>2, <2>2 DEF Routed
  <2>5. CASE m.skip # 0
    <3>1. code \in {"ADMIN_PROHIB", "NO_ERROR"} BY <2>5 DEF Cause
    <3>2. code = "NO_ERROR" => Loop(n, m) BY DEF Cause
    <3>3. m.rpts = <<>> BY <2>5, <1>8
    <3>4. ~Loop(n, m) BY <3>3 DEF Loop, ToSet
    <3>5. code = "ADMIN_PROHIB" BY <3>1, <3>2, <3>4
    <3>6. x.code \in {"ADMIN_PROHIB", "INVALID_REQUEST"} BY <3>5, <1>6, <1>13
    <3>7. x.rpts = <<n>> BY <3>3, <3>5, <1>4, <1>6
    <3>8. Len(x.path) <= Value("-s", 0) BY <2>5, <1>6, <1>8 DEF SkipHops
    <3>9. QED BY <3>6, <3>7, <3>8, <2>1, <1>6, <1>7 DEF Routed
  <2>6. QED BY <2>3, <2>4, <2>5
<1>15. Honest(x)
  <2>1. x.path[Len(x.path)] = n BY <1>6, <1>7
  <2>2. x.code = "NO_ROUTE" => Node(n).fib = <<>> BY <1>6, <1>13 DEF Cause
  <2>3. x.code = "NO_INFO" => Len(x.path) = Value("-r", 32)
    <3>1. SUFFICES ASSUME x.code = "NO_INFO" PROVE Len(x.path) = HopLimit BY DEF HopLimit
    <3>2. code = "NO_INFO" BY <3>1, <1>6, <1>13
    <3>3. m.hop = 1 BY <3>2 DEF Cause
    <3>4. QED BY <3>3, <1>1, <1>6, <1>7
  <2>4. x.code = "ADMIN_PROHIB" => Prohibited(n) BY <1>6, <1>13 DEF Cause
  <2>5. x.code = "INVALID_REQUEST" => (ValidAsked /\ ~Checks(n)) \/ sc.signed = "bad" BY <1>6, <1>13 DEF Cause
  <2>6. x.code = "NO_ERROR" => x.fatal
    <3>1. x.code = "NO_ERROR" => code = "NO_ERROR" BY <1>6, <1>13
    <3>2. code = "NO_ERROR" => loop BY DEF Cause, loop
    <3>3. QED BY <3>1, <3>2, <1>6
  <2>7. x.fatal => Visits(x, n) > 1
    <3>1. x.fatal => Loop(n, m) BY <1>6 DEF loop
    <3>2. Visits(x, n) = Visits(m, n) BY <1>6 DEF Visits
    <3>3. QED BY <3>1, <3>2, LoopVisits
  <2>8. ~Listed(x) BY <1>6 DEF Listed
  <2>9. QED BY <2>1, <2>2, <2>3, <2>4, <2>5, <2>6, <2>7, <2>8 DEF Honest
<1>16. Told(x) BY <1>6, <1>7, <1>10, <1>11, <1>12, <1>14, <1>15 DEF Told
<1>17. QED BY <1>2, <1>6, <1>16, FinishTold

\* x is the Reply of a node that has, or whose application has, what is asked for.
LEMMA AnswerTold ==
  ASSUME NEW n, NEW m, NEW p, AtNode(n, m, p), NEW x, Shape(x),
         x.k = "rep", x.by = n, x.code = "NO_ERROR", x.fatal = FALSE,
         x.hop = m.hop, x.skip = m.skip, x.hdr = m.hdr, x.rpts = m.rpts, x.path = m.path,
         x.blk = "content" \/ (m.skip = 0 /\ Node(n).policy = 0 /\ (Node(n).app \/ Node(n).cached # {})),
         x.blk = "content" => sc.cont,
         x.blk = "cache" => CacheAsked /\ Node(n).cached # {}
  PROVE  Told(x)
<1>1. /\ Typed(m) /\ m.rpts \in Seq(Nodes) /\ n \in Nodes
      /\ m.hdr \in 0 .. 255 /\ m.by = Nobody /\ m.blk = "none" /\ m.req = TRUE
      /\ Append(m.rpts, n) \in Seq(Nodes)
  <2>1. Typed(m) /\ n \in Nodes /\ m.by = Nobody /\ m.blk = "none" /\ m.req = TRUE BY DEF AtNode, Asked
  <2>2. m.rpts \in Seq(Nodes) /\ m.hdr \in 0 .. 255 BY <2>1 DEF Typed
  <2>3. Append(m.rpts, n) \in Seq(Nodes) BY <2>1, <2>2, AppendProperties
  <2>4. QED BY <2>1, <2>2, <2>3
<1>2. /\ m.path \in Seq(Nodes) /\ m.path # <<>> /\ m.path[1] = sc.home
      /\ m.path[Len(m.path)] = n /\ SubSeq(m.path, 1, Len(m.path) - 1) = p
  BY PathIs
<1>3. /\ m.skip = 0 => Way(m.path) = Append(m.rpts, n)
      /\ SkipHops = 0 => Way(m.path) = m.path /\ m.rpts = p /\ m.skip = 0
  BY RouteIs
<1>4. n # Nobody BY <1>1, NodeIs DEF AtNode
<1>5. Blocks(x) = Append(m.rpts, n)
  <2>1. m.rpts \o <<n>> = Append(m.rpts, n) BY <1>1, AppendIsConcat
  <2>2. QED BY <2>1, <1>4 DEF Blocks, ReplyBlockNode
<1>6. Typed(x) BY <1>1 DEF Typed
<1>7. SkipHops = 0 => x.rpts \in Ends(x.path) /\ Blocks(x) \in Ends(x.path)
  <2>1. SUFFICES ASSUME SkipHops = 0 PROVE x.rpts \in Ends(x.path) /\ Blocks(x) \in Ends(x.path) OBVIOUS
  <2>2. x.rpts = p /\ Append(m.rpts, n) = m.path BY <2>1, <1>3
  <2>3. QED BY <2>2, <1>2, <1>5 DEF Ends
<1>8. Routed(x)
  <2>1. SubSeq(x.path, Value("-s", 0) + 1, Len(x.path)) = Way(m.path) BY DEF Way, SkipHops
  <2>2. Route(x) = Append(m.rpts, n) BY <1>5 DEF Route
  <2>3. QED BY <2>1, <2>2, <1>3 DEF Routed
<1>9. Honest(x) BY <1>2 DEF Honest, Listed
<1>10. QED BY <1>2, <1>6, <1>7, <1>8, <1>9 DEF Told

LEMMA OwnerTold ==
  ASSUME NEW n, NEW m, NEW p, AtNode(n, m, p), Owner(n, m)
  PROVE  Told(OwnerReply(n, m)) /\ OwnerReply(n, m).path = m.path
<1> DEFINE s == Strip(m)
           b == IF CacheAsked THEN "owner" ELSE "none"
           d == s.disc + ReplyBlock(n) + (IF CacheAsked THEN SubBlock ELSE 0)
           x == [s EXCEPT !.k = "rep", !.by = n, !.code = "NO_ERROR", !.blk = b, !.disc = d]
<1>1. OwnerReply(n, m) = Fit(n, Sealed(n, Strip(x))) BY DEF OwnerReply
<1>2. /\ Shape(s) /\ s.hop = m.hop /\ s.skip = m.skip /\ s.hdr = m.hdr /\ s.rpts = m.rpts /\ s.path = m.path
      /\ s.fatal = m.fatal
  BY AskedIs, StripKeeps DEF SameWay, SameSaid
<1>3. m.fatal = FALSE BY DEF AtNode, Asked
<1>4. b \in {"owner", "none"} OBVIOUS
<1> HIDE DEF s, b, d
<1>5. /\ Shape(x) /\ x.k = "rep" /\ x.by = n /\ x.code = "NO_ERROR" /\ x.blk = b /\ x.fatal = FALSE
      /\ x.hop = m.hop /\ x.skip = m.skip /\ x.hdr = m.hdr /\ x.rpts = m.rpts /\ x.path = m.path
  BY <1>2, <1>3 DEF Shape, Fields
<1> HIDE DEF x
<1>6. m.skip = 0 /\ Node(n).policy = 0 /\ Node(n).app BY DEF Owner, Open
<1>7. Told(x) BY <1>4, <1>5, <1>6, AnswerTold
<1>8. QED BY <1>1, <1>5, <1>7, FinishTold

LEMMA CacheTold ==
  ASSUME NEW n, NEW m, NEW p, AtNode(n, m, p), FromCache(n, m)
  PROVE  Told(CacheReply(n, m)) /\ CacheReply(n, m).path = m.path
<1> DEFINE s == Strip(m)
           b == IF CacheAsked THEN "cache" ELSE "none"
           d == s.disc + ReplyBlock(n) + (IF CacheAsked THEN SubBlock ELSE 0)
           o == Swapped(s.pkt)
           x == [s EXCEPT !.k = "rep", !.by = n, !.code = "NO_ERROR", !.blk = b, !.disc = d]
           y == [x EXCEPT !.sent = o]
<1>1. CacheReply(n, m) = IF CacheAsked THEN Fit(n, Sealed(n, Strip(x))) ELSE Fit(n, Sealed(n, y)) BY DEF CacheReply
<1>2. /\ Shape(s) /\ s.hop = m.hop /\ s.skip = m.skip /\ s.hdr = m.hdr /\ s.rpts = m.rpts /\ s.path = m.path
      /\ s.fatal = m.fatal
  BY AskedIs, StripKeeps DEF SameWay, SameSaid
<1>3. m.fatal = FALSE BY DEF AtNode, Asked
<1>4. b \in {"cache", "none"} /\ (b = "cache" => CacheAsked) OBVIOUS
<1> HIDE DEF s, b, d, o
<1>5. /\ Shape(x) /\ x.k = "rep" /\ x.by = n /\ x.code = "NO_ERROR" /\ x.blk = b /\ x.fatal = FALSE
      /\ x.hop = m.hop /\ x.skip = m.skip /\ x.hdr = m.hdr /\ x.rpts = m.rpts /\ x.path = m.path
  BY <1>2, <1>3 DEF Shape, Fields
<1> HIDE DEF x
<1>6. /\ Shape(y) /\ y.k = "rep" /\ y.by = n /\ y.code = "NO_ERROR" /\ y.blk = b /\ y.fatal = FALSE
      /\ y.hop = m.hop /\ y.skip = m.skip /\ y.hdr = m.hdr /\ y.rpts = m.rpts /\ y.path = m.path
  BY <1>5 DEF Shape, Fields
<1> HIDE DEF y
<1>7. m.skip = 0 /\ Node(n).policy = 0 /\ Node(n).cached # {} BY DEF FromCache, Open, InCache
<1>8. Told(x) BY <1>4, <1>5, <1>7, AnswerTold
<1>9. Told(y) BY <1>4, <1>6, <1>7, AnswerTold
<1>10. QED BY <1>1, <1>5, <1>6, <1>8, <1>9, FinishTold

LEMMA ContentTold ==
  ASSUME NEW n, NEW m, NEW p, AtNode(n, m, p), sc.cont
  PROVE  Told(ContentReply(n, m)) /\ ContentReply(n, m).path = m.path
<1> DEFINE d == m.disc + ReplyBlock(n) + SubBlock + 2 + Node(n).info
           l == m.hdr + 4 + d
           x == [m EXCEPT !.k = "rep", !.by = n, !.code = "NO_ERROR", !.blk = "content", !.disc = d,
                          !.pkt = l, !.sent = l]
<1>1. ContentReply(n, m) = x BY DEF ContentReply
<1>2. Shape(m) /\ m.fatal = FALSE BY AskedIs DEF AtNode, Asked
<1> HIDE DEF d, l
<1>3. /\ Shape(x) /\ x.k = "rep" /\ x.by = n /\ x.code = "NO_ERROR" /\ x.blk = "content" /\ x.fatal = FALSE
      /\ x.hop = m.hop /\ x.skip = m.skip /\ x.hdr = m.hdr /\ x.rpts = m.rpts /\ x.path = m.path
  BY <1>2 DEF Shape, Fields
<1> HIDE DEF x
<1>4. Told(x) BY <1>3, AnswerTold
<1>5. QED BY <1>1, <1>3, <1>4

-----------------------------------------------------------------------------
(* What the handler of a Request comes to.                                 *)

LEMMA OnwardAsked ==
  ASSUME NEW n, NEW m, NEW p, AtNode(n, m, p), ~Hopless(m), ~Loop(n, m)
  PROVE  Asked(Onward(n, m), m.path) /\ Onward(n, m).path = m.path
<1> DEFINE s == IF m.skip > 0 THEN m ELSE Stamp(n, m)
           k == IF m.skip > 0 THEN m.skip - 1 ELSE 0
           h == m.hop - 1
           x == [s EXCEPT !.skip = k, !.hop = h]
<1>1. Onward(n, m) = x BY DEF Onward
<1>2. /\ Typed(m) /\ Shape(m)
      /\ m.hop = HopLimit - Len(p) /\ m.hdr \in 0 .. 255 /\ Id(n) \in Nat
      /\ m.by = Nobody /\ m.blk = "none" /\ m.req = TRUE
      /\ m.rpts \in Seq(Nodes) /\ Append(m.rpts, n) \in Seq(Nodes) /\ n \in Nodes
      /\ HopLimit \in Nat
  BY AskedIs
<1>3. /\ m.k = "req" /\ m.code = "NO_ERROR" /\ m.fatal = FALSE /\ m.val \in {"none", sc.signed}
      /\ Distinct(m.rpts) /\ m.rpts = Way(p)
      /\ m.skip = (IF Len(p) < SkipHops THEN SkipHops - Len(p) ELSE 0)
  BY DEF AtNode, Asked
<1>4. /\ m.path \in Seq(Nodes) /\ m.path # <<>> /\ m.path[1] = sc.home
      /\ Len(m.path) = Len(p) + 1 /\ Len(p) \in Nat
  BY PathIs
<1>5. /\ SkipHops \in Nat
      /\ m.skip = 0 => Way(m.path) = Append(m.rpts, n)
      /\ m.skip # 0 => m.rpts = <<>> /\ Way(m.path) = <<>> /\ Len(m.path) <= SkipHops
  BY RouteIs
<1>6. m.skip \in 0 .. 15 /\ m.hop \in 0 .. 255 BY <1>2 DEF Typed
<1>7. m.hop >= 1 BY <1>6 DEF Hopless
<1>8. h \in 0 .. 255 /\ k \in 0 .. 15 BY <1>6, <1>7
<1>9. h = HopLimit - Len(m.path) BY <1>2, <1>4
<1>10. k = (IF Len(m.path) < SkipHops THEN SkipHops - Len(m.path) ELSE 0) BY <1>3, <1>4, <1>5
<1>11. /\ Shape(s) /\ s.k = "req" /\ s.by = Nobody /\ s.blk = "none" /\ s.req = TRUE /\ s.code = "NO_ERROR"
       /\ s.fatal = FALSE /\ s.val = m.val /\ s.path = m.path /\ s.hdr \in 0 .. 255
       /\ s.rpts = Way(m.path)
  <2>1. CASE m.skip = 0
    <3>1. s = Stamp(n, m) BY <2>1
    <3>2. Stamped(s, m, n) BY <3>1, <1>2, StampIs
    <3>3. (m.hdr + 8 + Id(n)) % 256 \in 0 .. 255
      <4>0. m.hdr \in 0 .. 255 /\ Id(n) \in Nat BY <1>2, Zenon
      <4>1. m.hdr + 8 + Id(n) \in Nat BY <4>0
      <4>2. \A a \in Nat : a % 256 \in 0 .. 255 OBVIOUS
      <4>3. QED BY <4>1, <4>2
    <3>4. /\ Shape(s) /\ s.by = m.by /\ s.blk = m.blk /\ s.req = m.req /\ s.code = m.code /\ s.fatal = m.fatal
          /\ s.k = m.k /\ s.val = m.val /\ s.path = m.path /\ s.hdr \in 0 .. 255 /\ s.rpts = Append(m.rpts, n)
      BY <3>2, <3>3 DEF Stamped, SameSaid
    <3>5. s.rpts = Way(m.path) BY <3>4, <1>5, <2>1
    <3>6. /\ s.k = "req" /\ s.by = Nobody /\ s.blk = "none" /\ s.req = TRUE /\ s.code = "NO_ERROR"
          /\ s.fatal = FALSE
      BY <3>4, <1>2, <1>3
    <3>7. QED BY <3>4, <3>5, <3>6
  <2>2. CASE m.skip # 0
    <3>1. s = m BY <2>2, <1>6
    <3>2. QED BY <3>1, <2>2, <1>2, <1>3, <1>5
  <2>3. QED BY <2>1, <2>2
<1> HIDE DEF s, k, h
<1>12. /\ Shape(x) /\ x.k = "req" /\ x.by = Nobody /\ x.blk = "none" /\ x.req = TRUE /\ x.code = "NO_ERROR"
       /\ x.fatal = FALSE /\ x.val = m.val /\ x.path = m.path /\ x.hdr \in 0 .. 255
       /\ x.rpts = Way(m.path) /\ x.skip = k /\ x.hop = h
  BY <1>11 DEF Shape, Fields
<1> HIDE DEF x
<1>13. Way(m.path) \in Seq(Nodes) BY <1>4, <1>5, WayIs
<1>14. Distinct(Way(m.path))
  <2>1. CASE m.skip = 0
    <3>1. m.rpts \in Seq(Nodes) /\ n \in Nodes /\ \A i \in DOMAIN m.rpts : m.rpts[i] # n
      BY <1>2 DEF Loop, ToSet
    <3>2. /\ Len(Append(m.rpts, n)) = Len(m.rpts) + 1 /\ Append(m.rpts, n)[Len(m.rpts) + 1] = n
          /\ \A i \in 1 .. Len(m.rpts) : Append(m.rpts, n)[i] = m.rpts[i]
          /\ Append(m.rpts, n) \in Seq(Nodes)
      BY <3>1, AppendProperties
    <3>3. SUFFICES ASSUME NEW i \in DOMAIN Append(m.rpts, n), NEW j \in DOMAIN Append(m.rpts, n),
                          Append(m.rpts, n)[i] = Append(m.rpts, n)[j]
                   PROVE  i = j
      BY <2>1, <1>5 DEF Distinct
    <3>4. Len(m.rpts) \in Nat /\ DOMAIN m.rpts = 1 .. Len(m.rpts) BY <3>1
    <3>5. /\ i \in DOMAIN m.rpts \/ i = Len(m.rpts) + 1
          /\ j \in DOMAIN m.rpts \/ j = Len(m.rpts) + 1
      BY <3>2, <3>4
    <3>6. \A a, b \in DOMAIN m.rpts : m.rpts[a] = m.rpts[b] => a = b BY <1>3 DEF Distinct
    <3>7. QED BY <3>1, <3>2, <3>3, <3>4, <3>5, <3>6
  <2>2. CASE m.skip # 0 BY <2>2, <1>5 DEF Distinct
  <2>3. QED BY <2>1, <2>2
<1>15. Typed(x) BY <1>2, <1>4, <1>8, <1>12, <1>13, NodeIs DEF Typed
<1>16. QED BY <1>1, <1>3, <1>4, <1>9, <1>10, <1>12, <1>14, <1>15 DEF Asked

LEMMA TargetsAre ==
  ASSUME sc \in Scenarios, NEW n \in Nodes, NEW f
  PROVE  /\ \A t \in Targets(n, f) : t.to \in Nodes /\ t.copy \in 1 .. 2
         /\ ~FullAsked => \A t, u \in Targets(n, f) : t = u
<1> DEFINE fib == Node(n).fib
<1>1. fib \in Seq([to : Nodes, type : {"local", "tcp", "udp"}, up : BOOLEAN]) BY NodeIs
<1>2. \A i \in DOMAIN fib : fib[i].to \in Nodes /\ i \in Nat
  <2> TAKE i \in DOMAIN fib
  <2>1. i \in 1 .. Len(fib) /\ Len(fib) \in Nat BY <1>1, LenProperties
  <2>2. fib[i] \in [to : Nodes, type : {"local", "tcp", "udp"}, up : BOOLEAN] BY <1>1, <2>1, ElementOfSeq
  <2>3. QED BY <2>1, <2>2
<1>3. Same(n, f) \subseteq DOMAIN fib /\ Others(n, f) \subseteq DOMAIN fib BY DEF Same, Others
<1>4. \A S, c : S \subseteq DOMAIN fib /\ c \in 1 .. 2 => \A t \in To(n, S, c) : t.to \in Nodes /\ t.copy \in 1 .. 2
  BY <1>2 DEF To
<1> DEFINE s == IF Same(n, f) # {} THEN Same(n, f) ELSE Others(n, f)
           a == {i \in s : \A j \in s : i <= j}
<1>5. a \subseteq DOMAIN fib /\ \A i, j \in a : i = j
  <2>1. s \subseteq DOMAIN fib BY <1>3
  <2>2. QED BY <2>1, <1>2
<1>6. Targets(n, f) = IF Full(n) THEN To(n, Others(n, f), 1) \cup To(n, Same(n, f), 2) ELSE To(n, a, 1)
  BY DEF Targets
<1> HIDE DEF a, s
<1>7. \A t, u \in To(n, a, 1) : t = u BY <1>5 DEF To
<1>8. Full(n) => FullAsked BY DEF Full
<1>9. 1 \in 1 .. 2 /\ 2 \in 1 .. 2 OBVIOUS
<1>10. \A t \in To(n, a, 1) \cup To(n, Others(n, f), 1) \cup To(n, Same(n, f), 2) : t.to \in Nodes /\ t.copy \in 1 .. 2
  BY <1>3, <1>4, <1>5, <1>9
<1>11. QED BY <1>6, <1>7, <1>8, <1>10

\* What the handler does with the Request m that came from f: it keeps silent,
\* it answers, or it leaves an entry and passes the Request on.
Silent(r, n) == r.entries = pit[n] /\ r.out = {}
Answers(r, n, f, a) ==
  r.entries = pit[n] /\ r.out = {[from |-> n, to |-> f, copy |-> 1, m |-> a]}
Passes(r, n, f, key, o) ==
  /\ r.entries = pit[n] \cup {[key |-> key, down |-> f]}
  /\ r.out = {[from |-> n, to |-> t.to, copy |-> t.copy, m |-> o] : t \in Targets(n, f)}

Gives(r, n, f, m) ==
  \/ Silent(r, n)
  \/ \E a : Told(a) /\ a.path = m.path /\ Answers(r, n, f, a)
  \/ \E o : Asked(o, m.path) /\ o.path = m.path /\ Passes(r, n, f, m.rpts, o)

LEMMA IgnoreGives ==
  ASSUME NEW n, NEW f, NEW m, NEW why
  PROVE  Gives(Ignore(n, why), n, f, m)
BY DEF Gives, Silent, Ignore, Effect

LEMMA AnswerGives ==
  ASSUME NEW n, NEW f, NEW m, NEW a, Told(a), a.path = m.path
  PROVE  Gives(Answer(n, f, a), n, f, m)
<1>1. Answers(Answer(n, f, a), n, f, a) BY DEF Answers, Answer, Effect
<1>2. QED BY <1>1 DEF Gives

LEMMA ReplyGives ==
  ASSUME NEW n, NEW m, NEW p, AtNode(n, m, p), NEW f, NEW code, Cause(n, m, code)
  PROVE  Gives(Answer(n, f, Reply(n, m, code)), n, f, m)
BY ReplyTold, AnswerGives

LEMMA PassOnGives ==
  ASSUME NEW n, NEW m, NEW p, AtNode(n, m, p), NEW f, ~Hopless(m), ~Loop(n, m)
  PROVE  Gives(PassOn(n, f, m), n, f, m)
<1>1. m.skip \in 0 .. 15
  <2>1. Typed(m) BY AskedIs
  <2>2. QED BY <2>1 DEF Typed
<1>2. CASE Node(n).fib = <<>>
  <2>1. CASE m.skip > 0 BY <1>2, <2>1, IgnoreGives DEF PassOn
  <2>2. CASE ~(m.skip > 0)
    <3>1. Cause(n, m, "NO_ROUTE") BY <1>1, <1>2, <2>2 DEF Cause
    <3>2. PassOn(n, f, m) = Answer(n, f, Reply(n, m, "NO_ROUTE")) BY <1>2, <2>2 DEF PassOn
    <3>3. QED BY <3>1, <3>2, ReplyGives
  <2>3. QED BY <2>1, <2>2
<1>3. CASE Node(n).fib # <<>> /\ Entries(n, RequestKey(m)) # {}
  <2>1. PICK why : PassOn(n, f, m) = Ignore(n, why) BY <1>3 DEF PassOn
  <2>2. QED BY <2>1, IgnoreGives
<1>4. CASE Node(n).fib # <<>> /\ Entries(n, RequestKey(m)) = {}
  <2>1. Passes(PassOn(n, f, m), n, f, m.rpts, Onward(n, m))
    BY <1>4 DEF Passes, PassOn, Effect, RequestKey
  <2>2. Asked(Onward(n, m), m.path) /\ Onward(n, m).path = m.path BY OnwardAsked
  <2>3. QED BY <2>1, <2>2 DEF Gives
<1>5. QED BY <1>2, <1>3, <1>4

LEMMA OnRequestGives ==
  ASSUME NEW n, NEW m, NEW p, AtNode(n, m, p), NEW f
  PROVE  Gives(OnRequest(n, f, m), n, f, m)
<1>1. m.skip \in 0 .. 15 /\ m.hop \in 0 .. 255
  <2>1. Typed(m) BY AskedIs
  <2>2. QED BY <2>1 DEF Typed
<1>2. CASE sc.cont
  <2>1. CASE Node(n).info = None BY <1>2, <2>1, IgnoreGives DEF OnRequest
  <2>2. CASE Node(n).info # None
    <3>1. OnRequest(n, f, m) = Answer(n, f, ContentReply(n, m)) BY <1>2, <2>2 DEF OnRequest
    <3>2. QED BY <3>1, <1>2, ContentTold, AnswerGives
  <2>3. QED BY <2>1, <2>2
<1>3. CASE ~sc.cont /\ Hopless(m)
  <2>1. OnRequest(n, f, m) = Ignore(n, {"hops"}) BY <1>3 DEF OnRequest
  <2>2. QED BY <2>1, IgnoreGives
<1>4. CASE ~sc.cont /\ ~Hopless(m) /\ NoRoom(n, m)
  <2>1. OnRequest(n, f, m) = Answer(n, f, Reply(n, m, "NO_SPACE")) BY <1>4 DEF OnRequest
  <2>2. Cause(n, m, "NO_SPACE") BY <1>4 DEF Cause, NoRoom
  <2>3. QED BY <2>1, <2>2, ReplyGives
<1>5. CASE ~sc.cont /\ ~Hopless(m) /\ ~NoRoom(n, m)
  <2> DEFINE rest ==
               IF ~Verified(m) THEN IF m.skip > 0 THEN Ignore(n, {"unsigned"})
                                     ELSE Answer(n, f, Reply(n, m, "INVALID_REQUEST"))
               ELSE IF Prohibited(n) THEN Answer(n, f, Reply(n, m, "ADMIN_PROHIB"))
               ELSE IF Owner(n, m)
               THEN Answer(n, f, IF ValidAsked /\ ~Checks(n) THEN Reply(n, m, "INVALID_REQUEST") ELSE OwnerReply(n, m))
               ELSE IF FromCache(n, m) THEN Answer(n, f, CacheReply(n, m))
               ELSE IF m.hop = 1 THEN Answer(n, f, Reply(n, m, "NO_INFO"))
               ELSE IF Loop(n, m) THEN Answer(n, f, Reply(n, m, "NO_ERROR"))
               ELSE PassOn(n, f, m)
  <2>1. OnRequest(n, f, m) = rest BY <1>5 DEF OnRequest
  <2>2. CASE ~Verified(m) /\ m.skip > 0
    <3>1. rest = Ignore(n, {"unsigned"}) BY <2>2
    <3>2. QED BY <2>1, <3>1, IgnoreGives
  <2>3. CASE ~Verified(m) /\ ~(m.skip > 0)
    <3>1. rest = Answer(n, f, Reply(n, m, "INVALID_REQUEST")) BY <2>3
    <3>2. m.val \in {"none", sc.signed} /\ m.val \notin {"none", "good"} BY <2>3 DEF AtNode, Asked, Verified
    <3>3. sc.signed \in {"good", "bad"} BY CcninfoAssumption DEF AtNode, IsScenario
    <3>4. Cause(n, m, "INVALID_REQUEST") BY <1>1, <2>3, <3>2, <3>3 DEF Cause
    <3>5. QED BY <2>1, <3>1, <3>4, ReplyGives
  <2>4. CASE Verified(m) /\ Prohibited(n)
    <3>1. rest = Answer(n, f, Reply(n, m, "ADMIN_PROHIB")) BY <2>4
    <3>2. Cause(n, m, "ADMIN_PROHIB") BY <2>4 DEF Cause
    <3>3. QED BY <2>1, <3>1, <3>2, ReplyGives
  <2>5. CASE Verified(m) /\ ~Prohibited(n) /\ Owner(n, m)
    <3>1. CASE ValidAsked /\ ~Checks(n)
      <4>1. rest = Answer(n, f, Reply(n, m, "INVALID_REQUEST")) BY <2>5, <3>1
      <4>2. Cause(n, m, "INVALID_REQUEST") BY <2>5, <3>1 DEF Cause, Owner, Open
      <4>3. QED BY <2>1, <4>1, <4>2, ReplyGives
    <3>2. CASE ~(ValidAsked /\ ~Checks(n))
      <4>1. rest = Answer(n, f, OwnerReply(n, m)) BY <2>5, <3>2
      <4>2. QED BY <2>1, <4>1, <2>5, OwnerTold, AnswerGives
    <3>3. QED BY <3>1, <3>2
  <2>6. CASE Verified(m) /\ ~Prohibited(n) /\ ~Owner(n, m) /\ FromCache(n, m)
    <3>1. rest = Answer(n, f, CacheReply(n, m)) BY <2>6
    <3>2. QED BY <2>1, <3>1, <2>6, CacheTold, AnswerGives
  <2>7. CASE Verified(m) /\ ~Prohibited(n) /\ ~Owner(n, m) /\ ~FromCache(n, m) /\ m.hop = 1
    <3>1. rest = Answer(n, f, Reply(n, m, "NO_INFO")) BY <2>7
    <3>2. m.skip = 0 BY <1>1, <1>5, <2>7 DEF Hopless
    <3>3. Cause(n, m, "NO_INFO") BY <2>7, <3>2 DEF Cause
    <3>4. QED BY <2>1, <3>1, <3>3, ReplyGives
  <2>8. CASE Verified(m) /\ ~Prohibited(n) /\ ~Owner(n, m) /\ ~FromCache(n, m) /\ m.hop # 1 /\ Loop(n, m)
    <3>1. rest = Answer(n, f, Reply(n, m, "NO_ERROR")) BY <2>8
    <3>2. Cause(n, m, "NO_ERROR") BY <2>8 DEF Cause
    <3>3. QED BY <2>1, <3>1, <3>2, ReplyGives
  <2>9. CASE Verified(m) /\ ~Prohibited(n) /\ ~Owner(n, m) /\ ~FromCache(n, m) /\ m.hop # 1 /\ ~Loop(n, m)
    <3>1. rest = PassOn(n, f, m) BY <2>9
    <3>2. QED BY <2>1, <3>1, <1>5, <2>9, PassOnGives
  <2> HIDE DEF rest
  <2>10. QED BY <2>2, <2>3, <2>4, <2>5, <2>6, <2>7, <2>8, <2>9
<1>6. QED BY <1>2, <1>3, <1>4, <1>5

-----------------------------------------------------------------------------
(* What the handler of a Reply comes to.                                   *)

Returns(r, n, e, m) ==
  /\ r.entries = pit[n] \ {e}
  /\ r.out = {} \/ r.out = {[from |-> n, to |-> e.down, copy |-> 1, m |-> m]}

LEMMA OnReplyGives ==
  ASSUME NEW n, NEW m
  PROVE  \/ Silent(OnReply(n, m), n)
         \/ \E e \in Wanted(n, m) : Returns(OnReply(n, m), n, e, m)
<1>1. CASE Node(n).policy = 2 BY <1>1 DEF OnReply, Silent, Ignore, Effect
<1>2. CASE Node(n).policy # 2 /\ Wanted(n, m) = {} BY <1>2 DEF OnReply, Silent, Ignore, Effect
<1>3. CASE Node(n).policy # 2 /\ Wanted(n, m) # {}
  <2> DEFINE e == CHOOSE x \in Wanted(n, m) : TRUE
             out == IF Up(e.down) THEN {[from |-> n, to |-> e.down, copy |-> 1, m |-> m]} ELSE {}
  <2>1. e \in Wanted(n, m) BY <1>3
  <2>2. OnReply(n, m) = Effect(UsesUp(pit[n], e), out, {}) BY <1>3 DEF OnReply
  <2>3. out = {} \/ out = {[from |-> n, to |-> e.down, copy |-> 1, m |-> m]} OBVIOUS
  <2> HIDE DEF e, out
  <2>4. Returns(OnReply(n, m), n, e, m) BY <2>2, <2>3 DEF Effect, UsesUp, Returns
  <2>5. QED BY <2>1, <2>4
<1>4. QED BY <1>1, <1>2, <1>3

LEMMA WantedIs ==
  ASSUME NEW n, NEW m, NEW e \in Wanted(n, m)
  PROVE  /\ e \in pit[n]
         /\ e.key = <<>> \/ (n \in ToSet(Blocks(m)) /\ e.key = SubSeq(Blocks(m), 1, At(n, Blocks(m)) - 1))
<1>1. e \in pit[n] /\ e.key \in {ReplyKey(n, m, TRUE), ReplyKey(n, m, FALSE)} BY DEF Wanted, Entries
<1>2. \A s \in BOOLEAN : ReplyKey(n, m, s) = <<>> \/ (n \in ToSet(Blocks(m)) /\ ReplyKey(n, m, s) = SubSeq(Blocks(m), 1, At(n, Blocks(m)) - 1))
  BY DEF ReplyKey
<1>3. QED BY <1>1, <1>2

\* A set of numbers that is not empty has a least one.
LEMMA LeastNat ==
  ASSUME NEW T, T \subseteq Nat, T # {}
  PROVE  \E x \in T : \A y \in T : x <= y
<1> DEFINE Less == OpToRel(<, Nat)
<1>1. IsWellFoundedOn(Less, Nat) BY NatLessThanWellFounded, Zenon
<1>2. \A x, y \in Nat : x < y => <<x, y>> \in Less BY Zenon DEF OpToRel
<1> HIDE DEF Less
<1>3. PICK x \in T : \A y \in T : ~(<<y, x>> \in Less) BY <1>1, WFMin
<1>4. \A y \in T : ~(y < x) BY <1>2, <1>3
<1>5. QED BY <1>4

LEMMA AtIs ==
  ASSUME NEW S, NEW b \in Seq(S), NEW n, n \in ToSet(b)
  PROVE  At(n, b) \in DOMAIN b /\ b[At(n, b)] = n
<1> DEFINE T == {i \in DOMAIN b : b[i] = n}
<1>1. T \subseteq Nat /\ T # {} BY DEF ToSet
<1>2. PICK i \in T : \A j \in T : i <= j BY <1>1, LeastNat
<1>3. \A j \in 1 .. i - 1 : b[j] # n
  <2>1. SUFFICES ASSUME NEW j \in 1 .. i - 1, b[j] = n PROVE FALSE OBVIOUS
  <2>2. i \in 1 .. Len(b) /\ Len(b) \in Nat BY <1>2
  <2>3. j \in T /\ ~(i <= j) BY <2>1, <2>2
  <2>4. QED BY <2>3, <1>2
<1>4. \E x \in DOMAIN b : b[x] = n /\ \A j \in 1 .. x - 1 : b[j] # n BY <1>2, <1>3
<1>5. QED BY <1>4 DEF At

\* An entry of a full discovery that skips no node leads where the Request
\* that left it came from.
Leads(n, e) == IF e.key = <<>> THEN n = sc.home /\ e.down = Tool ELSE e.down = e.key[Len(e.key)]

LEMMA LeadsBack ==
  ASSUME NEW n, NEW m, Told(m), SkipHops = 0, NEW e \in Wanted(n, m), Leads(n, e)
  PROVE  LinkOf(m.path, n, e.down)
<1> DEFINE b == Blocks(m)
           i == At(n, b)
<1>1. m.path \in Seq(Nodes) /\ m.path # <<>> /\ m.path[1] = sc.home /\ b \in Ends(m.path) BY DEF Told, Typed
<1>2. Len(m.path) \in Nat \ {0} /\ DOMAIN m.path = 1 .. Len(m.path) BY <1>1, EmptySeq
<1>3. CASE e.key = <<>> BY <1>1, <1>2, <1>3 DEF Leads, LinkOf
<1>4. CASE e.key # <<>>
  <2>1. n \in ToSet(b) /\ e.key = SubSeq(b, 1, i - 1) BY <1>4, WantedIs
  <2>2. /\ b \in Seq(Nodes) /\ Len(b) \in Nat /\ Len(b) <= Len(m.path)
        /\ \A j \in 1 .. Len(b) : b[j] = m.path[j]
    <3>1. CASE b = m.path BY <3>1, <1>1, <1>2
    <3>2. CASE b = SubSeq(m.path, 1, Len(m.path) - 1)
      <4> DEFINE c == SubSeq(m.path, 1, Len(m.path) - 1)
      <4>1. \A j \in 1 .. Len(m.path) - 1 : m.path[j] \in Nodes BY <1>1, <1>2, ElementOfSeq
      <4>2. /\ c \in Seq(Nodes) /\ Len(c) = (IF 1 <= Len(m.path) - 1 THEN Len(m.path) - 1 - 1 + 1 ELSE 0)
            /\ \A j \in 1 .. Len(m.path) - 1 - 1 + 1 : c[j] = m.path[1 + j - 1]
        BY <4>1, <1>2, SubSeqProperties
      <4> HIDE DEF c
      <4>3. Len(c) = Len(m.path) - 1 BY <4>2, <1>2
      <4>4. \A j \in 1 .. Len(c) : c[j] = m.path[j]
        <5> TAKE j \in 1 .. Len(c)
        <5>1. j \in 1 .. Len(m.path) - 1 - 1 + 1 /\ 1 + j - 1 = j BY <4>3, <1>2
        <5>2. QED BY <5>1, <4>2
      <4>5. c \in Seq(Nodes) /\ Len(c) \in Nat /\ Len(c) <= Len(m.path) BY <4>2, <4>3, <1>2
      <4>6. b = c BY <3>2 DEF c
      <4>7. QED BY <4>4, <4>5, <4>6
    <3>3. QED BY <3>1, <3>2, <1>1 DEF Ends
  <2> HIDE DEF b
  <2>3. i \in DOMAIN b /\ b[i] = n BY <2>1, <2>2, AtIs
  <2> HIDE DEF i
  <2>4. i \in 1 .. Len(b) BY <2>2, <2>3
  <2>5. i # 1 BY <2>1, <1>4, SubSeqEmpty
  <2>6. i - 1 \in 1 .. Len(b) /\ i \in DOMAIN m.path /\ m.path[i] = n /\ m.path[i - 1] = b[i - 1]
    BY <1>2, <2>2, <2>3, <2>4, <2>5
  <2>7. e.key[Len(e.key)] = b[i - 1]
    <3>1. \A j \in 1 .. i - 1 : b[j] \in Nodes BY <2>2, <2>4, ElementOfSeq
    <3>2. /\ Len(e.key) = (IF 1 <= i - 1 THEN i - 1 - 1 + 1 ELSE 0)
          /\ \A j \in 1 .. i - 1 - 1 + 1 : e.key[j] = b[1 + j - 1]
      BY <2>1, <3>1, <2>4, SubSeqProperties
    <3>3. Len(e.key) = i - 1 /\ i - 1 \in 1 .. i - 1 - 1 + 1 /\ 1 + (i - 1) - 1 = i - 1 BY <3>2, <2>4, <2>5
    <3>4. QED BY <3>2, <3>3
  <2>8. e.down = m.path[i - 1] BY <1>4, <2>6, <2>7 DEF Leads
  <2>9. QED BY <2>5, <2>6, <2>8 DEF LinkOf
<1>5. QED BY <1>3, <1>4

-----------------------------------------------------------------------------
(* The inductive invariant.                                                *)

\* A frame is a Request that leaves the last node of its path, or a Reply.
Arrives(w) ==
  /\ Asked(w.m, w.m.path) /\ w.to \in Nodes
  /\ IF w.m.path = <<>> THEN w.from = Tool /\ w.to = sc.home ELSE w.from = w.m.path[Len(w.m.path)]
FrameOK(w) ==
  /\ w.copy \in 1 .. 2
  /\ Arrives(w) \/ (Told(w.m) /\ w.from \in Nodes /\ w.to \in Nodes \cup {Tool})

Types ==
  /\ sc \in Scenarios /\ tool \in {"idle", "waiting", "gone"}
  /\ DOMAIN pit = Nodes /\ pit = [n \in Nodes |-> pit[n]]
  /\ \A n \in Nodes : \A e \in pit[n] : e.key \in Seq(Nodes) /\ e.down \in Nodes \cup {Tool}
  /\ wire # {} => Read
  /\ \A w \in wire : FrameOK(w)
  /\ heard = <<>> \/ \E m : heard = <<m>> /\ Told(m) /\ m.req

Quiet == tool = "idle" => wire = {} /\ heard = <<>> /\ \A n \in Nodes : pit[n] = {}

\* What the tool asked is at one place: a frame of the tool's own or to it, an
\* entry that leads to the tool, or what the tool heard.
OfTool(w) == w.from = Tool \/ w.to = Tool
OnePlace ==
  /\ \A v, w \in wire : OfTool(v) /\ OfTool(w) => v = w
  /\ \A n, k \in Nodes : \A d \in pit[n], e \in pit[k] : d.down = Tool /\ e.down = Tool => n = k /\ d = e
  /\ \A w \in wire, n \in Nodes : OfTool(w) => \A e \in pit[n] : e.down # Tool
  /\ heard # <<>> => /\ \A w \in wire : ~OfTool(w)
                     /\ \A n \in Nodes : \A e \in pit[n] : e.down # Tool

\* Without -f one frame is on its way, and the entries are those it left.
OneWay ==
  ~FullAsked => /\ \A v, w \in wire : v = w
                /\ \A w \in wire, n \in Nodes : \A e \in pit[n] : LinkOf(w.m.path, n, e.down)

\* With -f the entries of nodes that are not skipped have keys of their own.
Keyed == FullAsked /\ SkipHops = 0 => \A n \in Nodes : \A e \in pit[n] : Leads(n, e)

IInv == Types /\ Quiet /\ OnePlace /\ OneWay /\ Keyed /\ BackWay

LEMMA ScenarioStays ==
  ASSUME sc' = sc
  PROVE  /\ Nodes' = Nodes /\ SkipHops' = SkipHops /\ Read' = Read
         /\ FullAsked' = FullAsked /\ Has("-s")' = Has("-s")
         /\ \A m : Told(m)' = Told(m)
         /\ \A w : FrameOK(w)' = FrameOK(w)
         /\ \A n, e : Leads(n, e)' = Leads(n, e)
<1>1. Nodes' = Nodes /\ \A n : Node(n)' = Node(n) BY DEF Nodes, Node
<1>2. /\ SkipHops' = SkipHops /\ HopLimit' = HopLimit
      /\ Value("-s", 0)' = Value("-s", 0) /\ Value("-r", 32)' = Value("-r", 32)
  BY DEF SkipHops, HopLimit, Value, Given
<1>3. /\ FullAsked' = FullAsked /\ Has("-s")' = Has("-s") /\ CacheAsked' = CacheAsked /\ ValidAsked' = ValidAsked
  BY DEF FullAsked, Has, CacheAsked, ValidAsked, Given
<1>4. Read' = Read BY <1>2 DEF Read
<1>5. \A m : Typed(m)' = Typed(m) BY <1>1 DEF Typed, Shape
<1>6. \A m : Routed(m)' = Routed(m) BY <1>2 DEF Routed, Route, Blocks, ReplyBlockNode
<1>7. \A n : Prohibited(n)' = Prohibited(n) /\ Checks(n)' = Checks(n) BY <1>1, <1>3 DEF Prohibited, Checks
<1>8. \A m : Honest(m)' = Honest(m) BY <1>1, <1>2, <1>3, <1>7 DEF Honest, Listed, Visits
<1>9. \A m : Told(m)' = Told(m) BY <1>2, <1>5, <1>6, <1>8 DEF Told, Ends, Blocks, ReplyBlockNode
<1>10. \A m, p : Asked(m, p)' = Asked(m, p) BY <1>1, <1>2, <1>5 DEF Asked, Way, Distinct
<1>11. \A w : FrameOK(w)' = FrameOK(w) BY <1>1, <1>9, <1>10 DEF FrameOK, Arrives
<1>12. \A n, e : Leads(n, e)' = Leads(n, e) BY DEF Leads
<1>13. QED BY <1>1, <1>2, <1>3, <1>4, <1>9, <1>11, <1>12

-----------------------------------------------------------------------------
(* A node handles the frame w.                                             *)

Step(n, w, r) ==
  /\ n \in Nodes /\ w \in wire /\ w.to = n
  /\ pit' = [pit EXCEPT ![n] = r.entries]
  /\ wire' = (wire \ {w}) \cup r.out
  /\ UNCHANGED <<sc, tool, heard>>

Outcome(n, w, r) ==
  \/ Silent(r, n)
  \/ Arrives(w) /\ \E a : Told(a) /\ a.path = Append(w.m.path, n) /\ Answers(r, n, w.from, a)
  \/ /\ Arrives(w)
     /\ \E o : Asked(o, o.path) /\ o.path = Append(w.m.path, n) /\ Passes(r, n, w.from, w.m.rpts, o)
  \/ Told(w.m) /\ w.from \in Nodes /\ \E e \in Wanted(n, w.m) : Returns(r, n, e, w.m)

LEMMA HandleIs ==
  ASSUME IInv, NEW n \in Nodes, Handle(n)
  PROVE  \E w, r : Step(n, w, r) /\ Outcome(n, w, r)
<1>1. PICK w \in wire :
        /\ w.to = n
        /\ LET m == IF w.m.k = "req" THEN [w.m EXCEPT !.path = Append(@, n)] ELSE w.m
               r == IF ~Understood(m) THEN Ignore(n, {"mangled"})
                    ELSE IF m.k = "req" THEN OnRequest(n, w.from, m) ELSE OnReply(n, m)
           IN /\ pit' = [pit EXCEPT ![n] = r.entries]
              /\ wire' = (wire \ {w}) \cup r.out
              /\ mute' = mute \cup r.why
        /\ UNCHANGED <<sc, tool, heard>>
  BY DEF Handle
<1> DEFINE q == Append(w.m.path, n)
           m == IF w.m.k = "req" THEN [w.m EXCEPT !.path = q] ELSE w.m
           r == IF ~Understood(m) THEN Ignore(n, {"mangled"})
                ELSE IF m.k = "req" THEN OnRequest(n, w.from, m) ELSE OnReply(n, m)
<1>2. Step(n, w, r) BY <1>1 DEF Step
<1>3. FrameOK(w) /\ Read /\ sc \in Scenarios BY DEF IInv, Types
<1>4. CASE ~Understood(m)
  <2>1. r = Ignore(n, {"mangled"}) BY <1>4
  <2> HIDE DEF r
  <2>2. Outcome(n, w, r) BY <2>1 DEF Outcome, Silent, Ignore, Effect
  <2>3. QED BY <1>2, <2>2
<1>5. CASE Understood(m) /\ Arrives(w)
  <2>1. Asked(w.m, w.m.path) /\ w.m.k = "req" BY <1>5 DEF Arrives, Asked
  <2>2. q \in Seq(Nodes) BY <2>1, AppendProperties DEF Asked
  <2> HIDE DEF q
  <2>3. m = [w.m EXCEPT !.path = q] BY <2>1
  <2>4. Shape(w.m) BY <2>1 DEF Asked, Typed
  <2>5. /\ Shape(m) /\ m.path = q /\ m.k = w.m.k /\ m.hop = w.m.hop /\ m.skip = w.m.skip /\ m.rpts = w.m.rpts
        /\ m.by = w.m.by /\ m.blk = w.m.blk /\ m.req = w.m.req /\ m.code = w.m.code /\ m.fatal = w.m.fatal
        /\ m.hdr = w.m.hdr /\ m.val = w.m.val
    BY <2>3, <2>4 DEF Shape, Fields
  <2>6. r = OnRequest(n, w.from, m) BY <1>5, <2>1, <2>5
  <2> HIDE DEF m, r
  <2>7. Asked(m, w.m.path)
    <3>1. Typed(w.m) BY <2>1 DEF Asked
    <3>2. m.by \in Nodes \cup {Nobody} BY <2>1, <2>5 DEF Asked
    <3>3. m.hdr \in 0 .. 255 /\ m.rpts \in Seq(Nodes) BY <3>1, <2>5 DEF Typed
    <3>4. Typed(m) BY <3>1, <3>2, <3>3, <2>2, <2>5, TypedFrom
    <3>5. QED BY <3>4, <2>1, <2>5 DEF Asked
  <2>8. AtNode(n, m, w.m.path)
    <3>1. w.m.path = <<>> => n = sc.home BY <1>1, <1>5 DEF Arrives
    <3>2. QED BY <3>1, <1>3, <2>5, <2>7 DEF AtNode, q
  <2>9. Gives(r, n, w.from, m) BY <2>6, <2>8, OnRequestGives
  <2>10. Outcome(n, w, r)
    <3>1. CASE Silent(r, n) BY <3>1 DEF Outcome
    <3>2. CASE \E a : Told(a) /\ a.path = m.path /\ Answers(r, n, w.from, a) BY <3>2, <1>5, <2>5 DEF Outcome, q
    <3>3. CASE \E o : Asked(o, m.path) /\ o.path = m.path /\ Passes(r, n, w.from, m.rpts, o)
      <4>1. PICK o : Asked(o, m.path) /\ o.path = m.path /\ Passes(r, n, w.from, m.rpts, o) BY <3>3
      <4>2. Asked(o, o.path) /\ o.path = q /\ Passes(r, n, w.from, w.m.rpts, o) BY <4>1, <2>5
      <4>3. QED BY <4>2, <1>5 DEF Outcome, q
    <3>4. QED BY <2>9, <3>1, <3>2, <3>3 DEF Gives
  <2>11. QED BY <1>2, <2>10
<1>6. CASE Understood(m) /\ Told(w.m) /\ w.from \in Nodes
  <2>1. m = w.m /\ r = OnReply(n, w.m) BY <1>6 DEF Told
  <2> HIDE DEF m, r
  <2>2. Outcome(n, w, r) BY <1>6, <2>1, OnReplyGives DEF Outcome
  <2>3. QED BY <1>2, <2>2
<1>7. QED BY <1>3, <1>4, <1>5, <1>6 DEF FrameOK

\* The frames and the entries there are after the step.
LEMMA StepHas ==
  ASSUME IInv, NEW n, NEW w, NEW r, Step(n, w, r)
  PROVE  /\ n \in Nodes /\ w \in wire /\ w.to = n
         /\ \A k \in Nodes : pit'[k] = IF k = n THEN r.entries ELSE pit[k]
         /\ DOMAIN pit' = Nodes /\ pit' = [k \in Nodes |-> pit'[k]]
         /\ \A x \in wire' : (x \in wire /\ x # w) \/ x \in r.out
         /\ sc' = sc /\ tool' = tool /\ heard' = heard
<1>1. DOMAIN pit = Nodes /\ pit = [k \in Nodes |-> pit[k]] BY DEF IInv, Types
<1>2. QED BY <1>1 DEF Step

\* What a step may put at a node, or send: the cases of Outcome, as what they
\* say of an entry and of a frame.
NewEntry(n, w, e) == Arrives(w) /\ e = [key |-> w.m.rpts, down |-> w.from]
Sends(n, w, x) ==
  \/ /\ Arrives(w) /\ Told(x.m) /\ x.m.path = Append(w.m.path, n)
     /\ x.from = n /\ x.to = w.from /\ x.copy = 1
  \/ /\ Arrives(w) /\ Asked(x.m, x.m.path) /\ x.m.path = Append(w.m.path, n)
     /\ x.from = n /\ x.to \in Nodes /\ x.copy \in 1 .. 2
  \/ /\ Told(w.m) /\ x.m = w.m /\ x.from = n /\ x.copy = 1
     /\ \E e \in Wanted(n, w.m) : x.to = e.down

LEMMA StepAdds ==
  ASSUME IInv, NEW n, NEW w, NEW r, Step(n, w, r), Outcome(n, w, r)
  PROVE  /\ \A e \in r.entries : e \in pit[n] \/ NewEntry(n, w, e)
         /\ \A x \in r.out : Sends(n, w, x)
<1>1. n \in Nodes /\ sc \in Scenarios BY DEF Step, IInv, Types
<1>2. CASE Silent(r, n) BY <1>2 DEF Silent
<1>3. ASSUME Arrives(w), NEW a, Told(a), a.path = Append(w.m.path, n), Answers(r, n, w.from, a)
      PROVE  (\A e \in r.entries : e \in pit[n]) /\ \A x \in r.out : Sends(n, w, x)
  BY <1>3 DEF Answers, Sends
<1>4. ASSUME Arrives(w), NEW o, Asked(o, o.path), o.path = Append(w.m.path, n), Passes(r, n, w.from, w.m.rpts, o)
      PROVE  /\ \A e \in r.entries : e \in pit[n] \/ NewEntry(n, w, e)
             /\ \A x \in r.out : Sends(n, w, x)
  <2>1. \A e \in r.entries : e \in pit[n] \/ NewEntry(n, w, e) BY <1>4 DEF Passes, NewEntry
  <2>2. ASSUME NEW x \in r.out PROVE Sends(n, w, x)
    <3>1. PICK t \in Targets(n, w.from) : x = [from |-> n, to |-> t.to, copy |-> t.copy, m |-> o]
      BY <1>4, <2>2 DEF Passes
    <3>2. t.to \in Nodes /\ t.copy \in 1 .. 2 BY <1>1, TargetsAre
    <3>3. x.from = n /\ x.to \in Nodes /\ x.copy \in 1 .. 2 /\ x.m = o BY <3>1, <3>2
    <3>4. QED BY <1>4, <3>3 DEF Sends
  <2>3. QED BY <2>1, <2>2
<1>5. ASSUME Told(w.m), NEW e \in Wanted(n, w.m), Returns(r, n, e, w.m)
      PROVE  (\A d \in r.entries : d \in pit[n]) /\ \A x \in r.out : Sends(n, w, x)
  <2>1. \A x \in r.out : x.m = w.m /\ x.from = n /\ x.copy = 1 /\ x.to = e.down BY <1>5 DEF Returns
  <2>2. QED BY <1>5, <2>1 DEF Returns, Sends
<1>6. QED BY <1>2, <1>3, <1>4, <1>5 DEF Outcome

LEMMA ArrivesFrom ==
  ASSUME sc \in Scenarios, NEW w, Arrives(w)
  PROVE  /\ w.m.path \in Seq(Nodes) /\ w.m.rpts \in Seq(Nodes)
         /\ w.from \in Nodes \cup {Tool}
         /\ w.from = Tool <=> w.m.path = <<>>
         /\ w.to \in Nodes
<1>1. w.m.path \in Seq(Nodes) /\ w.m.rpts \in Seq(Nodes) /\ w.to \in Nodes BY DEF Arrives, Asked, Typed
<1>2. w.m.path # <<>> => w.from \in Nodes
  <2>1. SUFFICES ASSUME w.m.path # <<>> PROVE w.from \in Nodes OBVIOUS
  <2>2. Len(w.m.path) \in Nat \ {0} BY <1>1, <2>1, EmptySeq
  <2>3. w.m.path[Len(w.m.path)] \in Nodes BY <1>1, <2>2, ElementOfSeq
  <2>4. QED BY <2>1, <2>3 DEF Arrives
<1>3. w.m.path = <<>> => w.from = Tool BY DEF Arrives
<1>4. Tool \notin Nodes BY NodeIs
<1>5. QED BY <1>1, <1>2, <1>3, <1>4

LEMMA StepTypes ==
  ASSUME IInv, NEW n, NEW w, NEW r, Step(n, w, r), Outcome(n, w, r)
  PROVE  Types'
<1> DEFINE ok(e) == e.key \in Seq(Nodes) /\ e.down \in Nodes \cup {Tool}
<1>1. /\ n \in Nodes /\ w \in wire
      /\ \A k \in Nodes : pit'[k] = IF k = n THEN r.entries ELSE pit[k]
      /\ DOMAIN pit' = Nodes /\ pit' = [k \in Nodes |-> pit'[k]]
      /\ \A x \in wire' : (x \in wire /\ x # w) \/ x \in r.out
      /\ sc' = sc /\ tool' = tool /\ heard' = heard
  BY StepHas
<1>2. /\ sc \in Scenarios /\ tool \in {"idle", "waiting", "gone"}
      /\ \A k \in Nodes : \A e \in pit[k] : ok(e)
      /\ Read
      /\ \A x \in wire : FrameOK(x)
      /\ heard = <<>> \/ \E m : heard = <<m>> /\ Told(m) /\ m.req
  BY <1>1 DEF IInv, Types
<1>3. (\A e \in r.entries : e \in pit[n] \/ NewEntry(n, w, e)) /\ \A x \in r.out : Sends(n, w, x) BY StepAdds
<1>4. ASSUME NEW e, NewEntry(n, w, e) PROVE ok(e)
  <2>1. Arrives(w) /\ e.key = w.m.rpts /\ e.down = w.from BY <1>4 DEF NewEntry
  <2>2. QED BY <1>2, <2>1, ArrivesFrom
<1>5. ASSUME NEW x, Sends(n, w, x) PROVE FrameOK(x)
  <2>1. CASE Arrives(w) /\ Told(x.m) /\ x.from = n /\ x.to = w.from /\ x.copy = 1
    BY <1>1, <1>2, <2>1, ArrivesFrom DEF FrameOK
  <2>2. CASE /\ Arrives(w) /\ Asked(x.m, x.m.path) /\ x.m.path = Append(w.m.path, n)
             /\ x.from = n /\ x.to \in Nodes /\ x.copy \in 1 .. 2
    <3>1. w.m.path \in Seq(Nodes) BY <1>2, <2>2, ArrivesFrom
    <3>2. x.m.path # <<>> /\ x.m.path[Len(x.m.path)] = n BY <1>1, <3>1, <2>2, AppendProperties
    <3>3. QED BY <2>2, <3>2 DEF FrameOK, Arrives
  <2>3. CASE Told(w.m) /\ x.m = w.m /\ x.from = n /\ x.copy = 1 /\ \E e \in Wanted(n, w.m) : x.to = e.down
    <3>1. PICK e \in Wanted(n, w.m) : x.to = e.down BY <2>3
    <3>2. e \in pit[n] BY WantedIs
    <3>3. e.down \in Nodes \cup {Tool} BY <1>1, <1>2, <3>2
    <3>4. QED BY <1>1, <2>3, <3>1, <3>3 DEF FrameOK
  <2>4. QED BY <1>5, <2>1, <2>2, <2>3 DEF Sends
<1>6. ASSUME NEW k \in Nodes, NEW e \in pit'[k] PROVE ok(e)
  <2>1. CASE k = n BY <1>1, <1>2, <1>3, <1>4, <1>6, <2>1
  <2>2. CASE k # n BY <1>1, <1>2, <1>6, <2>2
  <2>3. QED BY <2>1, <2>2
<1>7. \A x \in wire' : FrameOK(x) BY <1>1, <1>2, <1>3, <1>5
<1>8. /\ Nodes' = Nodes /\ Read' = Read /\ (\A m : Told(m)' = Told(m)) /\ \A x : FrameOK(x)' = FrameOK(x)
  BY <1>1, ScenarioStays
<1>9. QED BY <1>1, <1>2, <1>6, <1>7, <1>8 DEF Types

LEMMA StepOnePlace ==
  ASSUME IInv, NEW n, NEW w, NEW r, Step(n, w, r), Outcome(n, w, r)
  PROVE  OnePlace'
<1>1. /\ n \in Nodes /\ w \in wire /\ w.to = n
      /\ \A k \in Nodes : pit'[k] = IF k = n THEN r.entries ELSE pit[k]
      /\ \A x \in wire' : (x \in wire /\ x # w) \/ x \in r.out
      /\ sc' = sc /\ heard' = heard
  BY StepHas
<1>2. sc \in Scenarios /\ OnePlace BY DEF IInv, Types
<1>3. Nodes' = Nodes BY <1>1, ScenarioStays
<1>4. Tool \notin Nodes BY <1>2, NodeIs
<1>5. (OfTool(w) <=> w.from = Tool) /\ n # Tool BY <1>1, <1>4 DEF OfTool
<1>6. OfTool(w) => /\ \A x \in wire : x # w => ~OfTool(x)
                   /\ \A k \in Nodes : \A d \in pit[k] : d.down # Tool
                   /\ heard = <<>>
  BY <1>1, <1>2 DEF OnePlace
<1>7. SUFFICES /\ \A x, y \in wire' : OfTool(x) /\ OfTool(y) => x = y
               /\ \A k, l \in Nodes : \A d \in pit'[k], e \in pit'[l] : d.down = Tool /\ e.down = Tool => k = l /\ d = e
               /\ \A x \in wire', k \in Nodes : OfTool(x) => \A e \in pit'[k] : e.down # Tool
               /\ heard # <<>> => /\ \A x \in wire' : ~OfTool(x)
                                  /\ \A k \in Nodes : \A e \in pit'[k] : e.down # Tool
  BY <1>1, <1>3 DEF OnePlace, OfTool
<1>8. CASE Silent(r, n)
  <2>1. (\A k \in Nodes : pit'[k] = pit[k]) /\ \A x \in wire' : x \in wire BY <1>1, <1>8 DEF Silent
  <2>2. QED BY <2>1, <1>2 DEF OnePlace
<1>9. ASSUME NEW a, Answers(r, n, w.from, a)
      PROVE  /\ \A x, y \in wire' : OfTool(x) /\ OfTool(y) => x = y
             /\ \A k, l \in Nodes : \A d \in pit'[k], e \in pit'[l] : d.down = Tool /\ e.down = Tool => k = l /\ d = e
             /\ \A x \in wire', k \in Nodes : OfTool(x) => \A e \in pit'[k] : e.down # Tool
             /\ heard # <<>> => /\ \A x \in wire' : ~OfTool(x)
                                /\ \A k \in Nodes : \A e \in pit'[k] : e.down # Tool
  <2> DEFINE x0 == [from |-> n, to |-> w.from, copy |-> 1, m |-> a]
  <2>1. OfTool(x0) => OfTool(w) BY <1>5 DEF OfTool
  <2>2. \A x \in wire' : (x \in wire /\ x # w) \/ x = x0 BY <1>1, <1>9 DEF Answers
  <2>3. \A k \in Nodes : pit'[k] = pit[k] BY <1>1, <1>9 DEF Answers
  <2> HIDE DEF x0
  <2>4. QED BY <2>1, <2>2, <2>3, <1>2, <1>6 DEF OnePlace
<1>10. ASSUME NEW o, Passes(r, n, w.from, w.m.rpts, o)
       PROVE  /\ \A x, y \in wire' : OfTool(x) /\ OfTool(y) => x = y
              /\ \A k, l \in Nodes : \A d \in pit'[k], e \in pit'[l] : d.down = Tool /\ e.down = Tool => k = l /\ d = e
              /\ \A x \in wire', k \in Nodes : OfTool(x) => \A e \in pit'[k] : e.down # Tool
              /\ heard # <<>> => /\ \A x \in wire' : ~OfTool(x)
                                 /\ \A k \in Nodes : \A e \in pit'[k] : e.down # Tool
  <2> DEFINE e0 == [key |-> w.m.rpts, down |-> w.from]
  <2>1. e0.down = Tool => OfTool(w) BY <1>5
  <2>2. \A x \in r.out : ~OfTool(x)
    <3> TAKE x \in r.out
    <3>1. PICK t \in Targets(n, w.from) : x = [from |-> n, to |-> t.to, copy |-> t.copy, m |-> o] BY <1>10 DEF Passes
    <3>2. t.to \in Nodes BY <1>1, <1>2, TargetsAre
    <3>3. x.from = n /\ x.to \in Nodes BY <3>1, <3>2
    <3>4. QED BY <3>3, <1>4, <1>5 DEF OfTool
  <2>3. \A x \in wire' : OfTool(x) => x \in wire /\ x # w BY <1>1, <2>2
  <2>4. \A k \in Nodes : \A d \in pit'[k] : d \in pit[k] \/ (k = n /\ d = e0) BY <1>1, <1>10 DEF Passes
  <2> HIDE DEF e0
  <2>5. QED BY <2>1, <2>3, <2>4, <1>2, <1>6 DEF OnePlace
<1>11. ASSUME NEW e0 \in Wanted(n, w.m), w.from \in Nodes, Returns(r, n, e0, w.m)
       PROVE  /\ \A x, y \in wire' : OfTool(x) /\ OfTool(y) => x = y
              /\ \A k, l \in Nodes : \A d \in pit'[k], e \in pit'[l] : d.down = Tool /\ e.down = Tool => k = l /\ d = e
              /\ \A x \in wire', k \in Nodes : OfTool(x) => \A e \in pit'[k] : e.down # Tool
              /\ heard # <<>> => /\ \A x \in wire' : ~OfTool(x)
                                 /\ \A k \in Nodes : \A e \in pit'[k] : e.down # Tool
  <2> DEFINE x0 == [from |-> n, to |-> e0.down, copy |-> 1, m |-> w.m]
  <2>1. OfTool(x0) <=> e0.down = Tool BY <1>5 DEF OfTool
  <2>2. \A x \in wire' : x \in wire \/ x = x0 BY <1>1, <1>11 DEF Returns
  <2>3. \A k \in Nodes : \A d \in pit'[k] : d \in pit[k] /\ ~(k = n /\ d = e0) BY <1>1, <1>11 DEF Returns
  <2>4. e0 \in pit[n] BY WantedIs
  <2> HIDE DEF x0
  <2>5. e0.down = Tool => /\ \A x \in wire : ~OfTool(x)
                          /\ \A k \in Nodes : \A d \in pit'[k] : d.down # Tool
                          /\ heard = <<>>
    BY <2>3, <2>4, <1>1, <1>2 DEF OnePlace
  <2>6. CASE e0.down = Tool
    <3>1. \A x \in wire' : OfTool(x) => x = x0 BY <2>2, <2>5, <2>6
    <3>2. QED BY <3>1, <2>5, <2>6
  <2>7. CASE e0.down # Tool
    <3>1. \A x \in wire' : OfTool(x) => x \in wire BY <2>1, <2>2, <2>7
    <3>2. QED BY <3>1, <2>3, <1>2 DEF OnePlace
  <2>8. QED BY <2>6, <2>7
<1>12. QED BY <1>8, <1>9, <1>10, <1>11 DEF Outcome

-----------------------------------------------------------------------------
(* The ways.                                                               *)

LEMMA LinkStays ==
  ASSUME NEW S, NEW p \in Seq(S), NEW x \in S, NEW n, NEW d, LinkOf(p, n, d)
  PROVE  LinkOf(Append(p, x), n, d)
<1>1. PICK i \in DOMAIN p : p[i] = n /\ d = IF i = 1 THEN Tool ELSE p[i - 1] BY DEF LinkOf
<1>2. /\ Append(p, x) \in Seq(S) /\ Len(Append(p, x)) = Len(p) + 1 /\ Len(p) \in Nat
      /\ \A j \in 1 .. Len(p) : Append(p, x)[j] = p[j]
  BY AppendProperties
<1>3. i \in 1 .. Len(p) /\ i \in DOMAIN Append(p, x) BY <1>1, <1>2
<1>4. i # 1 => i - 1 \in 1 .. Len(p) BY <1>3
<1>5. Append(p, x)[i] = n /\ d = IF i = 1 THEN Tool ELSE Append(p, x)[i - 1] BY <1>1, <1>2, <1>3, <1>4
<1>6. QED BY <1>3, <1>5 DEF LinkOf

LEMMA LinkMade ==
  ASSUME sc \in Scenarios, NEW w, Arrives(w), NEW n \in Nodes
  PROVE  LinkOf(Append(w.m.path, n), n, w.from)
<1> DEFINE p == w.m.path
           q == Append(p, n)
<1>1. p \in Seq(Nodes) /\ (w.from = Tool <=> p = <<>>) BY ArrivesFrom
<1>2. /\ q \in Seq(Nodes) /\ Len(q) = Len(p) + 1 /\ Len(p) \in Nat /\ q[Len(p) + 1] = n
      /\ \A j \in 1 .. Len(p) : q[j] = p[j]
  BY <1>1, AppendProperties
<1> HIDE DEF q
<1>3. Len(p) + 1 \in DOMAIN q BY <1>2
<1>4. CASE p = <<>>
  <2>1. Len(p) = 0 BY <1>4, EmptySeq
  <2>2. w.from = Tool /\ Len(p) + 1 = 1 BY <1>1, <1>4, <2>1
  <2>3. QED BY <2>2, <1>2, <1>3 DEF LinkOf, q
<1>5. CASE p # <<>>
  <2>1. Len(p) \in 1 .. Len(p) /\ Len(p) + 1 # 1 /\ (Len(p) + 1) - 1 = Len(p) BY <1>1, <1>2, <1>5, EmptySeq
  <2>2. w.from = p[Len(p)] BY <1>5 DEF Arrives
  <2>3. w.from = q[(Len(p) + 1) - 1] BY <2>1, <2>2, <1>2
  <2>4. QED BY <2>1, <2>3, <1>2, <1>3 DEF LinkOf, q
<1>6. QED BY <1>4, <1>5

LEMMA StepOneWay ==
  ASSUME IInv, NEW n, NEW w, NEW r, Step(n, w, r), Outcome(n, w, r)
  PROVE  OneWay'
<1>1. /\ n \in Nodes /\ w \in wire
      /\ \A k \in Nodes : pit'[k] = IF k = n THEN r.entries ELSE pit[k]
      /\ \A x \in wire' : (x \in wire /\ x # w) \/ x \in r.out
      /\ sc' = sc
  BY StepHas
<1>2. sc \in Scenarios /\ OneWay BY DEF IInv, Types
<1>3. Nodes' = Nodes /\ FullAsked' = FullAsked BY <1>1, ScenarioStays
<1>4. SUFFICES ASSUME ~FullAsked
               PROVE  /\ \A x, y \in wire' : x = y
                      /\ \A x \in wire', k \in Nodes : \A e \in pit'[k] : LinkOf(x.m.path, k, e.down)
  BY <1>3 DEF OneWay, LinkOf
<1>5. /\ \A x \in wire' : x \in r.out
      /\ \A k \in Nodes : \A e \in pit[k] : LinkOf(w.m.path, k, e.down)
  BY <1>1, <1>2, <1>4 DEF OneWay
<1>6. \A x, y \in r.out : x = y
  <2>1. \A t, u \in Targets(n, w.from) : t = u BY <1>1, <1>2, <1>4, TargetsAre
  <2>2. \A o : Passes(r, n, w.from, w.m.rpts, o) => \A x, y \in r.out : x = y BY <2>1 DEF Passes
  <2>3. QED BY <2>2 DEF Outcome, Silent, Answers, Returns
<1>7. (\A e \in r.entries : e \in pit[n] \/ NewEntry(n, w, e)) /\ \A x \in r.out : Sends(n, w, x) BY StepAdds
<1>8. ASSUME NEW x \in wire', NEW k \in Nodes, NEW e \in pit'[k] PROVE LinkOf(x.m.path, k, e.down)
  <2>1. Sends(n, w, x) /\ (e \in pit[k] \/ (k = n /\ NewEntry(n, w, e))) BY <1>1, <1>5, <1>7, <1>8
  <2>2. CASE Arrives(w) /\ x.m.path = Append(w.m.path, n)
    <3>1. w.m.path \in Seq(Nodes) BY <1>2, <2>2, ArrivesFrom
    <3>2. CASE e \in pit[k]
      <4>1. LinkOf(w.m.path, k, e.down) BY <1>5, <3>2
      <4>2. LinkOf(Append(w.m.path, n), k, e.down) BY <4>1, <3>1, <1>1, LinkStays
      <4>3. QED BY <4>2, <2>2
    <3>3. CASE k = n /\ NewEntry(n, w, e)
      <4>1. e.down = w.from BY <3>3 DEF NewEntry
      <4>2. QED BY <4>1, <3>3, <2>2, <1>1, <1>2, LinkMade
    <3>4. QED BY <2>1, <3>2, <3>3
  <2>3. CASE Told(w.m) /\ x.m = w.m
    <3>1. ~Arrives(w) BY <2>3 DEF Told, Arrives, Asked
    <3>2. e \in pit[k] BY <2>1, <3>1 DEF NewEntry
    <3>3. QED BY <3>2, <2>3, <1>5
  <2>4. QED BY <2>1, <2>2, <2>3 DEF Sends
<1>9. QED BY <1>5, <1>6, <1>8

LEMMA StepKeyed ==
  ASSUME IInv, NEW n, NEW w, NEW r, Step(n, w, r), Outcome(n, w, r)
  PROVE  Keyed'
<1>1. /\ n \in Nodes /\ w \in wire /\ w.to = n
      /\ \A k \in Nodes : pit'[k] = IF k = n THEN r.entries ELSE pit[k]
      /\ sc' = sc
  BY StepHas
<1>2. sc \in Scenarios /\ Keyed BY DEF IInv, Types
<1>3. /\ Nodes' = Nodes /\ FullAsked' = FullAsked /\ SkipHops' = SkipHops
      /\ \A k, e : Leads(k, e)' = Leads(k, e)
  BY <1>1, ScenarioStays
<1>4. SUFFICES ASSUME FullAsked, SkipHops = 0, NEW k \in Nodes, NEW e \in pit'[k] PROVE Leads(k, e)
  BY <1>3 DEF Keyed
<1>5. \A d \in r.entries : d \in pit[n] \/ NewEntry(n, w, d) BY StepAdds
<1>6. CASE e \in pit[k] BY <1>2, <1>4, <1>6 DEF Keyed
<1>7. CASE k = n /\ NewEntry(n, w, e)
  <2>1. Arrives(w) /\ e.key = w.m.rpts /\ e.down = w.from BY <1>7 DEF NewEntry
  <2>2. w.m.path \in Seq(Nodes) /\ w.m.rpts = Way(w.m.path) BY <2>1 DEF Arrives, Asked
  <2>3. e.key = w.m.path BY <2>1, <2>2, <1>4, WayIs
  <2>4. IF w.m.path = <<>> THEN w.from = Tool /\ w.to = sc.home ELSE w.from = w.m.path[Len(w.m.path)]
    BY <2>1 DEF Arrives
  <2>5. QED BY <2>1, <2>3, <2>4, <1>1, <1>7 DEF Leads
<1>8. QED BY <1>1, <1>4, <1>5, <1>6, <1>7

LEMMA NotSkipped == ~Has("-s") => SkipHops = 0
BY DEF Has, SkipHops, Value

LEMMA StepBackWay ==
  ASSUME IInv, NEW n, NEW w, NEW r, Step(n, w, r), Outcome(n, w, r)
  PROVE  BackWay'
<1>1. /\ n \in Nodes /\ w \in wire
      /\ \A x \in wire' : (x \in wire /\ x # w) \/ x \in r.out
      /\ sc' = sc
  BY StepHas
<1>2. sc \in Scenarios /\ BackWay /\ OneWay /\ Keyed BY DEF IInv, Types
<1>3. FullAsked' = FullAsked /\ Has("-s")' = Has("-s") BY <1>1, ScenarioStays
<1>4. SUFFICES ASSUME ~(FullAsked /\ Has("-s")), NEW x \in wire', x.m.k = "rep"
               PROVE  LinkOf(x.m.path, x.from, x.to)
  BY <1>3 DEF BackWay, LinkOf
<1>5. CASE x \in wire BY <1>2, <1>4, <1>5 DEF BackWay
<1>6. CASE x \in r.out
  <2>1. Sends(n, w, x) BY <1>6, StepAdds
  <2>2. CASE Arrives(w) /\ x.m.path = Append(w.m.path, n) /\ x.from = n /\ x.to = w.from
    BY <2>2, <1>1, <1>2, LinkMade
  <2>3. ~Asked(x.m, x.m.path) BY <1>4 DEF Asked
  <2>4. ASSUME Told(w.m), x.m = w.m, x.from = n, NEW e \in Wanted(n, w.m), x.to = e.down
        PROVE  LinkOf(x.m.path, x.from, x.to)
    <3>1. e \in pit[n] BY WantedIs
    <3>2. CASE ~FullAsked BY <3>1, <3>2, <2>4, <1>1, <1>2 DEF OneWay
    <3>3. CASE FullAsked /\ ~Has("-s")
      <4>1. SkipHops = 0 BY <3>3, NotSkipped
      <4>2. Leads(n, e) BY <4>1, <3>1, <3>3, <1>1, <1>2 DEF Keyed
      <4>3. LinkOf(w.m.path, n, e.down) BY <4>1, <4>2, <2>4, LeadsBack
      <4>4. QED BY <4>3, <2>4
    <3>4. QED BY <3>2, <3>3, <1>4
  <2>5. QED BY <2>1, <2>2, <2>3, <2>4 DEF Sends
<1>7. QED BY <1>1, <1>5, <1>6

LEMMA HandleHolds ==
  ASSUME IInv, NEW n \in Nodes, Handle(n) PROVE IInv'
<1>1. PICK w, r : Step(n, w, r) /\ Outcome(n, w, r) BY HandleIs
<1>2. Types' /\ OnePlace' /\ OneWay' /\ Keyed' /\ BackWay'
  BY <1>1, StepTypes, StepOnePlace, StepOneWay, StepKeyed, StepBackWay
<1>3. Quiet'
  <2>1. w \in wire /\ tool' = tool BY <1>1 DEF Step
  <2>2. tool # "idle" BY <2>1 DEF IInv, Quiet
  <2>3. QED BY <2>1, <2>2 DEF Quiet
<1>4. QED BY <1>2, <1>3 DEF IInv

-----------------------------------------------------------------------------
(* The other steps.                                                        *)

\* Frames and entries may go.
LEMMA LessHolds ==
  ASSUME IInv, sc' = sc, heard' = heard, wire' \subseteq wire,
         DOMAIN pit' = Nodes, pit' = [k \in Nodes |-> pit'[k]], \A k \in Nodes : pit'[k] \subseteq pit[k],
         tool' \in {"idle", "waiting", "gone"}, tool' = "idle" => tool = "idle"
  PROVE  IInv'
<1>1. /\ Nodes' = Nodes /\ SkipHops' = SkipHops /\ Read' = Read
      /\ FullAsked' = FullAsked /\ Has("-s")' = Has("-s")
      /\ \A m : Told(m)' = Told(m)
      /\ \A w : FrameOK(w)' = FrameOK(w)
      /\ \A n, e : Leads(n, e)' = Leads(n, e)
  BY ScenarioStays
<1>2. Types' BY <1>1 DEF IInv, Types
<1>3. Quiet' BY <1>1 DEF IInv, Quiet
<1>4. OnePlace' BY <1>1 DEF IInv, OnePlace, OfTool
<1>5. OneWay' BY <1>1 DEF IInv, OneWay, LinkOf
<1>6. Keyed' BY <1>1 DEF IInv, Keyed
<1>7. BackWay' BY <1>1 DEF IInv, BackWay, LinkOf
<1>8. QED BY <1>2, <1>3, <1>4, <1>5, <1>6, <1>7 DEF IInv

LEMMA QuestionIs ==
  ASSUME sc \in Scenarios, Read PROVE Asked(Question, <<>>) /\ Question.path = <<>>
<1> DEFINE q == Question
<1>1. q.path = <<>> BY DEF Question
<1>2. /\ q.k = "req" /\ q.hop = HopLimit /\ q.skip = SkipHops /\ q.rpts = <<>> /\ q.by = Nobody /\ q.blk = "none"
      /\ q.req = TRUE /\ q.code = "NO_ERROR" /\ q.fatal = FALSE /\ q.hdr = 16 /\ q.val \in {"none", sc.signed}
  BY DEF Question, HopLimit, SkipHops
<1>3. Shape(q) BY DEF Question, Shape, Fields
<1> HIDE DEF q
<1>4. HopLimit \in 1 .. 255 /\ SkipHops \in 0 .. 15 BY DEF Read
<1>5. <<>> \in Seq(Nodes) /\ Len(<<>>) = 0 BY EmptySeq
<1>6. Typed(q) BY <1>1, <1>2, <1>3, <1>4, <1>5 DEF Typed
<1>7. Way(<<>>) = <<>>
  <2>1. SkipHops \in Nat /\ Len(<<>>) <= SkipHops BY <1>4, <1>5
  <2>2. QED BY <1>5, <2>1, WayIs
<1>8. Distinct(<<>>) BY DEF Distinct
<1>9. q.hop = HopLimit - Len(<<>>) BY <1>2, <1>4, <1>5
<1>10. q.skip = (IF Len(<<>>) < SkipHops THEN SkipHops - Len(<<>>) ELSE 0) BY <1>2, <1>4, <1>5
<1>11. Asked(q, <<>>) BY <1>2, <1>5, <1>6, <1>7, <1>8, <1>9, <1>10 DEF Asked
<1>12. QED BY <1>1, <1>11 DEF q

LEMMA AskHolds ==
  ASSUME IInv, Ask PROVE IInv'
<1>1. tool = "idle" /\ sc' = sc /\ heard' = heard /\ pit' = pit BY DEF Ask
<1>2. CASE ~ArgumentsRead
  <2>1. tool' = "gone" /\ wire' = wire BY <1>2 DEF Ask
  <2>2. DOMAIN pit = Nodes /\ pit = [k \in Nodes |-> pit[k]] BY DEF IInv, Types
  <2>3. QED BY <1>1, <2>1, <2>2, LessHolds
<1>3. CASE ArgumentsRead
  <2> DEFINE x == [from |-> Tool, to |-> sc.home, copy |-> 1, m |-> Question]
  <2>1. tool' = "waiting" /\ wire' = {x} BY <1>3 DEF Ask
  <2>2. heard = <<>> /\ \A n \in Nodes : pit[n] = {} BY <1>1 DEF IInv, Quiet
  <2>3. Read /\ sc \in Scenarios BY <1>3, ReadIs DEF IInv, Types
  <2>4. Asked(x.m, x.m.path) /\ x.m.path = <<>> BY <2>3, QuestionIs
  <2>5. x.from = Tool /\ x.to = sc.home /\ x.copy = 1 OBVIOUS
  <2> HIDE DEF x
  <2>6. Arrives(x) /\ FrameOK(x) BY <2>3, <2>4, <2>5, NodeIs DEF Arrives, FrameOK
  <2>7. /\ Nodes' = Nodes /\ SkipHops' = SkipHops /\ Read' = Read
        /\ FullAsked' = FullAsked /\ Has("-s")' = Has("-s")
        /\ \A w : FrameOK(w)' = FrameOK(w)
    BY <1>1, ScenarioStays
  <2>8. Types' BY <1>1, <2>1, <2>2, <2>3, <2>6, <2>7 DEF IInv, Types
  <2>9. Quiet' BY <2>1 DEF Quiet
  <2>10. OnePlace' BY <1>1, <2>1, <2>2, <2>7 DEF OnePlace
  <2>11. OneWay' /\ Keyed' BY <1>1, <2>1, <2>2, <2>7 DEF OneWay, Keyed
  <2>12. BackWay' BY <2>1, <2>4 DEF BackWay, Asked
  <2>13. QED BY <2>8, <2>9, <2>10, <2>11, <2>12 DEF IInv
<1>4. QED BY <1>2, <1>3

LEMMA HearHolds ==
  ASSUME IInv, Hear PROVE IInv'
<1>1. PICK w \in wire :
        /\ w.to = Tool
        /\ wire' = wire \ {w}
        /\ heard' = IF Printed(w.m) THEN Append(heard, w.m) ELSE heard
  BY DEF Hear
<1>2. sc' = sc /\ tool' = tool /\ pit' = pit BY DEF Hear
<1>3. DOMAIN pit = Nodes /\ pit = [k \in Nodes |-> pit[k]] /\ tool \in {"idle", "waiting", "gone"} BY DEF IInv, Types
<1>4. CASE ~Printed(w.m)
  <2>1. heard' = heard /\ wire' \subseteq wire BY <1>1, <1>4
  <2>2. QED BY <2>1, <1>2, <1>3, LessHolds
<1>5. CASE Printed(w.m)
  <2>1. FrameOK(w) /\ sc \in Scenarios /\ Read BY DEF IInv, Types
  <2>2. Told(w.m) BY <1>1, <2>1, NodeIs DEF FrameOK, Arrives
  <2>3. w.m.req BY <1>5 DEF Printed
  <2>4. OfTool(w) BY <1>1 DEF OfTool
  <2>5. /\ heard = <<>> /\ \A x \in wire : OfTool(x) => x = w
        /\ \A n \in Nodes : \A e \in pit[n] : e.down # Tool
    BY <2>4 DEF IInv, OnePlace
  <2>6. heard' = <<w.m>> BY <1>1, <1>5, <2>5
  <2>7. /\ Nodes' = Nodes /\ SkipHops' = SkipHops /\ Read' = Read
        /\ FullAsked' = FullAsked /\ Has("-s")' = Has("-s")
        /\ \A m : Told(m)' = Told(m)
        /\ \A x : FrameOK(x)' = FrameOK(x)
        /\ \A n, e : Leads(n, e)' = Leads(n, e)
    BY <1>2, ScenarioStays
  <2>8. Types' BY <1>1, <1>2, <2>1, <2>2, <2>3, <2>6, <2>7 DEF IInv, Types
  <2>9. Quiet'
    <3>1. tool' # "idle" BY <1>2 DEF Hear
    <3>2. QED BY <3>1 DEF Quiet
  <2>10. OnePlace'
    <3>1. \A x \in wire' : ~OfTool(x) BY <1>1, <2>5
    <3>2. \A n \in Nodes : \A e \in pit'[n] : e.down # Tool BY <1>2, <2>5
    <3>3. QED BY <3>1, <3>2, <2>7 DEF OnePlace, OfTool
  <2>11. OneWay' BY <1>1, <1>2, <2>7 DEF IInv, OneWay, LinkOf
  <2>12. Keyed' BY <1>2, <2>7 DEF IInv, Keyed
  <2>13. BackWay' BY <1>1, <2>7 DEF IInv, BackWay, LinkOf
  <2>14. QED BY <2>8, <2>9, <2>10, <2>11, <2>12, <2>13 DEF IInv
<1>6. QED BY <1>4, <1>5

LEMMA ExpireHolds ==
  ASSUME IInv, NEW n \in Nodes, Expire(n) PROVE IInv'
<1>1. DOMAIN pit = Nodes /\ pit = [k \in Nodes |-> pit[k]] /\ tool \in {"idle", "waiting", "gone"} BY DEF IInv, Types
<1>2. PICK e \in pit[n] : pit' = [pit EXCEPT ![n] = @ \ {e}] BY DEF Expire
<1>3. /\ DOMAIN pit' = Nodes /\ pit' = [k \in Nodes |-> pit'[k]]
      /\ \A k \in Nodes : pit'[k] \subseteq pit[k]
  BY <1>1, <1>2
<1>4. sc' = sc /\ tool' = tool /\ heard' = heard /\ wire' = wire BY DEF Expire
<1>5. QED BY <1>1, <1>3, <1>4, LessHolds

LEMMA NextHolds ==
  ASSUME IInv, [Next]_vars PROVE IInv'
<1>1. DOMAIN pit = Nodes /\ pit = [k \in Nodes |-> pit[k]] /\ tool \in {"idle", "waiting", "gone"} BY DEF IInv, Types
<1>2. CASE Ask BY <1>2, AskHolds
<1>3. CASE Hear BY <1>3, HearHolds
<1>4. CASE Leave
  <2>1. tool' = "gone" /\ sc' = sc /\ heard' = heard /\ pit' = pit /\ wire' = wire BY <1>4 DEF Leave
  <2>2. QED BY <1>1, <2>1, LessHolds
<1>5. CASE Lose
  <2>1. tool' = tool /\ sc' = sc /\ heard' = heard /\ pit' = pit /\ wire' \subseteq wire BY <1>5 DEF Lose
  <2>2. QED BY <1>1, <2>1, LessHolds
<1>6. ASSUME NEW n \in Nodes, Handle(n) PROVE IInv' BY <1>6, HandleHolds
<1>7. ASSUME NEW n \in Nodes, Expire(n) PROVE IInv' BY <1>7, ExpireHolds
<1>8. CASE UNCHANGED vars BY <1>1, <1>8, LessHolds DEF vars
<1>9. QED BY <1>2, <1>3, <1>4, <1>5, <1>6, <1>7, <1>8 DEF Next

LEMMA InitHolds == Init => IInv
<1> SUFFICES ASSUME Init PROVE IInv OBVIOUS
<1>1. Types BY DEF Init, Types
<1>2. Quiet /\ OnePlace /\ OneWay /\ Keyed /\ BackWay
  BY DEF Init, Quiet, OnePlace, OneWay, Keyed, BackWay
<1>3. QED BY <1>1, <1>2 DEF IInv

-----------------------------------------------------------------------------
(* The theorems.                                                           *)

LEMMA ShowsWaysKept == IInv => WaysKept
<1> SUFFICES ASSUME IInv PROVE WaysKept OBVIOUS
<1>1. /\ sc \in Scenarios /\ tool \in {"idle", "waiting", "gone"}
      /\ \A n \in Nodes : \A e \in pit[n] : e.key \in Seq(Nodes) /\ e.down \in Nodes \cup {Tool}
      /\ \A w \in wire : FrameOK(w)
      /\ heard = <<>> \/ \E m : heard = <<m>> /\ Told(m) /\ m.req
  BY DEF IInv, Types
<1>2. TypeOK
  <2>1. \A n \in Nodes : \A e \in pit[n] : e.down \in Nodes \cup {Tool} /\ ToSet(e.key) \subseteq Nodes
    <3>1. \A s \in Seq(Nodes) : ToSet(s) \subseteq Nodes BY DEF ToSet
    <3>2. QED BY <1>1, <3>1
  <2>2. ASSUME NEW w \in wire
        PROVE  /\ w.from \in Nodes \cup {Tool} /\ w.to \in Nodes \cup {Tool} /\ w.copy \in 1 .. 2
               /\ w.m.hop \in 0 .. 255 /\ w.m.skip \in 0 .. 15 /\ w.m.hdr \in 0 .. 255
    <3>1. FrameOK(w) BY <1>1
    <3>2. Arrives(w) => w.from \in Nodes \cup {Tool} /\ w.to \in Nodes BY <1>1, ArrivesFrom
    <3>3. Arrives(w) => Typed(w.m) BY DEF Arrives, Asked
    <3>4. Told(w.m) => Typed(w.m) BY DEF Told
    <3>5. Typed(w.m) BY <3>1, <3>3, <3>4 DEF FrameOK
    <3>6. QED BY <3>1, <3>2, <3>5 DEF FrameOK, Typed
  <2>3. QED BY <1>1, <2>1, <2>2 DEF TypeOK
<1>3. NoLap
  <2>1. SUFFICES ASSUME NEW w \in wire, w.m.k = "req", NEW n \in Nodes
                 PROVE  Cardinality({i \in DOMAIN w.m.rpts : w.m.rpts[i] = n}) <= 1
    BY DEF NoLap
  <2> DEFINE V == {i \in DOMAIN w.m.rpts : w.m.rpts[i] = n}
  <2>2. Distinct(w.m.rpts) BY <1>1, <2>1 DEF FrameOK, Arrives, Asked, Told
  <2>3. V = {} \/ \E i : V = {i} BY <2>2 DEF Distinct
  <2>4. Cardinality(V) \in {0, 1} BY <2>3, FS_EmptySet, FS_Singleton
  <2> HIDE DEF V
  <2> DEFINE c == Cardinality(V)
  <2>5. c \in {0, 1} BY <2>4
  <2> HIDE DEF c
  <2>6. c <= 1 BY <2>5
  <2>7. QED BY <2>6 DEF c, V
<1>4. BackWay BY DEF IInv
<1>5. FirstOnly
  <2>1. heard = <<>> \/ \E m : heard = <<m>> BY <1>1
  <2>2. Len(heard) = 0 \/ Len(heard) = 1 BY <2>1
  <2> DEFINE l == Len(heard)
  <2>3. l = 0 \/ l = 1 BY <2>2
  <2> HIDE DEF l
  <2>4. l <= 1 BY <2>3
  <2>5. QED BY <2>4 DEF FirstOnly, l
<1>6. QED BY <1>2, <1>3, <1>4, <1>5 DEF WaysKept

LEMMA ShowsHeardTrue == IInv => HeardTrue
<1> SUFFICES ASSUME IInv PROVE HeardTrue OBVIOUS
<1>1. heard = <<>> \/ \E m : heard = <<m>> /\ Told(m) /\ m.req BY DEF IInv, Types
<1>2. \A m \in ToSet(heard) : Told(m) /\ m.req BY <1>1 DEF ToSet
<1>3. \A m \in ToSet(heard) : Routed(m) /\ Honest(m) BY <1>2 DEF Told
<1>4. QED BY <1>3 DEF HeardTrue, RouteTrue, Truthful

\* Whatever the network and the question: a Request that is stamped goes
\* through no node twice, a Reply goes back over links the Request came by
\* (with the exception that BackWay names), and no more than one Reply passes
\* (cefnetd_incoming_ccninforeq_process, cefnetd_incoming_ccninforep_process).
THEOREM Ways == Spec => []WaysKept
<1>1. IInv /\ [Next]_vars => IInv' BY NextHolds
<1>2. QED BY InitHolds, <1>1, ShowsWaysKept, PTL DEF Spec

\* Whatever the network and the question: the route that ccninfo prints is the
\* way of the Request, and the return code, the loop mark and the cache block
\* say what is the case at the node that answered (ct_results_output).
THEOREM Truth == Spec => []HeardTrue
<1>1. IInv /\ [Next]_vars => IInv' BY NextHolds
<1>2. QED BY InitHolds, <1>1, ShowsHeardTrue, PTL DEF Spec
=============================================================================
