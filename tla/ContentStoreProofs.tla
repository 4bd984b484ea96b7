-------------------------- MODULE ContentStoreProofs --------------------------
(***************************************************************************)
(* Theorems about the content store as cefnetd uses it.  On the way to     *)
(* csmgrd a frame passes the batch, the main task's writes, the pipe, the  *)
(* sending thread and the socket, each of which may give up the rest of    *)
(* what it has: for every size of them csmgrd gets frames in order, each   *)
(* once, and whole unless one was cut.  Neither cache puts an older        *)
(* version in the place of a newer one.  And the cache inside cefnetd      *)
(* keeps its lookup table, its list and its records as its threads insert, *)
(* evict, delete and sweep: the invariant of that is StoreInv.             *)
(***************************************************************************)
EXTENDS ContentStore, SequenceTheorems, WellFoundedInduction, FiniteSetTheorems, TLAPS

-----------------------------------------------------------------------------
(* Sequences.                                                              *)

Items(s) == {s[i] : i \in DOMAIN s}

LEMMA MinOfTwo ==
  ASSUME NEW a \in Int, NEW b \in Int
  PROVE  Min({a, b}) = IF a <= b THEN a ELSE b
BY DEF Min

\* a is the first k of s, and c the rest.
Cut(s, k, a, c) ==
  /\ Len(a) = k /\ \A i \in 1 .. k : a[i] = s[i]
  /\ Len(c) = Len(s) - k /\ \A i \in 1 .. Len(s) - k : c[i] = s[k + i]

LEMMA Split ==
  ASSUME NEW S, NEW s \in Seq(S), NEW k \in 0 .. Len(s),
         NEW a, a = SubSeq(s, 1, k), NEW c, c = C!Beyond(s, k)
  PROVE  /\ a \in Seq(S) /\ c \in Seq(S) /\ Cut(s, k, a, c)
         /\ Items(a) \subseteq Items(s) /\ Items(c) \subseteq Items(s)
<1>0. Len(s) \in Nat /\ DOMAIN s = 1 .. Len(s) /\ \A i \in 1 .. Len(s) : s[i] \in S OBVIOUS
<1>1. a \in Seq(S) /\ Len(a) = k /\ \A i \in 1 .. k : a[i] = s[i]
  BY <1>0, SubSeqProperties
<1>2. c \in Seq(S) /\ Len(c) = Len(s) - k /\ \A i \in 1 .. Len(s) - k : c[i] = s[k + i]
  <2>1. c = SubSeq(s, k + 1, Len(s)) BY DEF C!Beyond
  <2>2. k + 1 \in Int /\ Len(s) \in Int /\ \A i \in k + 1 .. Len(s) : s[i] \in S BY <1>0
  <2>3. /\ c \in Seq(S)
        /\ Len(c) = IF k + 1 <= Len(s) THEN Len(s) - (k + 1) + 1 ELSE 0
        /\ \A i \in 1 .. Len(s) - (k + 1) + 1 : c[i] = s[k + 1 + i - 1]
    BY <1>0, <2>1, <2>2, SubSeqProperties
  <2>4. Len(c) = Len(s) - k
    <3>1. k \in Int /\ Len(s) \in Int /\ k <= Len(s) BY <1>0
    <3>2. Len(c) = IF k + 1 <= Len(s) THEN Len(s) - (k + 1) + 1 ELSE 0 BY <2>3
    <3>3. QED BY <3>1, <3>2
  <2>5. \A i \in 1 .. Len(s) - k : c[i] = s[k + i]
    <3>1. SUFFICES ASSUME NEW i \in 1 .. Len(s) - k PROVE c[i] = s[k + i] OBVIOUS
    <3>2. i \in 1 .. Len(s) - (k + 1) + 1 /\ k + 1 + i - 1 = k + i BY <1>0
    <3>3. QED BY <2>3, <3>2
  <2>6. QED BY <2>3, <2>4, <2>5
<1>3. Items(a) \subseteq Items(s) BY <1>0, <1>1 DEF Items
<1>4. \A i \in 1 .. Len(s) - k : k + i \in 1 .. Len(s) BY <1>0
<1>5. Items(c) \subseteq Items(s)
  <2>1. DOMAIN c = 1 .. Len(s) - k BY <1>2
  <2>2. \A i \in 1 .. Len(s) - k : c[i] \in Items(s) BY <1>0, <1>2, <1>4 DEF Items
  <2>3. QED BY <2>1, <2>2 DEF Items
<1>6. QED BY <1>1, <1>2, <1>3, <1>5 DEF Cut

\* t is s and then a.
Joined(s, a, t) ==
  /\ Len(t) = Len(s) + Len(a)
  /\ \A i \in 1 .. Len(s) : t[i] = s[i]
  /\ \A i \in 1 .. Len(a) : t[Len(s) + i] = a[i]
  /\ \A i \in 1 .. Len(t) : i \in 1 .. Len(s) \/ \E j \in 1 .. Len(a) : i = Len(s) + j
  /\ Items(t) = Items(s) \cup Items(a)

LEMMA Join ==
  ASSUME NEW S, NEW s \in Seq(S), NEW a \in Seq(S), NEW t, t = s \o a
  PROVE  t \in Seq(S) /\ Joined(s, a, t)
<1>1. t \in Seq(S) /\ Len(t) = Len(s) + Len(a) /\ Len(s) \in Nat /\ Len(a) \in Nat OBVIOUS
<1>2. (\A i \in 1 .. Len(s) : t[i] = s[i]) /\ \A i \in 1 .. Len(a) : t[Len(s) + i] = a[i] OBVIOUS
<1>3. \A i \in 1 .. Len(t) : i \in 1 .. Len(s) \/ \E j \in 1 .. Len(a) : i = Len(s) + j
  <2>1. SUFFICES ASSUME NEW i \in 1 .. Len(t), i \notin 1 .. Len(s)
                 PROVE  \E j \in 1 .. Len(a) : i = Len(s) + j
    OBVIOUS
  <2>2. i - Len(s) \in 1 .. Len(a) /\ i = Len(s) + (i - Len(s)) BY <1>1, <2>1
  <2>3. QED BY <2>2
<1>4. Items(t) = Items(s) \cup Items(a)
  <2>1. DOMAIN t = 1 .. Len(t) /\ DOMAIN s = 1 .. Len(s) /\ DOMAIN a = 1 .. Len(a) BY <1>1
  <2>2. \A j \in 1 .. Len(a) : Len(s) + j \in 1 .. Len(t) BY <1>1
  <2>3. \A i \in 1 .. Len(s) : i \in 1 .. Len(t) BY <1>1
  <2>4. \A x \in Items(s) \cup Items(a) : x \in Items(t) BY <1>2, <2>1, <2>2, <2>3 DEF Items
  <2>5. ASSUME NEW i \in 1 .. Len(t) PROVE t[i] \in Items(s) \cup Items(a)
    <3>1. CASE i \in 1 .. Len(s) BY <1>2, <2>1, <3>1 DEF Items
    <3>2. ASSUME NEW j \in 1 .. Len(a), i = Len(s) + j PROVE t[i] \in Items(a) BY <1>2, <2>1, <3>2 DEF Items
    <3>3. QED BY <1>3, <3>1, <3>2
  <2>6. \A x \in Items(t) : x \in Items(s) \cup Items(a) BY <2>1, <2>5 DEF Items
  <2>7. QED BY <2>4, <2>6
<1>5. QED BY <1>1, <1>2, <1>3, <1>4 DEF Joined

-----------------------------------------------------------------------------
(* The pieces of frames, and their order.                                  *)

Frame == Nat \ {0}
Piece == [of : Frame, part : {"head", "end"}]
HeadOf(f) == [of |-> f, part |-> "head"]
EndOf(f) == [of |-> f, part |-> "end"]
\* The pieces of the frames of a list
Both(t) == [of : Items(t), part : {"head", "end"}]

Pos(x) == 2 * x.of + (IF x.part = "end" THEN 1 ELSE 0)
\* Of the messages that carry Objects, or of the others, x is earlier than y.
Before(m, x, y) == (m[x.of] = "UpReq" <=> m[y.of] = "UpReq") => Pos(x) < Pos(y)
Ahead(m, X, Y) == \A x \in X : \A y \in Y : Before(m, x, y)
Rising(m, s) == \A i, j \in DOMAIN s : i < j => Before(m, s[i], s[j])
Upward(t) == \A i, j \in DOMAIN t : i < j => t[i] < t[j]

LEMMA RisingSplit ==
  ASSUME NEW m, NEW s \in Seq(Piece), Rising(m, s), NEW k \in 0 .. Len(s),
         NEW a, a = SubSeq(s, 1, k), NEW c, c = C!Beyond(s, k)
  PROVE  Rising(m, a) /\ Rising(m, c) /\ Ahead(m, Items(a), Items(c))
<1>1. /\ a \in Seq(Piece) /\ Len(a) = k /\ \A i \in 1 .. k : a[i] = s[i]
      /\ c \in Seq(Piece) /\ Len(c) = Len(s) - k /\ \A i \in 1 .. Len(s) - k : c[i] = s[k + i]
  <2>1. a \in Seq(Piece) /\ c \in Seq(Piece) /\ Cut(s, k, a, c) BY Split
  <2>2. QED BY <2>1 DEF Cut
<1>2. DOMAIN a = 1 .. k /\ DOMAIN c = 1 .. Len(s) - k /\ DOMAIN s = 1 .. Len(s) /\ Len(s) \in Nat BY <1>1
<1>3. Rising(m, a)
  <2>1. SUFFICES ASSUME NEW i \in 1 .. k, NEW j \in 1 .. k, i < j PROVE Before(m, a[i], a[j])
    BY <1>2 DEF Rising
  <2>2. a[i] = s[i] /\ a[j] = s[j] BY <1>1
  <2>3. i \in DOMAIN s /\ j \in DOMAIN s BY <1>2
  <2>4. QED BY <2>1, <2>2, <2>3 DEF Rising
<1>4. \A i, j \in 1 .. Len(s) - k : i < j => k + i < k + j /\ k + i \in 1 .. Len(s) /\ k + j \in 1 .. Len(s)
  BY <1>2
<1>5. Rising(m, c)
  <2>1. SUFFICES ASSUME NEW i \in 1 .. Len(s) - k, NEW j \in 1 .. Len(s) - k, i < j PROVE Before(m, c[i], c[j])
    BY <1>2 DEF Rising
  <2>2. c[i] = s[k + i] /\ c[j] = s[k + j] BY <1>1
  <2>3. k + i \in DOMAIN s /\ k + j \in DOMAIN s /\ k + i < k + j BY <1>2, <1>4, <2>1
  <2>4. QED BY <2>2, <2>3 DEF Rising
<1>6. \A i \in 1 .. k : \A j \in 1 .. Len(s) - k : i < k + j /\ i \in 1 .. Len(s) /\ k + j \in 1 .. Len(s)
  BY <1>2
<1>7. \A i \in 1 .. k : \A j \in 1 .. Len(s) - k : Before(m, a[i], c[j]) BY <1>1, <1>2, <1>6 DEF Rising
<1>8. Ahead(m, Items(a), Items(c)) BY <1>2, <1>7 DEF Ahead, Items
<1>9. QED BY <1>3, <1>5, <1>8

LEMMA RisingJoin ==
  ASSUME NEW m, NEW s \in Seq(Piece), NEW a \in Seq(Piece), Rising(m, s), Rising(m, a),
         Ahead(m, Items(s), Items(a)), NEW t, t = s \o a
  PROVE  Rising(m, t)
<1>1. /\ t \in Seq(Piece) /\ Len(t) = Len(s) + Len(a)
      /\ \A i \in 1 .. Len(s) : t[i] = s[i]
      /\ \A i \in 1 .. Len(a) : t[Len(s) + i] = a[i]
      /\ \A i \in 1 .. Len(t) : i \in 1 .. Len(s) \/ \E j \in 1 .. Len(a) : i = Len(s) + j
  <2>1. t \in Seq(Piece) /\ Joined(s, a, t) BY Join
  <2>2. QED BY <2>1 DEF Joined
<1>2. DOMAIN t = 1 .. Len(t) /\ DOMAIN s = 1 .. Len(s) /\ DOMAIN a = 1 .. Len(a) /\ Len(s) \in Nat BY <1>1
<1>3. SUFFICES ASSUME NEW i \in 1 .. Len(t), NEW j \in 1 .. Len(t), i < j PROVE Before(m, t[i], t[j])
  BY <1>2 DEF Rising
<1>4. CASE i \in 1 .. Len(s) /\ j \in 1 .. Len(s) BY <1>1, <1>2, <1>3, <1>4 DEF Rising
<1>5. ASSUME i \in 1 .. Len(s), NEW l \in 1 .. Len(a), j = Len(s) + l PROVE Before(m, t[i], t[j])
  <2>1. t[i] \in Items(s) /\ t[j] \in Items(a) BY <1>1, <1>2, <1>5 DEF Items
  <2>2. QED BY <2>1 DEF Ahead
<1>6. ASSUME NEW k \in 1 .. Len(a), i = Len(s) + k, NEW l \in 1 .. Len(a), j = Len(s) + l
      PROVE Before(m, t[i], t[j])
  <2>1. k < l BY <1>2, <1>3, <1>6
  <2>2. t[i] = a[k] /\ t[j] = a[l] BY <1>1, <1>6
  <2>3. QED BY <1>2, <2>1, <2>2 DEF Rising
<1>7. ~(j \in 1 .. Len(s) /\ \E k \in 1 .. Len(a) : i = Len(s) + k) BY <1>2, <1>3
<1>8. QED BY <1>1, <1>4, <1>5, <1>6, <1>7

LEMMA PiecesRise ==
  ASSUME NEW t \in Seq(Frame), Upward(t), NEW q, q = C!Pieces(t)
  PROVE  /\ q \in Seq(Piece) /\ Items(q) \subseteq Both(t) /\ \A m : Rising(m, q)
         /\ Len(q) = 2 * Len(t)
         /\ \A i \in 1 .. Len(t) : q[2 * i] = EndOf(t[i]) /\ q[2 * i - 1] = HeadOf(t[i])
<1> DEFINE n == Len(t)
<1>1. n \in Nat /\ DOMAIN t = 1 .. n /\ \A i \in 1 .. n : t[i] \in Frame OBVIOUS
<1>2. \A i \in 1 .. 2 * n : (i + 1) \div 2 \in 1 .. n /\ 2 * ((i + 1) \div 2) = i + (i % 2) /\ i % 2 \in {0, 1}
  BY <1>1
<1>3. /\ DOMAIN q = 1 .. 2 * n
      /\ \A i \in 1 .. 2 * n : q[i] = [of |-> t[(i + 1) \div 2], part |-> IF i % 2 = 1 THEN "head" ELSE "end"]
  BY DEF C!Pieces
<1> HIDE DEF n
<1>4. \A i \in 1 .. 2 * n : q[i] \in Piece /\ q[i] \in Both(t)
  <2>1. SUFFICES ASSUME NEW i \in 1 .. 2 * n PROVE q[i] \in Piece /\ q[i] \in Both(t) OBVIOUS
  <2>2. PICK k \in 1 .. n : k = (i + 1) \div 2 BY <1>2
  <2>3. t[k] \in Frame /\ t[k] \in Items(t) BY <1>1 DEF Items
  <2>4. q[i] = [of |-> t[k], part |-> IF i % 2 = 1 THEN "head" ELSE "end"] BY <1>3, <2>2
  <2>5. QED BY <2>3, <2>4 DEF Piece, Both
<1>5. q \in Seq(Piece) /\ Len(q) = 2 * n
  <2>1. q \in [1 .. 2 * n -> Piece] BY <1>3, <1>4 DEF C!Pieces, n
  <2>2. 2 * n \in Nat BY <1>1
  <2>3. QED BY <2>1, <2>2
<1>6. Items(q) \subseteq Both(t) BY <1>3, <1>4 DEF Items
<1>7. ASSUME NEW i \in 1 .. 2 * n, NEW j \in 1 .. 2 * n, i < j PROVE Pos(q[i]) < Pos(q[j])
  <2>1. PICK k \in 1 .. n : k = (i + 1) \div 2 /\ 2 * k = i + (i % 2) BY <1>2
  <2>2. PICK l \in 1 .. n : l = (j + 1) \div 2 /\ 2 * l = j + (j % 2) BY <1>2
  <2>3. Pos(q[i]) = 2 * t[k] + (IF i % 2 = 1 THEN 0 ELSE 1) BY <1>3, <2>1 DEF Pos
  <2>4. Pos(q[j]) = 2 * t[l] + (IF j % 2 = 1 THEN 0 ELSE 1) BY <1>3, <2>2 DEF Pos
  <2>5. i % 2 \in {0, 1} /\ j % 2 \in {0, 1} BY <1>2
  <2>6. t[k] \in Nat /\ t[l] \in Nat BY <1>1 DEF Frame
  <2>7. CASE k < l
    <3>1. t[k] < t[l] BY <1>1, <2>7 DEF Upward
    <3>2. QED BY <2>3, <2>4, <2>5, <2>6, <3>1
  <2>8. CASE k = l
    <3>1. i % 2 = 1 /\ j % 2 = 0 BY <1>1, <1>7, <2>1, <2>2, <2>5, <2>8
    <3>2. Pos(q[i]) = 2 * t[k] /\ Pos(q[j]) = 2 * t[k] + 1 BY <2>3, <2>4, <2>6, <2>8, <3>1
    <3>3. QED BY <2>6, <3>2
  <2>9. ~(l < k) BY <1>1, <1>7, <2>1, <2>2, <2>5
  <2>10. QED BY <1>1, <2>7, <2>8, <2>9
<1>8. \A m : Rising(m, q) BY <1>3, <1>7 DEF Rising, Before
<1>9. \A i \in 1 .. n : q[2 * i] = EndOf(t[i]) /\ q[2 * i - 1] = HeadOf(t[i])
  <2>1. SUFFICES ASSUME NEW i \in 1 .. n PROVE q[2 * i] = EndOf(t[i]) /\ q[2 * i - 1] = HeadOf(t[i]) OBVIOUS
  <2>2. 2 * i \in 1 .. 2 * n /\ 2 * i - 1 \in 1 .. 2 * n BY <1>1
  <2>3. (2 * i + 1) \div 2 = i /\ (2 * i) % 2 = 0 /\ (2 * i - 1 + 1) \div 2 = i /\ (2 * i - 1) % 2 = 1 BY <1>1
  <2>4. QED BY <1>3, <2>2, <2>3 DEF EndOf, HeadOf
<1>10. QED BY <1>5, <1>6, <1>8, <1>9 DEF n

-----------------------------------------------------------------------------
(* The stages on the way to csmgrd, from its end: what it received, the    *)
(* head it holds, the socket, the thread, the pipe, the two lists of the   *)
(* main task, and the batch.                                               *)

Gone(g) == {HeadOf(g[i][1]) : i \in DOMAIN g}
Hold(h) == IF h = 0 THEN {} ELSE {HeadOf(h)}
Stages(g, h, s, r, p, q, t, b) ==
  <<Gone(g), Hold(h), Items(s), Items(r), Items(p), Items(q), Both(t), Both(b)>>

Line(m, W) == \A k, l \in 1 .. 8 : k < l => Ahead(m, W[k], W[l])
Known(n, W) == \A k \in 1 .. 8 : \A x \in W[k] : x.of \in 1 .. n

Kinds == {"UpReq", "Increment", "Interest"}

\* In each stage frames are in order, and no frame passes one that is ahead.
Flow(m, g, h, s, r, p, q, t, b) ==
  /\ m \in Seq(Kinds) /\ g \in Seq(Nat \X Nat) /\ h \in Nat
  /\ s \in Seq(Piece) /\ r \in Seq(Piece) /\ p \in Seq(Piece) /\ q \in Seq(Piece)
  /\ t \in Seq(Frame) /\ b \in Seq(Frame)
  /\ Rising(m, s) /\ Rising(m, r) /\ Rising(m, p) /\ Rising(m, q) /\ Upward(t) /\ Upward(b)
  /\ \A i, j \in DOMAIN g : i < j => Before(m, HeadOf(g[i][1]), HeadOf(g[j][1]))
  /\ \A f \in Items(b) : m[f] = "UpReq"
  /\ Known(Len(m), Stages(g, h, s, r, p, q, t, b))
  /\ Line(m, Stages(g, h, s, r, p, q, t, b))

LEMMA Eight == \A k \in 1 .. 8 : k \in {1, 2, 3, 4, 5, 6, 7, 8}
OBVIOUS

LEMMA StagesAre ==
  ASSUME NEW g, NEW h, NEW s, NEW r, NEW p, NEW q, NEW t, NEW b, NEW W, W = Stages(g, h, s, r, p, q, t, b)
  PROVE  /\ W[1] = Gone(g) /\ W[2] = Hold(h) /\ W[3] = Items(s) /\ W[4] = Items(r)
         /\ W[5] = Items(p) /\ W[6] = Items(q) /\ W[7] = Both(t) /\ W[8] = Both(b)
BY DEF Stages

\* Nothing is out of order when less is in the line.
LEMMA LineLess ==
  ASSUME NEW m, NEW n, NEW W, NEW V, Line(m, W), Known(n, W), \A k \in 1 .. 8 : V[k] \subseteq W[k]
  PROVE  Line(m, V) /\ Known(n, V)
BY DEF Line, Known, Ahead

\* Nothing is out of order when what was first in a stage moves on to the next.
LEMMA LineMove ==
  ASSUME NEW m, NEW n, NEW W, NEW V, Line(m, W), Known(n, W), NEW j \in 1 .. 7,
         NEW a, a \subseteq W[j + 1], V[j + 1] \subseteq W[j + 1], Ahead(m, a, V[j + 1]),
         V[j] \subseteq W[j] \cup a,
         \A k \in 1 .. 8 : k # j /\ k # j + 1 => V[k] \subseteq W[k]
  PROVE  Line(m, V) /\ Known(n, V)
<1>1. Known(n, V)
  <2>1. \A k \in 1 .. 8 : \A x \in V[k] : \E l \in 1 .. 8 : x \in W[l] OBVIOUS
  <2>2. QED BY <2>1 DEF Known
<1>2. SUFFICES ASSUME NEW k \in 1 .. 8, NEW l \in 1 .. 8, k < l, NEW x \in V[k], NEW y \in V[l]
               PROVE  Before(m, x, y)
  BY <1>1 DEF Line, Ahead
<1>3. y \in W[l] \/ (l = j /\ y \in W[j + 1]) OBVIOUS
<1>4. CASE x \in W[k]
  <2>1. CASE y \in W[l] BY <1>2, <1>4, <2>1 DEF Line, Ahead
  <2>2. CASE l = j /\ y \in W[j + 1]
    <3>1. k < j + 1 /\ j + 1 \in 1 .. 8 BY <1>2, <2>2
    <3>2. QED BY <1>4, <2>2, <3>1 DEF Line, Ahead
  <2>3. QED BY <1>3, <2>1, <2>2
<1>5. CASE k = j /\ x \in a
  <2>1. CASE l = j + 1 BY <1>5, <2>1 DEF Ahead
  <2>2. CASE l # j + 1
    <3>1. j + 1 < l /\ j + 1 \in 1 .. 8 /\ x \in W[j + 1] /\ y \in W[l] BY <1>2, <1>3, <1>5, <2>2
    <3>2. QED BY <3>1 DEF Line, Ahead
  <2>3. QED BY <2>1, <2>2
<1>6. QED BY <1>2, <1>4, <1>5

\* Some stage gives up what it has.
LEMMA FlowLess ==
  ASSUME NEW m, NEW g, NEW h, NEW s, NEW r, NEW p, NEW q, NEW t, NEW b, Flow(m, g, h, s, r, p, q, t, b),
         NEW k, k = h \/ k = 0,
         NEW u, u = s \/ u = <<>>, NEW v, v = r \/ v = <<>>, NEW w, w = q \/ w = <<>>
  PROVE  Flow(m, g, k, u, v, p, w, t, b)
<1>1. PICK W : W = Stages(g, h, s, r, p, q, t, b) OBVIOUS
<1>2. PICK V : V = Stages(g, k, u, v, p, w, t, b) OBVIOUS
<1>3. Items(<<>>) = {} /\ Hold(0) = {} BY DEF Items, Hold
<1>4. \A i \in 1 .. 8 : V[i] \subseteq W[i] BY <1>1, <1>2, <1>3, StagesAre, Eight
<1>5. Line(m, W) /\ Known(Len(m), W) BY <1>1 DEF Flow
<1>6. Line(m, V) /\ Known(Len(m), V) BY <1>4, <1>5, LineLess
<1>7. Rising(m, <<>>) BY DEF Rising
<1>8. Rising(m, u) /\ Rising(m, v) /\ Rising(m, w) BY <1>7 DEF Flow
<1>9. <<>> \in Seq(Piece) OBVIOUS
<1>10. h \in Nat /\ s \in Seq(Piece) /\ r \in Seq(Piece) /\ q \in Seq(Piece) BY DEF Flow
<1>11. k \in Nat BY <1>10
<1>12. u \in Seq(Piece) /\ v \in Seq(Piece) /\ w \in Seq(Piece) BY <1>9, <1>10, Zenon
<1>13. QED BY <1>2, <1>6, <1>8, <1>11, <1>12 DEF Flow

\* The first k pieces of the thread go into the socket.
LEMMA FlowSend ==
  ASSUME NEW m, NEW g, NEW h, NEW s, NEW r, NEW p, NEW q, NEW t, NEW b, Flow(m, g, h, s, r, p, q, t, b),
         NEW k \in 0 .. Len(r), NEW a, a = SubSeq(r, 1, k), NEW c, c = C!Beyond(r, k), NEW z, z = s \o a
  PROVE  Flow(m, g, h, z, c, p, q, t, b)
<1>1. PICK W : W = Stages(g, h, s, r, p, q, t, b) OBVIOUS
<1>2. PICK V : V = Stages(g, h, z, c, p, q, t, b) OBVIOUS
<1>3. Line(m, W) /\ Known(Len(m), W) BY <1>1 DEF Flow
<1>4. s \in Seq(Piece) /\ r \in Seq(Piece) /\ Rising(m, s) /\ Rising(m, r) BY DEF Flow
<1>5. a \in Seq(Piece) /\ c \in Seq(Piece) /\ Items(a) \subseteq Items(r) /\ Items(c) \subseteq Items(r) BY <1>4, Split
<1>6. Rising(m, a) /\ Rising(m, c) /\ Ahead(m, Items(a), Items(c)) BY <1>4, RisingSplit
<1>7. z \in Seq(Piece) /\ Items(z) = Items(s) \cup Items(a)
  <2>1. z \in Seq(Piece) /\ Joined(s, a, z) BY <1>4, <1>5, Join
  <2>2. QED BY <2>1 DEF Joined
<1>8. W[3] = Items(s) /\ W[4] = Items(r) /\ V[3] = Items(z) /\ V[4] = Items(c) BY <1>1, <1>2, StagesAre
<1>9. \A i \in 1 .. 8 : i # 3 /\ i # 4 => V[i] = W[i] BY <1>1, <1>2, StagesAre, Eight
<1>10. Ahead(m, Items(s), Items(a)) BY <1>3, <1>5, <1>8 DEF Line, Ahead
<1>11. Rising(m, z) BY <1>4, <1>5, <1>6, <1>7, <1>10, RisingJoin
<1>12. Line(m, V) /\ Known(Len(m), V)
  <2>1. 3 + 1 = 4 /\ 3 \in 1 .. 7 OBVIOUS
  <2>2. Items(a) \subseteq W[3 + 1] /\ V[3 + 1] \subseteq W[3 + 1] /\ Ahead(m, Items(a), V[3 + 1])
    BY <1>5, <1>6, <1>8
  <2>3. V[3] \subseteq W[3] \cup Items(a) BY <1>7, <1>8
  <2>4. \A i \in 1 .. 8 : i # 3 /\ i # 3 + 1 => V[i] \subseteq W[i] BY <1>9
  <2>5. QED BY <1>3, <2>1, <2>2, <2>3, <2>4, LineMove
<1>13. QED BY <1>2, <1>5, <1>6, <1>7, <1>11, <1>12 DEF Flow

\* The thread takes the first k pieces out of the pipe.
LEMMA FlowTake ==
  ASSUME NEW m, NEW g, NEW h, NEW s, NEW r, NEW p, NEW q, NEW t, NEW b, Flow(m, g, h, s, r, p, q, t, b),
         r = <<>>, NEW k \in 0 .. Len(p), NEW a, a = SubSeq(p, 1, k), NEW c, c = C!Beyond(p, k)
  PROVE  Flow(m, g, h, s, a, c, q, t, b)
<1>1. PICK W : W = Stages(g, h, s, r, p, q, t, b) OBVIOUS
<1>2. PICK V : V = Stages(g, h, s, a, c, q, t, b) OBVIOUS
<1>3. Line(m, W) /\ Known(Len(m), W) BY <1>1 DEF Flow
<1>4. p \in Seq(Piece) /\ Rising(m, p) BY DEF Flow
<1>5. a \in Seq(Piece) /\ c \in Seq(Piece) /\ Items(a) \subseteq Items(p) /\ Items(c) \subseteq Items(p) BY <1>4, Split
<1>6. Rising(m, a) /\ Rising(m, c) /\ Ahead(m, Items(a), Items(c)) BY <1>4, RisingSplit
<1>7. W[5] = Items(p) /\ V[4] = Items(a) /\ V[5] = Items(c) BY <1>1, <1>2, StagesAre
<1>8. \A i \in 1 .. 8 : i # 4 /\ i # 5 => V[i] = W[i] BY <1>1, <1>2, StagesAre, Eight
<1>9. Line(m, V) /\ Known(Len(m), V)
  <2>1. 4 + 1 = 5 /\ 4 \in 1 .. 7 OBVIOUS
  <2>2. Items(a) \subseteq W[4 + 1] /\ V[4 + 1] \subseteq W[4 + 1] /\ Ahead(m, Items(a), V[4 + 1])
    BY <1>5, <1>6, <1>7
  <2>3. V[4] \subseteq W[4] \cup Items(a) BY <1>7
  <2>4. \A i \in 1 .. 8 : i # 4 /\ i # 4 + 1 => V[i] \subseteq W[i] BY <1>8
  <2>5. QED BY <1>3, <2>1, <2>2, <2>3, <2>4, LineMove
<1>10. QED BY <1>2, <1>5, <1>6, <1>9 DEF Flow

\* The main task writes the first k pieces to the pipe.
LEMMA FlowWrite ==
  ASSUME NEW m, NEW g, NEW h, NEW s, NEW r, NEW p, NEW q, NEW t, NEW b, Flow(m, g, h, s, r, p, q, t, b),
         NEW k \in 0 .. Len(q), NEW a, a = SubSeq(q, 1, k), NEW c, c = C!Beyond(q, k), NEW z, z = p \o a
  PROVE  Flow(m, g, h, s, r, z, c, t, b)
<1>1. PICK W : W = Stages(g, h, s, r, p, q, t, b) OBVIOUS
<1>2. PICK V : V = Stages(g, h, s, r, z, c, t, b) OBVIOUS
<1>3. Line(m, W) /\ Known(Len(m), W) BY <1>1 DEF Flow
<1>4. p \in Seq(Piece) /\ q \in Seq(Piece) /\ Rising(m, p) /\ Rising(m, q) BY DEF Flow
<1>5. a \in Seq(Piece) /\ c \in Seq(Piece) /\ Items(a) \subseteq Items(q) /\ Items(c) \subseteq Items(q) BY <1>4, Split
<1>6. Rising(m, a) /\ Rising(m, c) /\ Ahead(m, Items(a), Items(c)) BY <1>4, RisingSplit
<1>7. z \in Seq(Piece) /\ Items(z) = Items(p) \cup Items(a)
  <2>1. z \in Seq(Piece) /\ Joined(p, a, z) BY <1>4, <1>5, Join
  <2>2. QED BY <2>1 DEF Joined
<1>8. W[5] = Items(p) /\ W[6] = Items(q) /\ V[5] = Items(z) /\ V[6] = Items(c) BY <1>1, <1>2, StagesAre
<1>9. \A i \in 1 .. 8 : i # 5 /\ i # 6 => V[i] = W[i] BY <1>1, <1>2, StagesAre, Eight
<1>10. Ahead(m, Items(p), Items(a)) BY <1>3, <1>5, <1>8 DEF Line, Ahead
<1>11. Rising(m, z) BY <1>4, <1>5, <1>6, <1>7, <1>10, RisingJoin
<1>12. Line(m, V) /\ Known(Len(m), V)
  <2>1. 5 + 1 = 6 /\ 5 \in 1 .. 7 OBVIOUS
  <2>2. Items(a) \subseteq W[5 + 1] /\ V[5 + 1] \subseteq W[5 + 1] /\ Ahead(m, Items(a), V[5 + 1])
    BY <1>5, <1>6, <1>8
  <2>3. V[5] \subseteq W[5] \cup Items(a) BY <1>7, <1>8
  <2>4. \A i \in 1 .. 8 : i # 5 /\ i # 5 + 1 => V[i] \subseteq W[i] BY <1>9
  <2>5. QED BY <1>3, <2>1, <2>2, <2>3, <2>4, LineMove
<1>13. QED BY <1>2, <1>5, <1>6, <1>7, <1>11, <1>12 DEF Flow

LEMMA Nothing ==
  /\ Items(<<>>) = {} /\ Both(<<>>) = {} /\ Upward(<<>>) /\ <<>> \in Seq(Frame) /\ <<>> \in Seq(Piece)
  /\ \A m : Rising(m, <<>>)
BY DEF Items, Both, Upward, Rising

\* The main task comes to its second list.
LEMMA FlowNext ==
  ASSUME NEW m, NEW g, NEW h, NEW s, NEW r, NEW p, NEW q, NEW t, NEW b, Flow(m, g, h, s, r, p, q, t, b),
         q = <<>>, NEW z, z = C!Pieces(t), NEW e, e = <<>>
  PROVE  Flow(m, g, h, s, r, p, z, e, b)
<1>1. PICK W : W = Stages(g, h, s, r, p, q, t, b) OBVIOUS
<1>2. PICK V : V = Stages(g, h, s, r, p, z, e, b) OBVIOUS
<1>3. Line(m, W) /\ Known(Len(m), W) BY <1>1 DEF Flow
<1>4. t \in Seq(Frame) /\ Upward(t) BY DEF Flow
<1>5. z \in Seq(Piece) /\ Items(z) \subseteq Both(t) /\ Rising(m, z) BY <1>4, PiecesRise
<1>6. e \in Seq(Frame) /\ Upward(e) /\ Both(e) = {} BY Nothing
<1>7. W[6] = Items(q) /\ W[7] = Both(t) /\ V[6] = Items(z) /\ V[7] = Both(e) BY <1>1, <1>2, StagesAre
<1>8. \A i \in 1 .. 8 : i # 6 /\ i # 7 => V[i] = W[i] BY <1>1, <1>2, StagesAre, Eight
<1>9. Line(m, V) /\ Known(Len(m), V)
  <2>1. 6 + 1 = 7 /\ 6 \in 1 .. 7 OBVIOUS
  <2>2. Items(z) \subseteq W[6 + 1] /\ V[6 + 1] \subseteq W[6 + 1] /\ Ahead(m, Items(z), V[6 + 1])
    BY <1>5, <1>6, <1>7 DEF Ahead
  <2>3. V[6] \subseteq W[6] \cup Items(z) BY <1>7
  <2>4. \A i \in 1 .. 8 : i # 6 /\ i # 6 + 1 => V[i] \subseteq W[i] BY <1>8
  <2>5. QED BY <1>3, <2>1, <2>2, <2>3, <2>4, LineMove
<1>10. QED BY <1>2, <1>5, <1>6, <1>9 DEF Flow

\* The batch becomes what the main task writes after its first list.
LEMMA FlowHold ==
  ASSUME NEW m, NEW g, NEW h, NEW s, NEW r, NEW p, NEW q, NEW t, NEW b, Flow(m, g, h, s, r, p, q, t, b),
         t = <<>>, NEW e, e = <<>>
  PROVE  Flow(m, g, h, s, r, p, q, b, e)
<1>1. PICK W : W = Stages(g, h, s, r, p, q, t, b) OBVIOUS
<1>2. PICK V : V = Stages(g, h, s, r, p, q, b, e) OBVIOUS
<1>3. Line(m, W) /\ Known(Len(m), W) BY <1>1 DEF Flow
<1>4. e \in Seq(Frame) /\ Upward(e) /\ Both(e) = {} /\ Items(e) = {} BY Nothing
<1>5. W[8] = Both(b) /\ V[7] = Both(b) /\ V[8] = Both(e) BY <1>1, <1>2, StagesAre
<1>6. \A i \in 1 .. 8 : i # 7 /\ i # 8 => V[i] = W[i] BY <1>1, <1>2, StagesAre, Eight
<1>7. Line(m, V) /\ Known(Len(m), V)
  <2>1. 7 + 1 = 8 /\ 7 \in 1 .. 7 OBVIOUS
  <2>2. Both(b) \subseteq W[7 + 1] /\ V[7 + 1] \subseteq W[7 + 1] /\ Ahead(m, Both(b), V[7 + 1])
    BY <1>4, <1>5 DEF Ahead
  <2>3. V[7] \subseteq W[7] \cup Both(b) BY <1>5
  <2>4. \A i \in 1 .. 8 : i # 7 /\ i # 7 + 1 => V[i] \subseteq W[i] BY <1>6
  <2>5. QED BY <1>3, <2>1, <2>2, <2>3, <2>4, LineMove
<1>8. QED BY <1>2, <1>4, <1>7 DEF Flow

\* What is collected is written: the batch becomes the first list.
LEMMA FlowPush ==
  ASSUME NEW m, NEW g, NEW h, NEW s, NEW r, NEW p, NEW q, NEW t, NEW b, Flow(m, g, h, s, r, p, q, t, b),
         q = <<>>, t = <<>>, NEW z, z = C!Pieces(b), NEW e, e = <<>>
  PROVE  Flow(m, g, h, s, r, p, z, e, e)
<1>1. Flow(m, g, h, s, r, p, q, b, e) BY FlowHold
<1>2. QED BY <1>1, FlowNext

\* The first piece of s is read: a has it alone, and u the others.
Parted(s, a, u) ==
  /\ 1 \in 0 .. Len(s) /\ s[1] = Head(s) /\ s[1] \in Piece /\ a \in Seq(Piece) /\ Len(a) = 1 /\ a[1] = s[1]
  /\ Items(a) = {s[1]} /\ Items(a) \subseteq Items(s) /\ u = C!Beyond(s, 1) /\ u \in Seq(Piece)
  /\ Items(u) \subseteq Items(s)

LEMMA TailIs ==
  ASSUME NEW s \in Seq(Piece), s # <<>>, NEW a, a = SubSeq(s, 1, 1), NEW u, u = Tail(s)
  PROVE  Parted(s, a, u)
<1>1. Len(s) \in Nat /\ 1 <= Len(s) /\ s[1] = Head(s) /\ s[1] \in Piece OBVIOUS
<1>2. u = SubSeq(s, 2, Len(s)) BY TailIsSubSeq
<1>3. u = C!Beyond(s, 1) BY <1>2 DEF C!Beyond
<1>4. /\ a \in Seq(Piece) /\ u \in Seq(Piece) /\ Cut(s, 1, a, u)
      /\ Items(a) \subseteq Items(s) /\ Items(u) \subseteq Items(s)
  <2>1. 1 \in 0 .. Len(s) BY <1>1
  <2>2. QED BY <1>3, <2>1, Split
<1>5. Len(a) = 1 /\ a[1] = s[1] BY <1>4 DEF Cut
<1>6. DOMAIN a = {1} BY <1>4, <1>5
<1>7. Items(a) = {s[1]} BY <1>5, <1>6 DEF Items
<1>8. 1 \in 0 .. Len(s) BY <1>1
<1>9. QED BY <1>1, <1>3, <1>4, <1>5, <1>7, <1>8 DEF Parted

\* csmgrd reads the head of a frame, or what it skips.
LEMMA FlowHead ==
  ASSUME NEW m, NEW g, NEW h, NEW s, NEW r, NEW p, NEW q, NEW t, NEW b, Flow(m, g, h, s, r, p, q, t, b),
         h = 0, s # <<>>, NEW u, u = Tail(s),
         NEW k, k = 0 \/ (k = s[1].of /\ s[1].part = "head")
  PROVE  Flow(m, g, k, u, r, p, q, t, b)
<1>1. PICK W : W = Stages(g, h, s, r, p, q, t, b) OBVIOUS
<1>2. PICK V : V = Stages(g, k, u, r, p, q, t, b) OBVIOUS
<1>3. Line(m, W) /\ Known(Len(m), W) BY <1>1 DEF Flow
<1>4. s \in Seq(Piece) /\ Rising(m, s) BY DEF Flow
<1>5. PICK a : a = SubSeq(s, 1, 1) OBVIOUS
<1>6. Parted(s, a, u) BY <1>4, <1>5, TailIs
<1>7. /\ 1 \in 0 .. Len(s) /\ s[1] \in Piece /\ Items(a) = {s[1]} /\ u = C!Beyond(s, 1)
      /\ u \in Seq(Piece) /\ Items(a) \subseteq Items(s) /\ Items(u) \subseteq Items(s)
  BY <1>6 DEF Parted
<1>8. Rising(m, u) /\ Ahead(m, Items(a), Items(u)) BY <1>4, <1>5, <1>7, RisingSplit
<1>9. k \in Nat /\ Hold(k) \subseteq Items(a) BY <1>7 DEF Hold, HeadOf, Piece, Frame
<1>10. W[3] = Items(s) /\ V[2] = Hold(k) /\ V[3] = Items(u) BY <1>1, <1>2, StagesAre
<1>11. \A i \in 1 .. 8 : i # 2 /\ i # 3 => V[i] = W[i] BY <1>1, <1>2, StagesAre, Eight
<1>12. Line(m, V) /\ Known(Len(m), V)
  <2>1. 2 + 1 = 3 /\ 2 \in 1 .. 7 OBVIOUS
  <2>2. Items(a) \subseteq W[2 + 1] /\ V[2 + 1] \subseteq W[2 + 1] /\ Ahead(m, Items(a), V[2 + 1])
    BY <1>7, <1>8, <1>10
  <2>3. V[2] \subseteq W[2] \cup Items(a) BY <1>9, <1>10
  <2>4. \A i \in 1 .. 8 : i # 2 /\ i # 2 + 1 => V[i] \subseteq W[i] BY <1>11
  <2>5. QED BY <1>3, <2>1, <2>2, <2>3, <2>4, LineMove
<1>13. QED BY <1>2, <1>7, <1>8, <1>9, <1>12 DEF Flow

\* csmgrd takes a piece for the end of the frame whose head it holds.
LEMMA FlowEnd ==
  ASSUME NEW m, NEW g, NEW h, NEW s, NEW r, NEW p, NEW q, NEW t, NEW b, Flow(m, g, h, s, r, p, q, t, b),
         h # 0, s # <<>>, NEW u, u = Tail(s), NEW e, e = Append(g, <<h, s[1].of>>), NEW k, k = 0
  PROVE  Flow(m, e, k, u, r, p, q, t, b)
<1>1. PICK W : W = Stages(g, h, s, r, p, q, t, b) OBVIOUS
<1>2. PICK V : V = Stages(e, k, u, r, p, q, t, b) OBVIOUS
<1>3. Line(m, W) /\ Known(Len(m), W) BY <1>1 DEF Flow
<1>4. s \in Seq(Piece) /\ Rising(m, s) /\ g \in Seq(Nat \X Nat) /\ h \in Nat BY DEF Flow
<1>5. PICK a : a = SubSeq(s, 1, 1) OBVIOUS
<1>6. Parted(s, a, u) BY <1>4, <1>5, TailIs
<1>7. /\ 1 \in 0 .. Len(s) /\ s[1] \in Piece /\ u = C!Beyond(s, 1)
      /\ u \in Seq(Piece) /\ Items(u) \subseteq Items(s)
  BY <1>6 DEF Parted
<1>8. Rising(m, u) BY <1>4, <1>5, <1>7, RisingSplit
<1>9. <<h, s[1].of>> \in Nat \X Nat BY <1>4, <1>7 DEF Piece, Frame
<1>10. PICK n : n = Len(g) OBVIOUS
<1>11. /\ e \in Seq(Nat \X Nat) /\ DOMAIN g = 1 .. n /\ DOMAIN e = 1 .. n + 1 /\ n \in Nat
       /\ e[n + 1][1] = h /\ \A i \in 1 .. n : e[i] = g[i]
  BY <1>4, <1>9, <1>10
<1>12. W[1] = Gone(g) /\ W[2] = Hold(h) /\ W[3] = Items(s) /\ V[1] = Gone(e) /\ V[2] = Hold(k) /\ V[3] = Items(u)
  BY <1>1, <1>2, StagesAre
<1>13. \A i \in 1 .. 8 : i # 1 /\ i # 2 /\ i # 3 => V[i] = W[i] BY <1>1, <1>2, StagesAre, Eight
<1>14. Hold(h) = {HeadOf(h)} /\ Hold(k) = {} BY DEF Hold
<1>15. V[1] \subseteq W[1] \cup Hold(h)
  <2>1. SUFFICES ASSUME NEW i \in 1 .. n + 1 PROVE HeadOf(e[i][1]) \in Gone(g) \cup {HeadOf(h)}
    BY <1>11, <1>12, <1>14 DEF Gone
  <2>2. CASE i = n + 1 BY <1>11, <2>2
  <2>3. CASE i \in 1 .. n BY <1>11, <2>3 DEF Gone
  <2>4. QED BY <1>11, <2>2, <2>3
<1>16. Line(m, V) /\ Known(Len(m), V)
  <2>1. 1 + 1 = 2 /\ 1 \in 1 .. 7 OBVIOUS
  <2>2. Hold(h) \subseteq W[1 + 1] /\ V[1 + 1] \subseteq W[1 + 1] /\ Ahead(m, Hold(h), V[1 + 1])
    BY <1>12, <1>14 DEF Ahead
  <2>3. \A i \in 1 .. 8 : i # 1 /\ i # 1 + 1 => V[i] \subseteq W[i] BY <1>7, <1>12, <1>13
  <2>4. QED BY <1>3, <1>15, <2>1, <2>2, <2>3, LineMove
<1>17. \A i \in 1 .. n : Before(m, HeadOf(g[i][1]), HeadOf(h))
  <2>1. Ahead(m, W[1], W[2]) BY <1>3 DEF Line
  <2>2. QED BY <1>11, <1>12, <1>14, <2>1 DEF Ahead, Gone
<1>18. ASSUME NEW i \in DOMAIN e, NEW j \in DOMAIN e, i < j PROVE Before(m, HeadOf(e[i][1]), HeadOf(e[j][1]))
  <2>1. CASE j = n + 1
    <3>1. i \in 1 .. n /\ e[j][1] = h /\ e[i] = g[i] BY <1>11, <1>18, <2>1
    <3>2. QED BY <1>17, <3>1
  <2>2. CASE j # n + 1
    <3>0. i \in 1 .. n + 1 /\ j \in 1 .. n + 1 /\ n \in Nat BY <1>11
    <3>1. i \in 1 .. n /\ j \in 1 .. n BY <1>18, <2>2, <3>0
    <3>2. e[i] = g[i] /\ e[j] = g[j] /\ i \in DOMAIN g /\ j \in DOMAIN g BY <1>11, <3>1
    <3>3. QED BY <1>18, <3>2 DEF Flow
  <2>3. QED BY <2>1, <2>2
<1>19. QED BY <1>2, <1>7, <1>8, <1>11, <1>16, <1>18 DEF Flow

\* A message is made: what is before and after among the older ones stays.
LEMMA OldBefore ==
  ASSUME NEW m \in Seq(Kinds), NEW c \in Kinds, NEW n, n = Append(m, c),
         NEW x, NEW y, x.of \in 1 .. Len(m), y.of \in 1 .. Len(m), Before(m, x, y)
  PROVE  Before(n, x, y)
BY DEF Before

\* The new one, f, is after all of its kind.
LEMMA NewAfter ==
  ASSUME NEW m \in Seq(Kinds), NEW x, x.of \in 1 .. Len(m), NEW y, y.of = Len(m) + 1
  PROVE  Pos(x) < Pos(y)
<1>1. Len(m) \in Nat /\ x.of \in Nat /\ x.of + 1 <= y.of /\ y.of \in Nat OBVIOUS
<1>2. PICK i \in Nat, j \in Nat : i = x.of /\ j = y.of BY <1>1
<1>3. Pos(x) = 2 * i + (IF x.part = "end" THEN 1 ELSE 0) /\ Pos(y) = 2 * j + (IF y.part = "end" THEN 1 ELSE 0)
  BY <1>2 DEF Pos
<1>4. QED BY <1>1, <1>2, <1>3

\* The new pieces a come into stage j.
Enters(W, V, j, a) ==
  /\ V[j] \subseteq W[j] \cup a
  /\ \A k \in 1 .. 8 : k # j => V[k] \subseteq W[k]
OtherKind(m, c, V, j) ==
  \A k \in 1 .. 8 : j < k => \A y \in V[k] : ~(m[y.of] = "UpReq" <=> c = "UpReq")
Are(a, f) == \A x \in a : x.of = f

\* It comes into stage j; what is behind that is of the other kind.
LEMMA LineNew ==
  ASSUME NEW m \in Seq(Kinds), NEW c \in Kinds, NEW n, n = Append(m, c),
         NEW W, NEW V, Line(m, W), Known(Len(m), W), NEW j \in 1 .. 8,
         NEW a, Are(a, Len(m) + 1), Enters(W, V, j, a), OtherKind(m, c, V, j)
  PROVE  Line(n, V) /\ Known(Len(n), V)
<1>1. Len(m) \in Nat /\ Len(n) = Len(m) + 1 /\ (\A i \in 1 .. Len(m) : n[i] = m[i]) /\ n[Len(m) + 1] = c OBVIOUS
<1>2. \A k \in 1 .. 8 : \A x \in V[k] : x \in W[k] \/ (k = j /\ x \in a) BY DEF Enters
<1>15. \A x \in a : x.of = Len(m) + 1 BY DEF Are
<1>3. \A k \in 1 .. 8 : \A x \in W[k] : x.of \in 1 .. Len(m) BY DEF Known
<1>4. Known(Len(n), V)
  <2>1. SUFFICES ASSUME NEW k \in 1 .. 8, NEW x \in V[k] PROVE x.of \in 1 .. Len(m) + 1 BY <1>1 DEF Known
  <2>2. CASE x \in W[k] BY <1>1, <1>3, <2>2
  <2>3. CASE x \in a BY <1>1, <1>15, <2>3
  <2>4. QED BY <1>2, <2>2, <2>3
<1>5. SUFFICES ASSUME NEW k \in 1 .. 8, NEW l \in 1 .. 8, k < l, NEW x \in V[k], NEW y \in V[l]
               PROVE  Before(n, x, y)
  BY <1>4 DEF Line, Ahead
<1>6. CASE x \in W[k] /\ y \in W[l]
  <2>1. Before(m, x, y) BY <1>5, <1>6 DEF Line, Ahead
  <2>2. QED BY <1>3, <1>6, <2>1, OldBefore
<1>7. CASE x \in W[k] /\ y \in a
  <2>1. Pos(x) < Pos(y) BY <1>3, <1>7, <1>15, NewAfter
  <2>2. QED BY <2>1 DEF Before
<1>8. CASE k = j /\ x \in a
  <2>1. y \in W[l] BY <1>2, <1>5, <1>8
  <2>2. n[x.of] = c /\ n[y.of] = m[y.of] BY <1>1, <1>3, <1>8, <1>15, <2>1
  <2>3. ~(m[y.of] = "UpReq" <=> c = "UpReq") BY <1>5, <1>8 DEF OtherKind
  <2>4. QED BY <2>2, <2>3 DEF Before
<1>9. QED BY <1>2, <1>5, <1>6, <1>7, <1>8

LEMMA RisingKeep ==
  ASSUME NEW m \in Seq(Kinds), NEW c \in Kinds, NEW n, n = Append(m, c),
         NEW s, Rising(m, s), \A x \in Items(s) : x.of \in 1 .. Len(m)
  PROVE  Rising(n, s)
<1>1. \A i \in DOMAIN s : s[i].of \in 1 .. Len(m) BY DEF Items
<1>2. SUFFICES ASSUME NEW i \in DOMAIN s, NEW j \in DOMAIN s, i < j PROVE Before(n, s[i], s[j]) BY DEF Rising
<1>3. Before(m, s[i], s[j]) BY <1>2 DEF Rising
<1>4. QED BY <1>1, <1>3, OldBefore

\* What each part of Flow says of the older frames holds with one more made.
Kept(m, c, n, g, s, r, p, q, b) ==
  /\ n \in Seq(Kinds) /\ Len(n) = Len(m) + 1 /\ n[Len(m) + 1] = c
  /\ Rising(n, s) /\ Rising(n, r) /\ Rising(n, p) /\ Rising(n, q)
  /\ \A i, j \in DOMAIN g : i < j => Before(n, HeadOf(g[i][1]), HeadOf(g[j][1]))
  /\ \A f \in Items(b) : f \in 1 .. Len(m) /\ n[f] = "UpReq"

LEMMA FlowKeep ==
  ASSUME NEW m, NEW g, NEW h, NEW s, NEW r, NEW p, NEW q, NEW t, NEW b, Flow(m, g, h, s, r, p, q, t, b),
         NEW c \in Kinds, NEW n, n = Append(m, c)
  PROVE  Kept(m, c, n, g, s, r, p, q, b)
<1>1. PICK W : W = Stages(g, h, s, r, p, q, t, b) OBVIOUS
<1>2. m \in Seq(Kinds) /\ \A k \in 1 .. 8 : \A x \in W[k] : x.of \in 1 .. Len(m) BY <1>1 DEF Flow, Known
<1>3. /\ \A x \in Gone(g) : x.of \in 1 .. Len(m)
      /\ \A x \in Items(s) : x.of \in 1 .. Len(m)
      /\ \A x \in Items(r) : x.of \in 1 .. Len(m)
      /\ \A x \in Items(p) : x.of \in 1 .. Len(m)
      /\ \A x \in Items(q) : x.of \in 1 .. Len(m)
      /\ \A x \in Both(b) : x.of \in 1 .. Len(m)
  BY <1>1, <1>2, StagesAre
<1>4. /\ n \in Seq(Kinds) /\ Len(n) = Len(m) + 1 /\ n[Len(m) + 1] = c
      /\ \A i \in 1 .. Len(m) : n[i] = m[i]
  BY <1>2
<1>5. Rising(n, s) /\ Rising(n, r) /\ Rising(n, p) /\ Rising(n, q) BY <1>2, <1>3, RisingKeep DEF Flow
<1>6. ASSUME NEW i \in DOMAIN g, NEW j \in DOMAIN g, i < j PROVE Before(n, HeadOf(g[i][1]), HeadOf(g[j][1]))
  <2>1. HeadOf(g[i][1]) \in Gone(g) /\ HeadOf(g[j][1]) \in Gone(g) BY DEF Gone
  <2>2. HeadOf(g[i][1]).of \in 1 .. Len(m) /\ HeadOf(g[j][1]).of \in 1 .. Len(m) BY <1>3, <2>1
  <2>3. Before(m, HeadOf(g[i][1]), HeadOf(g[j][1])) BY <1>6 DEF Flow
  <2>4. QED BY <1>2, <2>2, <2>3, OldBefore
<1>7. ASSUME NEW f \in Items(b) PROVE f \in 1 .. Len(m) /\ n[f] = "UpReq"
  <2>1. HeadOf(f) \in Both(b) /\ HeadOf(f).of = f BY DEF Both, HeadOf
  <2>2. f \in 1 .. Len(m) BY <1>3, <2>1
  <2>3. m[f] = "UpReq" BY DEF Flow
  <2>4. QED BY <1>4, <2>2, <2>3
<1>8. QED BY <1>4, <1>5, <1>6, <1>7 DEF Kept

\* An Object joins the batch.
LEMMA FlowObject ==
  ASSUME NEW m, NEW g, NEW h, NEW s, NEW r, NEW p, NEW q, NEW t, NEW b, Flow(m, g, h, s, r, p, q, t, b),
         NEW n, n = Append(m, "UpReq"), NEW e, e = Append(b, Len(m) + 1)
  PROVE  Flow(n, g, h, s, r, p, q, t, e)
<1>1. PICK W : W = Stages(g, h, s, r, p, q, t, b) OBVIOUS
<1>2. PICK V : V = Stages(g, h, s, r, p, q, t, e) OBVIOUS
<1>3. Line(m, W) /\ Known(Len(m), W) /\ m \in Seq(Kinds) /\ b \in Seq(Frame) /\ Upward(b) BY <1>1 DEF Flow
<1>4. PICK c \in Kinds : c = "UpReq" BY DEF Kinds
<1>20. Kept(m, c, n, g, s, r, p, q, b) BY <1>4, FlowKeep
<1>5. /\ n \in Seq(Kinds) /\ Len(n) = Len(m) + 1 /\ n[Len(m) + 1] = "UpReq"
      /\ Rising(n, s) /\ Rising(n, r) /\ Rising(n, p) /\ Rising(n, q)
      /\ \A i, j \in DOMAIN g : i < j => Before(n, HeadOf(g[i][1]), HeadOf(g[j][1]))
      /\ \A f \in Items(b) : f \in 1 .. Len(m) /\ n[f] = "UpReq"
  BY <1>20, <1>4 DEF Kept
<1>6. PICK f : f = Len(m) + 1 OBVIOUS
<1>7. f \in Frame /\ \A i \in 1 .. Len(m) : i < f BY <1>3, <1>6 DEF Frame
<1>8. PICK l : l = Len(b) OBVIOUS
<1>9. /\ e \in Seq(Frame) /\ DOMAIN b = 1 .. l /\ DOMAIN e = 1 .. l + 1 /\ l \in Nat
      /\ e[l + 1] = f /\ \A i \in 1 .. l : e[i] = b[i]
  BY <1>3, <1>6, <1>7, <1>8
<1>10. Items(e) = Items(b) \cup {f}
  <2>1. \A i \in 1 .. l + 1 : i \in 1 .. l \/ i = l + 1 BY <1>9
  <2>2. \A i \in 1 .. l : i \in 1 .. l + 1 BY <1>9
  <2>3. l + 1 \in 1 .. l + 1 BY <1>9
  <2>4. \A x \in Items(e) : x \in Items(b) \cup {f} BY <1>9, <2>1 DEF Items
  <2>5. \A x \in Items(b) \cup {f} : x \in Items(e) BY <1>9, <2>2, <2>3 DEF Items
  <2>6. QED BY <2>4, <2>5
<1>11. Upward(e)
  <2>1. SUFFICES ASSUME NEW i \in 1 .. l + 1, NEW j \in 1 .. l + 1, i < j PROVE e[i] < e[j] BY <1>9 DEF Upward
  <2>2. i \in 1 .. l /\ (j \in 1 .. l \/ j = l + 1) BY <1>9, <2>1
  <2>3. b[i] \in Items(b) BY <1>9, <2>2 DEF Items
  <2>4. CASE j = l + 1 BY <1>5, <1>7, <1>9, <2>2, <2>3, <2>4
  <2>5. CASE j \in 1 .. l BY <1>3, <1>9, <2>1, <2>2, <2>5 DEF Upward
  <2>6. QED BY <2>2, <2>4, <2>5
<1>12. PICK a : a = [of : {f}, part : {"head", "end"}] OBVIOUS
<1>13. Both(e) \subseteq Both(b) \cup a BY <1>10, <1>12 DEF Both
<1>14. W[8] = Both(b) /\ V[8] = Both(e) /\ \A i \in 1 .. 8 : i # 8 => V[i] = W[i]
  BY <1>1, <1>2, StagesAre, Eight
<1>15. Line(n, V) /\ Known(Len(n), V)
  <2>1. Are(a, Len(m) + 1) BY <1>6, <1>12 DEF Are
  <2>2. Enters(W, V, 8, a) BY <1>13, <1>14 DEF Enters
  <2>3. OtherKind(m, c, V, 8) BY DEF OtherKind
  <2>4. 8 \in 1 .. 8 OBVIOUS
  <2>5. QED BY <1>3, <1>4, <2>1, <2>2, <2>3, <2>4, LineNew
<1>16. \A x \in Items(e) : n[x] = "UpReq" BY <1>5, <1>6, <1>10
<1>17. QED BY <1>2, <1>5, <1>9, <1>11, <1>15, <1>16 DEF Flow

\* A message is written ahead of what is collected: these are Objects, and it is none.
LEMMA FlowAsk ==
  ASSUME NEW m, NEW g, NEW h, NEW s, NEW r, NEW p, NEW q, NEW t, NEW b, Flow(m, g, h, s, r, p, q, t, b),
         q = <<>>, t = <<>>, NEW c \in Kinds, c # "UpReq", NEW n, n = Append(m, c),
         NEW z, z = C!Pieces(<<Len(m) + 1>>)
  PROVE  Flow(n, g, h, s, r, p, z, t, b)
<1>1. PICK W : W = Stages(g, h, s, r, p, q, t, b) OBVIOUS
<1>2. PICK V : V = Stages(g, h, s, r, p, z, t, b) OBVIOUS
<1>3. Line(m, W) /\ Known(Len(m), W) /\ m \in Seq(Kinds) BY <1>1 DEF Flow
<1>20. Kept(m, c, n, g, s, r, p, q, b) BY FlowKeep
<1>4. /\ n \in Seq(Kinds) /\ Len(n) = Len(m) + 1 /\ n[Len(m) + 1] = c
      /\ Rising(n, s) /\ Rising(n, r) /\ Rising(n, p) /\ Rising(n, q)
      /\ \A i, j \in DOMAIN g : i < j => Before(n, HeadOf(g[i][1]), HeadOf(g[j][1]))
      /\ \A x \in Items(b) : x \in 1 .. Len(m) /\ n[x] = "UpReq"
  BY <1>20 DEF Kept
<1>5. PICK f : f = Len(m) + 1 OBVIOUS
<1>6. PICK w : w = <<f>> OBVIOUS
<1>7. f \in Frame BY <1>3, <1>5 DEF Frame
<1>8. w \in Seq(Frame) /\ DOMAIN w = {1} /\ w[1] = f BY <1>6, <1>7
<1>9. Upward(w) /\ Items(w) = {f} BY <1>8 DEF Upward, Items
<1>10. PICK a : a = Both(w) OBVIOUS
<1>11. z = C!Pieces(w) BY <1>5, <1>6
<1>12. z \in Seq(Piece) /\ Items(z) \subseteq a /\ Rising(n, z) BY <1>8, <1>9, <1>10, <1>11, PiecesRise
<1>13. Are(a, Len(m) + 1) BY <1>5, <1>9, <1>10 DEF Are, Both
<1>14. W[6] = Items(q) /\ V[6] = Items(z) /\ V[7] = Both(t) /\ V[8] = Both(b) BY <1>1, <1>2, StagesAre
<1>15. \A i \in 1 .. 8 : i # 6 => V[i] = W[i] BY <1>1, <1>2, StagesAre, Eight
<1>16. OtherKind(m, c, V, 6)
  <2>1. Both(t) = {} BY Nothing
  <2>2. \A y \in Both(b) : m[y.of] = "UpReq"
    <3>1. \A y \in Both(b) : y.of \in Items(b) BY DEF Both
    <3>2. QED BY <3>1 DEF Flow
  <2>3. \A k \in 1 .. 8 : 6 < k => k = 7 \/ k = 8 OBVIOUS
  <2>4. QED BY <1>14, <2>1, <2>2, <2>3 DEF OtherKind
<1>17. Line(n, V) /\ Known(Len(n), V)
  <2>0. V[6] \subseteq W[6] \cup a BY <1>12, <1>14
  <2>15. \A k \in 1 .. 8 : k # 6 => V[k] \subseteq W[k] BY <1>15
  <2>1. Enters(W, V, 6, a) /\ 6 \in 1 .. 8 BY <2>0, <2>15 DEF Enters
  <2>2. QED BY <1>3, <1>13, <1>16, <2>1, LineNew
<1>18. QED BY <1>2, <1>4, <1>12, <1>17 DEF Flow

-----------------------------------------------------------------------------
(* Whole frames: a head is followed by its own end, in the stage or at the *)
(* beginning of the next.                                                  *)

\* A stage to which a head was passed on whose end is to come first (0 for none)
Fits(s, o) ==
  /\ \A i \in DOMAIN s : s[i].part = "head" /\ i # Len(s) => s[i + 1] = EndOf(s[i].of)
  /\ o # 0 /\ s # <<>> => s[1] = EndOf(o)
\* The head it passes on
Owed(s, o) ==
  IF s = <<>> THEN o ELSE IF s[Len(s)].part = "head" THEN s[Len(s)].of ELSE 0

LEMMA NoneLeft ==
  ASSUME NEW s \in Seq(Piece)
  PROVE  s = <<>> <=> Len(s) = 0
BY EmptySeq

LEMMA FitsWeak ==
  ASSUME NEW s \in Seq(Piece), NEW o \in Nat, Fits(s, o)
  PROVE  /\ Fits(s, 0) /\ Owed(s, 0) \in {Owed(s, o), 0} /\ Owed(s, o) \in Nat
         /\ s # <<>> /\ s[1].part = "head" => o = 0
<1>1. Fits(s, 0) /\ Owed(s, 0) \in {Owed(s, o), 0} BY DEF Fits, Owed
<1>2. s # <<>> => s[Len(s)] \in Piece
  <2>1. SUFFICES ASSUME s # <<>> PROVE s[Len(s)] \in Piece OBVIOUS
  <2>2. Len(s) \in 1 .. Len(s) BY <2>1
  <2>3. QED BY <2>2
<1>3. Owed(s, o) \in Nat BY <1>2 DEF Owed, Piece, Frame
<1>4. ASSUME s # <<>>, s[1].part = "head", o # 0 PROVE FALSE
  <2>1. s[1] = EndOf(o) BY <1>4 DEF Fits
  <2>2. s[1].part = "end" BY <2>1 DEF EndOf
  <2>3. QED BY <1>4, <2>2
<1>5. QED BY <1>1, <1>3, <1>4

\* What s fits, its beginning a fits, and then its rest c.
Passed(s, o, a, c) ==
  /\ Fits(a, o) /\ Fits(c, Owed(a, o))
  /\ Owed(c, Owed(a, o)) = Owed(s, o)
Extends(s, o, a, t) ==
  Fits(t, o) /\ Owed(t, o) = Owed(a, Owed(s, o))

LEMMA FitsSplit ==
  ASSUME NEW s \in Seq(Piece), NEW o \in Nat, Fits(s, o), NEW k \in 0 .. Len(s),
         NEW a, a = SubSeq(s, 1, k), NEW c, c = C!Beyond(s, k)
  PROVE  Passed(s, o, a, c)
<1>1. /\ a \in Seq(Piece) /\ Len(a) = k /\ \A i \in 1 .. k : a[i] = s[i]
      /\ c \in Seq(Piece) /\ Len(c) = Len(s) - k /\ \A i \in 1 .. Len(s) - k : c[i] = s[k + i]
  <2>1. a \in Seq(Piece) /\ c \in Seq(Piece) /\ Cut(s, k, a, c) BY Split
  <2>2. QED BY <2>1 DEF Cut
<1>2. PICK n : n = Len(s) OBVIOUS
<1>3. n \in Nat /\ DOMAIN s = 1 .. n /\ DOMAIN a = 1 .. k /\ DOMAIN c = 1 .. n - k /\ k \in Nat /\ k <= n
  BY <1>1, <1>2
<1>4. \A i \in 1 .. n : s[i].part = "head" /\ i # n => s[i + 1] = EndOf(s[i].of) BY <1>2, <1>3 DEF Fits
<1>5. (a = <<>> <=> k = 0) /\ (c = <<>> <=> k = n) /\ (s = <<>> <=> n = 0)
  <2>1. a = <<>> <=> k = 0 BY <1>1, NoneLeft
  <2>2. c = <<>> <=> n - k = 0 BY <1>1, <1>2, NoneLeft
  <2>3. s = <<>> <=> n = 0 BY <1>2, NoneLeft
  <2>4. n - k = 0 <=> k = n BY <1>3
  <2>5. QED BY <2>1, <2>2, <2>3, <2>4
<1>6. Fits(a, o)
  <2>1. ASSUME NEW i \in 1 .. k, a[i].part = "head", i # k PROVE a[i + 1] = EndOf(a[i].of)
    <3>1. i \in 1 .. n /\ i # n /\ i + 1 \in 1 .. k BY <1>3, <2>1
    <3>2. QED BY <1>1, <1>4, <2>1, <3>1
  <2>2. ASSUME o # 0, k # 0 PROVE a[1] = EndOf(o)
    <3>1. 1 \in 1 .. k /\ n # 0 BY <1>3, <2>2
    <3>2. QED BY <1>1, <1>5, <2>2, <3>1 DEF Fits
  <2>3. QED BY <1>1, <1>3, <1>5, <2>1, <2>2 DEF Fits
<1>7. \A i \in 1 .. n - k : i # n - k => k + i \in 1 .. n /\ k + i # n /\ i + 1 \in 1 .. n - k /\ k + i + 1 = k + (i + 1)
  BY <1>3
<1>8. ASSUME NEW i \in 1 .. n - k, c[i].part = "head", i # n - k PROVE c[i + 1] = EndOf(c[i].of)
  <2>1. c[i] = s[k + i] /\ c[i + 1] = s[k + (i + 1)] BY <1>1, <1>2, <1>7, <1>8
  <2>2. k + i \in 1 .. n /\ k + i # n /\ k + i + 1 = k + (i + 1) BY <1>7, <1>8
  <2>3. s[k + i].part = "head" BY <1>8, <2>1
  <2>4. QED BY <1>4, <2>1, <2>2, <2>3
<1>9. CASE k = 0
  <2>1. Owed(a, o) = o BY <1>5, <1>9 DEF Owed
  <2>2. ASSUME o # 0, c # <<>> PROVE c[1] = EndOf(o)
    <3>1. n # 0 /\ 1 \in 1 .. n BY <1>3, <1>5, <1>9, <2>2
    <3>2. c[1] = s[1] BY <1>1, <1>2, <1>9, <3>1
    <3>3. QED BY <1>5, <2>2, <3>1, <3>2 DEF Fits
  <2>3. Fits(c, o) BY <1>1, <1>2, <1>3, <1>8, <2>2 DEF Fits
  <2>4. Owed(c, o) = Owed(s, o)
    <3>1. n # 0 => c[n] = s[n] BY <1>1, <1>2, <1>3, <1>9
    <3>2. Len(c) = n BY <1>1, <1>2, <1>9, <1>3
    <3>3. QED BY <1>2, <1>5, <1>9, <3>1, <3>2 DEF Owed
  <2>5. QED BY <1>6, <2>1, <2>3, <2>4 DEF Passed
<1>10. CASE k # 0
  <2>1. k \in 1 .. n /\ k \in 1 .. k /\ a[k] = s[k] /\ Len(a) = k BY <1>1, <1>3, <1>10
  <2>2. Owed(a, o) = IF s[k].part = "head" THEN s[k].of ELSE 0 BY <1>5, <1>10, <2>1 DEF Owed
  <2>3. ASSUME Owed(a, o) # 0, c # <<>> PROVE c[1] = EndOf(Owed(a, o))
    <3>1. s[k].part = "head" /\ Owed(a, o) = s[k].of BY <2>2, <2>3
    <3>2. k # n /\ 1 \in 1 .. n - k BY <1>3, <1>5, <2>3
    <3>3. c[1] = s[k + 1] BY <1>1, <1>2, <3>2
    <3>4. QED BY <1>4, <2>1, <3>1, <3>2, <3>3
  <2>4. Fits(c, Owed(a, o)) BY <1>1, <1>2, <1>3, <1>8, <2>3 DEF Fits
  <2>5. Owed(c, Owed(a, o)) = Owed(s, o)
    <3>1. CASE k = n
      <4>1. c = <<>> /\ s # <<>> /\ Len(s) = k BY <1>2, <1>5, <1>10, <3>1
      <4>2. QED BY <2>2, <4>1 DEF Owed
    <3>2. CASE k # n
      <4>1. c # <<>> /\ s # <<>> /\ Len(c) = n - k /\ n - k \in 1 .. n - k BY <1>1, <1>2, <1>3, <1>5, <1>10, <3>2
      <4>2. c[n - k] = s[n]
        <5>1. c[n - k] = s[k + (n - k)] BY <1>1, <1>2, <4>1
        <5>2. k + (n - k) = n BY <1>3
        <5>3. QED BY <5>1, <5>2
      <4>3. QED BY <1>2, <4>1, <4>2 DEF Owed
    <3>3. QED BY <3>1, <3>2
  <2>6. QED BY <1>6, <2>4, <2>5 DEF Passed
<1>11. QED BY <1>9, <1>10

LEMMA FitsJoin ==
  ASSUME NEW s \in Seq(Piece), NEW a \in Seq(Piece), NEW o \in Nat, Fits(s, o), Fits(a, Owed(s, o)),
         NEW t, t = s \o a
  PROVE  Extends(s, o, a, t)
<1>1. t \in Seq(Piece) /\ Joined(s, a, t) BY Join
<1>2. PICK n \in Nat, l \in Nat : n = Len(s) /\ l = Len(a) OBVIOUS
<1>3. /\ Len(t) = n + l /\ (\A i \in 1 .. n : t[i] = s[i]) /\ (\A i \in 1 .. l : t[n + i] = a[i])
      /\ \A i \in 1 .. n + l : i \in 1 .. n \/ \E j \in 1 .. l : i = n + j
  BY <1>1, <1>2 DEF Joined
<1>4. DOMAIN s = 1 .. n /\ DOMAIN a = 1 .. l /\ DOMAIN t = 1 .. n + l BY <1>1, <1>2, <1>3
<1>5. (s = <<>> <=> n = 0) /\ (a = <<>> <=> l = 0) /\ (t = <<>> <=> n + l = 0) BY <1>1, <1>2, <1>3
<1>6. \A i \in 1 .. n : s[i].part = "head" /\ i # n => s[i + 1] = EndOf(s[i].of) BY <1>2, <1>4 DEF Fits
<1>7. \A i \in 1 .. l : a[i].part = "head" /\ i # l => a[i + 1] = EndOf(a[i].of) BY <1>2, <1>4 DEF Fits
<1>8. \A i \in 1 .. n : s[i] \in Piece BY <1>4
<1>9. ASSUME NEW i \in 1 .. n + l, t[i].part = "head", i # n + l PROVE t[i + 1] = EndOf(t[i].of)
  <2>1. CASE i \in 1 .. n /\ i # n
    <3>1. i + 1 \in 1 .. n BY <1>2, <2>1
    <3>2. QED BY <1>3, <1>6, <1>9, <2>1, <3>1
  <2>2. CASE i = n
    <3>1. n # 0 /\ l # 0 /\ 1 \in 1 .. l /\ n \in 1 .. n BY <1>2, <1>9, <2>2
    <3>2. t[i] = s[n] /\ t[i + 1] = a[1] BY <1>3, <2>2, <3>1
    <3>3. Owed(s, o) = s[n].of BY <1>2, <1>5, <1>9, <3>1, <3>2 DEF Owed
    <3>4. s[n].of # 0 BY <1>8, <3>1 DEF Piece, Frame
    <3>5. a[1] = EndOf(Owed(s, o)) BY <1>5, <3>1, <3>3, <3>4 DEF Fits
    <3>6. QED BY <3>2, <3>3, <3>5
  <2>3. ASSUME NEW j \in 1 .. l, i = n + j PROVE t[i + 1] = EndOf(t[i].of)
    <3>0. j \in Nat /\ n \in Nat /\ l \in Nat BY <1>2
    <3>15. j # l BY <1>9, <2>3
    <3>1. j # l /\ j + 1 \in 1 .. l /\ i + 1 = n + (j + 1) BY <2>3, <3>0, <3>15
    <3>2. t[i] = a[j] /\ t[i + 1] = a[j + 1] BY <1>3, <2>3, <3>1
    <3>3. QED BY <1>7, <1>9, <3>1, <3>2
  <2>4. QED BY <1>3, <2>1, <2>2, <2>3
<1>10. ASSUME o # 0, t # <<>> PROVE t[1] = EndOf(o)
  <2>1. CASE n # 0
    <3>1. 1 \in 1 .. n BY <1>2, <2>1
    <3>2. QED BY <1>3, <1>5, <1>10, <2>1, <3>1 DEF Fits
  <2>2. CASE n = 0
    <3>1. l # 0 /\ 1 \in 1 .. l /\ n + 1 = 1 BY <1>2, <1>5, <1>10, <2>2
    <3>2. t[1] = a[1] BY <1>3, <3>1
    <3>3. Owed(s, o) = o BY <1>5, <2>2 DEF Owed
    <3>4. QED BY <1>5, <1>10, <3>1, <3>2, <3>3 DEF Fits
  <2>3. QED BY <2>1, <2>2
<1>11. Fits(t, o) BY <1>3, <1>4, <1>9, <1>10 DEF Fits
<1>12. Owed(t, o) = Owed(a, Owed(s, o))
  <2>1. CASE l # 0
    <3>1. l \in 1 .. l /\ n + l # 0 BY <1>2, <2>1
    <3>2. t[n + l] = a[l] BY <1>3, <3>1
    <3>3. QED BY <1>2, <1>3, <1>5, <2>1, <3>1, <3>2 DEF Owed
  <2>2. CASE l = 0
    <3>1. n + l = n BY <1>2, <2>2
    <3>2. n # 0 => t[n] = s[n] BY <1>2, <1>3
    <3>3. QED BY <1>2, <1>3, <1>5, <2>2, <3>1, <3>2 DEF Owed
  <2>3. QED BY <2>1, <2>2
<1>13. QED BY <1>11, <1>12 DEF Extends

LEMMA FitsPieces ==
  ASSUME NEW t \in Seq(Frame), Upward(t), NEW q, q = C!Pieces(t)
  PROVE  Fits(q, 0) /\ Owed(q, 0) = 0
<1>1. PICK n \in Nat : n = Len(t) OBVIOUS
<1>2. /\ q \in Seq(Piece) /\ Len(q) = 2 * n
      /\ \A i \in 1 .. n : q[2 * i] = EndOf(t[i]) /\ q[2 * i - 1] = HeadOf(t[i])
  BY <1>1, PiecesRise
<1>3. \A i \in 1 .. 2 * n : \E k \in 1 .. n : i = 2 * k \/ i = 2 * k - 1
  <2>1. SUFFICES ASSUME NEW i \in 1 .. 2 * n PROVE \E k \in 1 .. n : i = 2 * k \/ i = 2 * k - 1 OBVIOUS
  <2>2. (i + 1) \div 2 \in 1 .. n /\ (i = 2 * ((i + 1) \div 2) \/ i = 2 * ((i + 1) \div 2) - 1) BY <1>1
  <2>3. QED BY <2>2
<1>4. ASSUME NEW i \in 1 .. 2 * n, q[i].part = "head" PROVE q[i + 1] = EndOf(q[i].of)
  <2>1. PICK k \in 1 .. n : i = 2 * k \/ i = 2 * k - 1 BY <1>3
  <2>2. CASE i = 2 * k
    <3>1. q[i] = EndOf(t[k]) BY <1>2, <2>2
    <3>2. q[i].part = "end" BY <3>1 DEF EndOf
    <3>3. QED BY <1>4, <3>2
  <2>3. CASE i = 2 * k - 1
    <3>1. i + 1 = 2 * k BY <2>3
    <3>2. q[i] = HeadOf(t[k]) /\ q[i + 1] = EndOf(t[k]) BY <1>2, <2>3, <3>1
    <3>3. QED BY <3>2 DEF HeadOf
  <2>4. QED BY <2>1, <2>2, <2>3
<1>5. DOMAIN q = 1 .. 2 * n BY <1>2
<1>6. Fits(q, 0) BY <1>4, <1>5 DEF Fits
<1>7. Owed(q, 0) = 0
  <2>1. CASE q = <<>> BY <2>1 DEF Owed
  <2>2. CASE q # <<>>
    <3>1. n \in 1 .. n BY <1>1, <1>2, <2>2
    <3>2. q[Len(q)] = EndOf(t[n]) BY <1>2, <3>1
    <3>3. QED BY <2>2, <3>2 DEF EndOf, Owed
  <2>3. QED BY <2>1, <2>2
<1>8. QED BY <1>6, <1>7

\* From the socket to what the main task writes, every head finds its end.
Matched(h, s, r, p, q) ==
  LET o1 == Owed(s, h)
      o2 == Owed(r, o1)
      o3 == Owed(p, o2) IN
  Fits(s, h) /\ Fits(r, o1) /\ Fits(p, o2) /\ Fits(q, o3) /\ Owed(q, o3) = 0
Pieced(h, s, r, p, q) ==
  /\ h \in Nat /\ s \in Seq(Piece) /\ r \in Seq(Piece) /\ p \in Seq(Piece) /\ q \in Seq(Piece)

LEMMA MatchSend ==
  ASSUME NEW h, NEW s, NEW r, NEW p, NEW q, Pieced(h, s, r, p, q), Matched(h, s, r, p, q),
         NEW k \in 0 .. Len(r), NEW a, a = SubSeq(r, 1, k), NEW c, c = C!Beyond(r, k), NEW z, z = s \o a
  PROVE  Matched(h, z, c, p, q)
<1>1. PICK o1 : o1 = Owed(s, h) OBVIOUS
<1>2. PICK o2 : o2 = Owed(r, o1) OBVIOUS
<1>3. h \in Nat /\ s \in Seq(Piece) /\ r \in Seq(Piece) /\ Fits(s, h) /\ Fits(r, o1) BY <1>1 DEF Pieced, Matched
<1>4. o1 \in Nat BY <1>1, <1>3, FitsWeak
<1>5. a \in Seq(Piece) BY <1>3, Split
<1>16. Passed(r, o1, a, c) BY <1>2, <1>3, <1>4, FitsSplit
<1>6. Fits(a, o1) /\ Fits(c, Owed(a, o1)) /\ Owed(c, Owed(a, o1)) = o2 BY <1>2, <1>3, <1>4, <1>16 DEF Passed
<1>17. Extends(s, h, a, z) BY <1>1, <1>3, <1>5, <1>6, FitsJoin
<1>7. Fits(z, h) /\ Owed(z, h) = Owed(a, o1) BY <1>1, <1>3, <1>5, <1>6, <1>17 DEF Extends
<1>8. QED BY <1>1, <1>2, <1>6, <1>7 DEF Matched

LEMMA MatchTake ==
  ASSUME NEW h, NEW s, NEW r, NEW p, NEW q, Pieced(h, s, r, p, q), Matched(h, s, r, p, q), r = <<>>,
         NEW k \in 0 .. Len(p), NEW a, a = SubSeq(p, 1, k), NEW c, c = C!Beyond(p, k)
  PROVE  Matched(h, s, a, c, q)
<1>1. PICK o1 : o1 = Owed(s, h) OBVIOUS
<1>2. Owed(r, o1) = o1 BY DEF Owed
<1>3. PICK o3 : o3 = Owed(p, o1) OBVIOUS
<1>4. h \in Nat /\ s \in Seq(Piece) /\ p \in Seq(Piece) /\ Fits(s, h) /\ Fits(p, o1)
  BY <1>1, <1>2 DEF Pieced, Matched
<1>5. o1 \in Nat BY <1>1, <1>4, FitsWeak
<1>16. Passed(p, o1, a, c) BY <1>3, <1>4, <1>5, FitsSplit
<1>6. Fits(a, o1) /\ Fits(c, Owed(a, o1)) /\ Owed(c, Owed(a, o1)) = o3 BY <1>3, <1>4, <1>5, <1>16 DEF Passed
<1>7. QED BY <1>1, <1>2, <1>3, <1>6 DEF Matched

LEMMA MatchWrite ==
  ASSUME NEW h, NEW s, NEW r, NEW p, NEW q, Pieced(h, s, r, p, q), Matched(h, s, r, p, q),
         NEW k \in 0 .. Len(q), NEW a, a = SubSeq(q, 1, k), NEW c, c = C!Beyond(q, k), NEW z, z = p \o a
  PROVE  Matched(h, s, r, z, c)
<1>1. PICK o1 : o1 = Owed(s, h) OBVIOUS
<1>2. PICK o2 : o2 = Owed(r, o1) OBVIOUS
<1>3. PICK o3 : o3 = Owed(p, o2) OBVIOUS
<1>4. /\ h \in Nat /\ s \in Seq(Piece) /\ r \in Seq(Piece) /\ p \in Seq(Piece) /\ q \in Seq(Piece)
      /\ Fits(s, h) /\ Fits(r, o1) /\ Fits(p, o2) /\ Fits(q, o3) /\ Owed(q, o3) = 0
  BY <1>1, <1>2, <1>3 DEF Pieced, Matched
<1>5. o1 \in Nat BY <1>1, <1>4, FitsWeak
<1>6. o2 \in Nat BY <1>2, <1>4, <1>5, FitsWeak
<1>7. o3 \in Nat BY <1>3, <1>4, <1>6, FitsWeak
<1>8. a \in Seq(Piece) BY <1>4, Split
<1>19. Passed(q, o3, a, c) BY <1>4, <1>7, FitsSplit
<1>9. Fits(a, o3) /\ Fits(c, Owed(a, o3)) /\ Owed(c, Owed(a, o3)) = 0 BY <1>4, <1>7, <1>19 DEF Passed
<1>20. Extends(p, o2, a, z) BY <1>3, <1>4, <1>6, <1>8, <1>9, FitsJoin
<1>10. Fits(z, o2) /\ Owed(z, o2) = Owed(a, o3) BY <1>3, <1>4, <1>6, <1>8, <1>9, <1>20 DEF Extends
<1>11. QED BY <1>1, <1>2, <1>4, <1>9, <1>10 DEF Matched

\* Nothing is left to be written, and it begins with other frames.
LEMMA MatchNew ==
  ASSUME NEW h, NEW s, NEW r, NEW p, NEW q, Matched(h, s, r, p, q), q = <<>>,
         NEW t \in Seq(Frame), Upward(t), NEW z, z = C!Pieces(t)
  PROVE  Matched(h, s, r, p, z)
<1>1. PICK o : o = Owed(p, Owed(r, Owed(s, h))) OBVIOUS
<1>2. Owed(q, o) = o BY DEF Owed
<1>3. o = 0 BY <1>1, <1>2 DEF Matched
<1>4. Fits(z, o) /\ Owed(z, o) = 0 BY <1>3, FitsPieces
<1>5. QED BY <1>1, <1>4 DEF Matched

\* Who gives up the rest without a cut did not owe an end.
LEMMA NoCut ==
  ASSUME NEW s \in Seq(Piece), NEW o \in Nat, Fits(s, o), C!CutBy(s) = {}
  PROVE  s = <<>> \/ o = 0
<1>1. SUFFICES ASSUME s # <<>> PROVE o = 0 OBVIOUS
<1>2. s[1] \in Piece
  <2>1. 1 \in DOMAIN s BY <1>1
  <2>2. QED BY <2>1
<1>3. s[1].part # "end" BY <1>1 DEF C!CutBy
<1>4. s[1].part = "head" BY <1>2, <1>3 DEF Piece
<1>5. QED BY <1>1, <1>4, FitsWeak

LEMMA MatchGiveUp ==
  ASSUME NEW h, NEW s, NEW r, NEW p, NEW q, Pieced(h, s, r, p, q), Matched(h, s, r, p, q), C!CutBy(q) = {},
         NEW z, z = <<>>
  PROVE  Matched(h, s, r, p, z)
<1>1. PICK o1 : o1 = Owed(s, h) OBVIOUS
<1>2. PICK o2 : o2 = Owed(r, o1) OBVIOUS
<1>3. PICK o3 : o3 = Owed(p, o2) OBVIOUS
<1>4. /\ h \in Nat /\ s \in Seq(Piece) /\ r \in Seq(Piece) /\ p \in Seq(Piece) /\ q \in Seq(Piece)
      /\ Fits(s, h) /\ Fits(r, o1) /\ Fits(p, o2) /\ Fits(q, o3) /\ Owed(q, o3) = 0
  BY <1>1, <1>2, <1>3 DEF Pieced, Matched
<1>5. o1 \in Nat BY <1>1, <1>4, FitsWeak
<1>6. o2 \in Nat BY <1>2, <1>4, <1>5, FitsWeak
<1>7. o3 \in Nat BY <1>3, <1>4, <1>6, FitsWeak
<1>8. q = <<>> \/ o3 = 0 BY <1>4, <1>7, NoCut
<1>9. o3 = 0 BY <1>4, <1>8 DEF Owed
<1>10. Owed(z, o3) = 0 BY <1>9 DEF Owed
<1>11. Fits(z, o3) BY <1>9 DEF Fits
<1>12. QED BY <1>1, <1>2, <1>3, <1>4, <1>10, <1>11 DEF Matched

LEMMA MatchForget ==
  ASSUME NEW h, NEW s, NEW r, NEW p, NEW q, Pieced(h, s, r, p, q), Matched(h, s, r, p, q), C!CutBy(r) = {},
         NEW z, z = <<>>
  PROVE  Matched(h, s, z, p, q)
<1>1. PICK o1 : o1 = Owed(s, h) OBVIOUS
<1>2. PICK o2 : o2 = Owed(r, o1) OBVIOUS
<1>3. PICK o3 : o3 = Owed(p, o2) OBVIOUS
<1>4. /\ h \in Nat /\ s \in Seq(Piece) /\ r \in Seq(Piece) /\ p \in Seq(Piece) /\ q \in Seq(Piece)
      /\ Fits(s, h) /\ Fits(r, o1) /\ Fits(p, o2) /\ Fits(q, o3) /\ Owed(q, o3) = 0
  BY <1>1, <1>2, <1>3 DEF Pieced, Matched
<1>5. o1 \in Nat BY <1>1, <1>4, FitsWeak
<1>6. o2 \in Nat BY <1>2, <1>4, <1>5, FitsWeak
<1>7. Owed(z, o1) = o1 /\ Fits(z, o1) BY DEF Owed, Fits
<1>8. CASE r = <<>> BY <1>8
<1>9. CASE o1 = 0
  <2>1. Fits(p, 0) /\ Owed(p, 0) \in {o3, 0} BY <1>3, <1>4, <1>6, FitsWeak
  <2>2. PICK o : o = Owed(p, 0) OBVIOUS
  <2>3. o3 \in Nat BY <1>3, <1>4, <1>6, FitsWeak
  <2>4. Fits(q, 0) /\ Owed(q, 0) \in {Owed(q, o3), 0} BY <1>4, <2>3, FitsWeak
  <2>5. Fits(q, o) /\ Owed(q, o) = 0 BY <1>4, <2>1, <2>2, <2>4
  <2>6. QED BY <1>1, <1>4, <1>7, <1>9, <2>1, <2>2, <2>5 DEF Matched
<1>10. QED BY <1>4, <1>5, <1>8, <1>9, NoCut

\* The head that csmgrd holds once it has read a piece x
Holds(x) == IF x.part = "head" THEN x.of ELSE 0
Awaited(s, h) == h # 0 => s[1] = EndOf(h)

LEMMA MatchRead ==
  ASSUME NEW h, NEW s, NEW r, NEW p, NEW q, Pieced(h, s, r, p, q), Matched(h, s, r, p, q),
         s # <<>>
  PROVE  Matched(Holds(s[1]), Tail(s), r, p, q) /\ Awaited(s, h)
<1>0. PICK u, k : u = Tail(s) /\ k = Holds(s[1]) OBVIOUS
<1>1. h \in Nat /\ s \in Seq(Piece) /\ Fits(s, h) BY DEF Pieced, Matched
<1>2. PICK a : a = SubSeq(s, 1, 1) OBVIOUS
<1>3. Parted(s, a, u) BY <1>0, <1>1, <1>2, TailIs
<1>4. /\ 1 \in 0 .. Len(s) /\ a \in Seq(Piece) /\ Len(a) = 1 /\ a[1] = s[1] /\ u = C!Beyond(s, 1)
      /\ s[1] \in Piece
  BY <1>3 DEF Parted
<1>15. Passed(s, h, a, u) BY <1>1, <1>2, <1>4, FitsSplit
<1>5. Fits(u, Owed(a, h)) /\ Owed(u, Owed(a, h)) = Owed(s, h) BY <1>15 DEF Passed
<1>6. a # <<>>
  <2>1. a \in Seq(Piece) /\ Len(a) # 0 BY <1>4
  <2>2. QED BY <2>1, NoneLeft
<1>7. Owed(a, h) = k BY <1>0, <1>4, <1>6 DEF Owed, Holds
<1>8. Awaited(s, h) BY <1>1 DEF Fits, Awaited
<1>9. QED BY <1>0, <1>5, <1>7, <1>8 DEF Matched

-----------------------------------------------------------------------------
(* The invariant of the way to csmgrd.                                     *)

Mains ==
  {C!Idle} \cup [at : {"connect", "await"}, what : {"PreCcninfo", "Ccninfo", "ContInfo"}]
    \cup [at : {"write"}, rest : Seq(Piece), tries : Nat, then : Seq(Frame)]
Senders == {C!Idle} \cup [at : {"first", "more"}, rest : Seq(Piece), count : Nat]

MainRest(w) == IF w.at = "write" THEN w.rest ELSE <<>>
MainThen(w) == IF w.at = "write" THEN w.then ELSE <<>>
SenderRest(w) == IF w.at \in {"first", "more"} THEN w.rest ELSE <<>>

LinkTypes ==
  /\ main \in Mains /\ sender \in Senders /\ peer \in [up : BOOLEAN, head : Nat] /\ crashes \in Nat
  /\ Len(sock) <= SockRoom /\ Len(pipe) <= PipeRoom
LinkFlow ==
  Flow(made, got, peer.head, sock, SenderRest(sender), pipe, MainRest(main), MainThen(main), batch)
Ends(g) == \A i \in DOMAIN g : g[i][1] = g[i][2]
LinkWhole ==
  cut = {} /\ crashes = 0 =>
    Ends(got) /\ Matched(peer.head, sock, SenderRest(sender), pipe, MainRest(main))
LinkInv == LinkTypes /\ LinkFlow /\ LinkWhole

LEMMA IdleRests ==
  C!Idle \in Mains /\ C!Idle \in Senders /\ MainRest(C!Idle) = <<>> /\ MainThen(C!Idle) = <<>>
    /\ SenderRest(C!Idle) = <<>> /\ C!Idle.at = "idle"
BY DEF C!Idle, Mains, Senders, MainRest, MainThen, SenderRest

LEMMA FlowPieced ==
  ASSUME NEW m, NEW g, NEW h, NEW s, NEW r, NEW p, NEW q, NEW t, NEW b, Flow(m, g, h, s, r, p, q, t, b)
  PROVE  Pieced(h, s, r, p, q)
BY DEF Flow, Pieced

\* What the main task has to write
Writes(w, first, second) ==
  /\ w \in Mains
  /\ first # <<>> => MainRest(w) = C!Pieces(first) /\ MainThen(w) = second
  /\ first = <<>> /\ second # <<>> => MainRest(w) = C!Pieces(second) /\ MainThen(w) = <<>>
  /\ first = <<>> /\ second = <<>> => MainRest(w) = <<>> /\ MainThen(w) = <<>>

LEMMA WritingIs ==
  ASSUME NEW first \in Seq(Frame), Upward(first), NEW second \in Seq(Frame), Upward(second),
         NEW w, w = C!Writing(first, second)
  PROVE  Writes(w, first, second)
<1>1. ASSUME NEW t \in Seq(Frame), Upward(t), NEW u \in Seq(Frame), NEW x, x = C!Write(t, u)
      PROVE  x \in Mains /\ MainRest(x) = C!Pieces(t) /\ MainThen(x) = u
  <2>1. x = [at |-> "write", rest |-> C!Pieces(t), tries |-> 0, then |-> u] BY <1>1 DEF C!Write
  <2>2. PICK z : z = C!Pieces(t) OBVIOUS
  <2>3. z \in Seq(Piece) BY <1>1, <2>2, PiecesRise
  <2>4. QED BY <2>1, <2>2, <2>3 DEF Mains, MainRest, MainThen
<1>2. CASE first # <<>>
  <2>1. w = C!Write(first, second) BY <1>2 DEF C!Writing
  <2>2. w \in Mains /\ MainRest(w) = C!Pieces(first) /\ MainThen(w) = second BY <1>1, <2>1
  <2>3. QED BY <1>2, <2>2 DEF Writes
<1>3. CASE first = <<>> /\ second # <<>>
  <2>1. PICK e \in Seq(Frame) : e = <<>> BY Nothing
  <2>2. w = C!Write(second, e) BY <1>3, <2>1 DEF C!Writing
  <2>3. w \in Mains /\ MainRest(w) = C!Pieces(second) /\ MainThen(w) = e BY <1>1, <2>2
  <2>4. QED BY <1>3, <2>1, <2>3 DEF Writes
<1>4. CASE first = <<>> /\ second = <<>>
  <2>1. w = C!Idle BY <1>4 DEF C!Writing
  <2>2. QED BY <1>4, <2>1, IdleRests DEF Writes
<1>5. QED BY <1>2, <1>3, <1>4

LEMMA LinkMinOfTwo ==
  ASSUME NEW a \in Int, NEW b \in Int
  PROVE  C!Min({a, b}) = IF a <= b THEN a ELSE b
BY DEF C!Min

\* How much goes into what has room for n, of which l is used
LEMMA FitsIn ==
  ASSUME NEW n \in Nat, NEW l \in Nat, l <= n, NEW j \in Nat, NEW k, k = C!Min({n - l, j})
  PROVE  k \in 0 .. j /\ l + k <= n
<1>1. n - l \in Int /\ j \in Int OBVIOUS
<1>2. k = IF n - l <= j THEN n - l ELSE j BY <1>1, LinkMinOfTwo
<1>3. QED BY <1>1, <1>2

LEMMA SizesAre ==
  /\ PipeRoom \in Nat \ {0} /\ WriteTries \in Nat \ {0} /\ BatchRoom \in Nat \ {0} /\ SockRoom \in Nat \ {0}
  /\ ReadMax \in Nat \ {0} /\ SendTries \in Nat \ {0}
BY ContentStoreAssumption DEF ContentStoreAssumption

LEMMA MainWrites ==
  ASSUME LinkInv, main.at = "write"
  PROVE  /\ main.rest \in Seq(Piece) /\ main.then \in Seq(Frame) /\ main.tries \in Nat
         /\ MainRest(main) = main.rest /\ MainThen(main) = main.then
         /\ main \in [at : {"write"}, rest : Seq(Piece), tries : Nat, then : Seq(Frame)]
<1>1. main \in [at : {"write"}, rest : Seq(Piece), tries : Nat, then : Seq(Frame)]
  BY DEF LinkInv, LinkTypes, Mains, C!Idle
<1>2. QED BY <1>1 DEF MainRest, MainThen

LEMMA DoWritePipe ==
  ASSUME LinkInv, C!WritePipe
  PROVE  LinkInv'
<1>1. PICK q, t, r, h : q = main.rest /\ t = main.then /\ r = SenderRest(sender) /\ h = peer.head OBVIOUS
<1>2. main.at = "write" BY DEF C!WritePipe
<1>3. /\ q \in Seq(Piece) /\ t \in Seq(Frame) /\ main.tries \in Nat /\ MainRest(main) = q /\ MainThen(main) = t
      /\ main \in [at : {"write"}, rest : Seq(Piece), tries : Nat, then : Seq(Frame)]
  BY <1>1, <1>2, MainWrites
<1>4. Flow(made, got, h, sock, r, pipe, q, t, batch) BY <1>1, <1>3 DEF LinkInv, LinkFlow
<1>5. pipe \in Seq(Piece) /\ Len(pipe) \in Nat /\ Len(q) \in Nat /\ Upward(t) BY <1>3, <1>4 DEF Flow
<1>6. PICK k : k = C!Min({PipeRoom - Len(pipe), Len(q)}) OBVIOUS
<1>7. k \in 0 .. Len(q) /\ Len(pipe) + k <= PipeRoom
  BY <1>5, <1>6, SizesAre, FitsIn DEF LinkInv, LinkTypes
<1>8. PICK a, c, z : a = SubSeq(q, 1, k) /\ c = C!Beyond(q, k) /\ z = pipe \o a OBVIOUS
<1>9. a \in Seq(Piece) /\ c \in Seq(Piece) /\ Len(a) = k /\ Len(c) = Len(q) - k
  <2>1. a \in Seq(Piece) /\ c \in Seq(Piece) /\ Cut(q, k, a, c) BY <1>3, <1>7, <1>8, Split
  <2>2. QED BY <2>1 DEF Cut
<1>10. (IF k = Len(q) THEN <<>> ELSE C!Left(q, k)) = c
  <2>1. CASE k = Len(q)
    <3>1. Len(c) = 0 BY <1>5, <1>9, <2>1
    <3>2. QED BY <1>9, <2>1, <3>1, NoneLeft
  <2>2. CASE k # Len(q) BY <1>8, <2>2 DEF C!Left
  <2>3. QED BY <2>1, <2>2
<1>11. Flow(made, got, h, sock, r, z, c, t, batch) BY <1>4, <1>7, <1>8, FlowWrite
<1>12. Len(z) <= PipeRoom
  <2>1. z \in Seq(Piece) /\ Joined(pipe, a, z) BY <1>5, <1>8, <1>9, Join
  <2>2. QED BY <1>7, <1>9, <2>1 DEF Joined
<1>13. cut = {} /\ crashes = 0 => Ends(got) /\ Matched(h, sock, r, z, c)
  <2>1. Pieced(h, sock, r, pipe, q) BY <1>4, FlowPieced
  <2>2. cut = {} /\ crashes = 0 => Ends(got) /\ Matched(h, sock, r, pipe, q)
    BY <1>1, <1>3 DEF LinkInv, LinkWhole
  <2>3. QED BY <1>7, <1>8, <2>1, <2>2, MatchWrite
<1>14. PICK over \in BOOLEAN :
          /\ UNCHANGED <<made, got, sock, sender, peer, batch, crashes>> /\ pipe' = z
          /\ main' = IF over THEN C!Writing(t, <<>>) ELSE [main EXCEPT !.rest = c, !.tries = @ + 1]
          /\ cut' = IF over THEN cut \cup C!CutBy(c) ELSE cut
  <2>1. PICK stale \in BOOLEAN, over \in BOOLEAN :
          /\ over = (c = <<>> \/ main.tries + 1 = WriteTries \/ (k > 0 /\ stale))
          /\ UNCHANGED <<made, got, sock, sender, peer, batch, crashes>> /\ pipe' = z
          /\ main' = IF over THEN C!Writing(t, <<>>) ELSE [main EXCEPT !.rest = c, !.tries = @ + 1]
          /\ cut' = IF over THEN cut \cup C!CutBy(c) ELSE cut
    BY <1>1, <1>6, <1>8, <1>10 DEF C!WritePipe
  <2>2. QED BY <2>1
<1>15. CASE ~over
  <2>1. main' = [main EXCEPT !.rest = c, !.tries = @ + 1] /\ cut' = cut BY <1>14, <1>15
  <2>2. /\ main' \in [at : {"write"}, rest : Seq(Piece), tries : Nat, then : Seq(Frame)]
        /\ main'.at = "write" /\ main'.rest = c /\ main'.then = t
    <3>1. PICK n \in Nat : n = main.tries BY <1>3
    <3>2. PICK w : w = [at |-> "write", rest |-> q, tries |-> n, then |-> t] OBVIOUS
    <3>3. main = w BY <1>1, <1>3, <3>1, <3>2
    <3>4. main' = [w EXCEPT !.rest = c, !.tries = n + 1] BY <2>1, <3>1, <3>3
    <3>5. main' = [at |-> "write", rest |-> c, tries |-> n + 1, then |-> t] BY <3>2, <3>4
    <3>6. n + 1 \in Nat BY <3>1
    <3>7. QED BY <1>3, <1>9, <3>5, <3>6
  <2>3. MainRest(main') = c /\ MainThen(main') = t BY <2>2 DEF MainRest, MainThen
  <2>4. LinkTypes' BY <1>12, <1>14, <2>2 DEF LinkInv, LinkTypes, Mains
  <2>5. LinkFlow' BY <1>1, <1>11, <1>14, <2>3 DEF LinkFlow
  <2>6. LinkWhole' BY <1>1, <1>13, <1>14, <2>1, <2>3 DEF LinkWhole
  <2>7. QED BY <2>4, <2>5, <2>6 DEF LinkInv
<1>16. CASE over
  <2>1. PICK e \in Seq(Frame) : e = <<>> /\ Upward(e) BY Nothing
  <2>2. PICK f : f = main' OBVIOUS
  <2>3. f = C!Writing(t, e) /\ cut' = cut \cup C!CutBy(c) BY <1>14, <1>16, <2>1, <2>2
  <2>4. Writes(f, t, e) BY <1>3, <1>5, <2>1, <2>3, WritingIs
  <2>5. PICK y : y = <<>> OBVIOUS
  <2>6. Flow(made, got, h, sock, r, z, y, t, batch) BY <1>11, <2>5, FlowLess
  <2>7. cut' = {} /\ crashes = 0 => Ends(got) /\ Matched(h, sock, r, z, y)
    <3>1. Pieced(h, sock, r, z, c) BY <1>11, FlowPieced
    <3>2. cut' = {} => cut = {} /\ C!CutBy(c) = {} BY <2>3
    <3>3. QED BY <1>13, <2>5, <3>1, <3>2, MatchGiveUp
  <2>8. f \in Mains BY <2>4 DEF Writes
  <2>9. LinkTypes' BY <1>12, <1>14, <2>2, <2>8 DEF LinkInv, LinkTypes
  <2>10. CASE t = <<>>
    <3>1. MainRest(f) = y /\ MainThen(f) = t BY <2>1, <2>4, <2>5, <2>10 DEF Writes
    <3>2. LinkFlow' BY <1>1, <1>14, <2>2, <2>6, <3>1 DEF LinkFlow
    <3>3. LinkWhole' BY <1>1, <1>14, <2>2, <2>7, <3>1 DEF LinkWhole
    <3>4. QED BY <2>9, <3>2, <3>3 DEF LinkInv
  <2>11. CASE t # <<>>
    <3>1. PICK x : x = C!Pieces(t) OBVIOUS
    <3>2. MainRest(f) = x /\ MainThen(f) = e BY <2>4, <2>11, <3>1 DEF Writes
    <3>3. Flow(made, got, h, sock, r, z, x, e, batch) BY <2>1, <2>5, <2>6, <3>1, FlowNext
    <3>4. cut' = {} /\ crashes = 0 => Ends(got) /\ Matched(h, sock, r, z, x)
      BY <1>3, <1>5, <2>5, <2>7, <3>1, MatchNew
    <3>5. LinkFlow' BY <1>1, <1>14, <2>2, <3>2, <3>3 DEF LinkFlow
    <3>6. LinkWhole' BY <1>1, <1>14, <2>2, <3>2, <3>4 DEF LinkWhole
    <3>7. QED BY <2>9, <3>5, <3>6 DEF LinkInv
  <2>12. QED BY <2>10, <2>11
<1>17. QED BY <1>15, <1>16

\* What the main task does when it has nothing to write leaves the rest of the way alone.
Alone == UNCHANGED <<got, pipe, sender, sock, peer, cut, crashes>>
\* The way to csmgrd, with messages m, first list q, second list t and batch b
LinkWith(m, q, t, b) ==
  Flow(m, got, peer.head, sock, SenderRest(sender), pipe, q, t, b)
WholeWith(q) ==
  cut = {} /\ crashes = 0 => Ends(got) /\ Matched(peer.head, sock, SenderRest(sender), pipe, q)

LEMMA MainDoes ==
  ASSUME LinkInv, Alone, main' \in Mains, NEW q, NEW t, MainRest(main') = q, MainThen(main') = t,
         LinkWith(made', q, t, batch'), WholeWith(q)
  PROVE  LinkInv'
<1>1. LinkTypes' BY DEF LinkInv, LinkTypes, Alone
<1>2. LinkFlow' BY DEF LinkWith, LinkFlow, Alone
<1>3. LinkWhole' BY DEF WholeWith, LinkWhole, Alone
<1>4. QED BY <1>1, <1>2, <1>3 DEF LinkInv

LEMMA IdleLink ==
  ASSUME LinkInv, main = C!Idle, NEW e, e = <<>>
  PROVE  LinkWith(made, e, e, batch) /\ WholeWith(e)
<1>1. MainRest(main) = e /\ MainThen(main) = e BY IdleRests
<1>2. QED BY <1>1 DEF LinkInv, LinkFlow, LinkWhole, LinkWith, WholeWith

LEMMA WholeNew ==
  ASSUME NEW e, e = <<>>, WholeWith(e), NEW u \in Seq(Frame), Upward(u), NEW z, z = C!Pieces(u)
  PROVE  WholeWith(z)
<1>1. SUFFICES ASSUME cut = {}, crashes = 0
               PROVE  Ends(got) /\ Matched(peer.head, sock, SenderRest(sender), pipe, z)
  BY DEF WholeWith
<1>2. Ends(got) /\ Matched(peer.head, sock, SenderRest(sender), pipe, e) BY <1>1 DEF WholeWith
<1>3. QED BY <1>2, MatchNew

LEMMA LinkLists ==
  ASSUME NEW m, NEW q, NEW t, NEW b, LinkWith(m, q, t, b)
  PROVE  m \in Seq(Kinds) /\ t \in Seq(Frame) /\ Upward(t) /\ b \in Seq(Frame) /\ Upward(b)
BY DEF LinkWith, Flow

LEMMA ListObject ==
  ASSUME NEW m, NEW q, NEW t, NEW b, LinkWith(m, q, t, b), NEW n, n = Append(m, "UpReq"),
         NEW e, e = Append(b, Len(m) + 1)
  PROVE  LinkWith(n, q, t, e)
BY FlowObject DEF LinkWith

LEMMA ListPush ==
  ASSUME NEW m, NEW b, NEW e, e = <<>>, LinkWith(m, e, e, b), NEW z, z = C!Pieces(b)
  PROVE  LinkWith(m, z, e, e)
<1>1. LinkWith(m, e, b, e) BY FlowHold DEF LinkWith
<1>2. QED BY <1>1, FlowNext DEF LinkWith

LEMMA ListHold ==
  ASSUME NEW m, NEW q, NEW b, NEW e, e = <<>>, LinkWith(m, q, e, b)
  PROVE  LinkWith(m, q, b, e)
BY FlowHold DEF LinkWith

\* An Object is collected.
LEMMA DoCollect ==
  ASSUME LinkInv, main = C!Idle, Alone, NEW f, f = Len(made) + 1, made' = Append(made, "UpReq"),
         NEW b, b = IF C!Flush(batch) THEN <<f>> ELSE Append(batch, f),
         NEW first, first = IF C!Flush(batch) THEN batch ELSE <<>>,
         NEW last \in BOOLEAN,
         IF last THEN batch' = <<>> /\ main' = C!Writing(first, b)
         ELSE batch' = b /\ main' = C!Writing(first, <<>>)
  PROVE  LinkInv'
<1>1. PICK e : e = <<>> OBVIOUS
<1>2. LinkWith(made, e, e, batch) /\ WholeWith(e) BY <1>1, IdleLink
<1>3. PICK n : n = made' OBVIOUS
<1>4. made \in Seq(Kinds) /\ batch \in Seq(Frame) /\ Upward(batch) BY <1>2, LinkLists
<1>5. e \in Seq(Frame) /\ Upward(e) BY <1>1, Nothing
<1>6. PICK w : w = main' OBVIOUS
<1>7. f \in Frame BY <1>4 DEF Frame
<1>8. CASE ~C!Flush(batch)
  <2>1. first = e /\ b = Append(batch, f) BY <1>1, <1>8
  <2>2. LinkWith(n, e, e, b) BY <1>2, <1>3, <2>1, ListObject
  <2>3. b \in Seq(Frame) /\ Upward(b) BY <2>2, LinkLists
  <2>4. CASE ~last
    <3>1. w = C!Writing(e, e) /\ batch' = b BY <1>1, <1>6, <2>1, <2>4
    <3>2. Writes(w, e, e) BY <1>5, <3>1, WritingIs
    <3>3. w \in Mains /\ MainRest(w) = e /\ MainThen(w) = e BY <1>1, <3>2 DEF Writes
    <3>4. QED BY <1>2, <1>3, <1>6, <2>2, <3>1, <3>3, MainDoes
  <2>5. CASE last
    <3>1. w = C!Writing(e, b) /\ batch' = e BY <1>1, <1>6, <2>1, <2>5
    <3>2. Writes(w, e, b) BY <1>5, <2>3, <3>1, WritingIs
    <3>3. b # <<>>
      <4>1. Append(batch, f) # <<>> BY <1>4, <1>7, AppendProperties
      <4>2. QED BY <2>1, <4>1
    <3>4. PICK z : z = C!Pieces(b) OBVIOUS
    <3>5. w \in Mains /\ MainRest(w) = z /\ MainThen(w) = e BY <1>1, <3>2, <3>3, <3>4 DEF Writes
    <3>6. LinkWith(n, z, e, e) BY <1>1, <2>2, <3>4, ListPush
    <3>7. WholeWith(z) BY <1>1, <1>2, <2>3, <3>4, WholeNew
    <3>8. QED BY <1>3, <1>6, <3>1, <3>5, <3>6, <3>7, MainDoes
  <2>6. QED BY <2>4, <2>5
<1>9. CASE C!Flush(batch)
  <2>1. first = batch /\ b = Append(e, f) /\ batch # <<>>
    <3>1. Len(batch) = BatchRoom BY <1>9 DEF C!Flush
    <3>2. batch # <<>> BY <1>4, <3>1, SizesAre
    <3>3. <<f>> = Append(<<>>, f) OBVIOUS
    <3>4. QED BY <1>1, <1>9, <3>2, <3>3
  <2>2. PICK z : z = C!Pieces(batch) OBVIOUS
  <2>3. LinkWith(made, z, e, e) BY <1>1, <1>2, <2>2, ListPush
  <2>4. LinkWith(n, z, e, b) BY <1>3, <2>1, <2>3, ListObject
  <2>5. b \in Seq(Frame) /\ Upward(b) BY <2>4, LinkLists
  <2>6. WholeWith(z) BY <1>1, <1>2, <1>4, <2>2, WholeNew
  <2>7. CASE ~last
    <3>1. w = C!Writing(batch, e) /\ batch' = b BY <1>1, <1>6, <2>1, <2>7
    <3>2. Writes(w, batch, e) BY <1>4, <1>5, <3>1, WritingIs
    <3>3. w \in Mains /\ MainRest(w) = z /\ MainThen(w) = e BY <2>1, <2>2, <3>2 DEF Writes
    <3>4. QED BY <1>3, <1>6, <2>4, <2>6, <3>1, <3>3, MainDoes
  <2>8. CASE last
    <3>1. w = C!Writing(batch, b) /\ batch' = e BY <1>1, <1>6, <2>1, <2>8
    <3>2. Writes(w, batch, b) BY <1>4, <2>5, <3>1, WritingIs
    <3>3. w \in Mains /\ MainRest(w) = z /\ MainThen(w) = b BY <2>1, <2>2, <3>2 DEF Writes
    <3>4. LinkWith(n, z, b, e) BY <1>1, <2>4, ListHold
    <3>5. QED BY <1>3, <1>6, <2>6, <3>1, <3>3, <3>4, MainDoes
  <2>9. QED BY <2>7, <2>8
<1>10. QED BY <1>8, <1>9

\* The main task asks.
LEMMA DoAsk ==
  ASSUME LinkInv, main = C!Idle, Alone, UNCHANGED batch, NEW c \in Kinds, c # "UpReq",
         made' = Append(made, c), main' = C!Writing(<<Len(made) + 1>>, <<>>)
  PROVE  LinkInv'
<1>1. PICK e : e = <<>> OBVIOUS
<1>2. LinkWith(made, e, e, batch) /\ WholeWith(e) BY <1>1, IdleLink
<1>3. e \in Seq(Frame) /\ Upward(e) BY <1>1, Nothing
<1>4. PICK u : u = <<Len(made) + 1>> OBVIOUS
<1>5. made \in Seq(Kinds) BY <1>2, LinkLists
<1>6. Len(made) + 1 \in Frame BY <1>5 DEF Frame
<1>7. u \in Seq(Frame) /\ DOMAIN u = {1} /\ u # <<>> BY <1>4, <1>6
<1>8. Upward(u) BY <1>7 DEF Upward
<1>9. PICK z : z = C!Pieces(u) OBVIOUS
<1>10. PICK n, w : n = made' /\ w = main' OBVIOUS
<1>11. LinkWith(n, z, e, batch)
  <2>1. z = C!Pieces(<<Len(made) + 1>>) BY <1>4, <1>9
  <2>2. QED BY <1>1, <1>2, <1>10, <2>1, FlowAsk DEF LinkWith
<1>12. WholeWith(z) BY <1>1, <1>2, <1>7, <1>8, <1>9, WholeNew
<1>13. w = C!Writing(u, e) BY <1>1, <1>4, <1>10
<1>14. Writes(w, u, e) BY <1>3, <1>7, <1>8, <1>13, WritingIs
<1>15. w \in Mains /\ MainRest(w) = z /\ MainThen(w) = e BY <1>7, <1>9, <1>14 DEF Writes
<1>16. QED BY <1>10, <1>11, <1>12, <1>15, MainDoes

\* It does nothing for csmgrd.
LEMMA DoElse ==
  ASSUME LinkInv, main.at # "write", Alone, UNCHANGED <<made, batch>>, main' \in Mains, main'.at # "write"
  PROVE  LinkInv'
<1>1. PICK e : e = <<>> OBVIOUS
<1>2. MainRest(main) = e /\ MainThen(main) = e BY <1>1 DEF MainRest, MainThen
<1>3. LinkWith(made, e, e, batch) /\ WholeWith(e)
  BY <1>2 DEF LinkInv, LinkFlow, LinkWhole, LinkWith, WholeWith
<1>4. MainRest(main') = e /\ MainThen(main') = e BY <1>1 DEF MainRest, MainThen
<1>5. QED BY <1>3, <1>4, MainDoes

LEMMA DoCome ==
  ASSUME LinkInv, C!Come
  PROVE  LinkInv'
<1>1. main = C!Idle /\ Alone /\ main.at # "write" BY IdleRests DEF C!Come, Alone
<1>2. PICK v : v = Head(script) /\ (C!ComeObject(v) \/ C!ComeDead(v) \/ C!ComeInterest(v) \/ C!ComeQuestion(v))
  BY DEF C!Come
<1>3. CASE UNCHANGED <<main, batch, made>>
  <2>1. main' \in Mains /\ main'.at # "write" BY <1>1, <1>3, IdleRests
  <2>2. QED BY <1>1, <1>3, <2>1, DoElse
<1>4. CASE C!ComeObject(v) /\ Access = "RW" /\ v.chunk
  <2>1. PICK f : f = Len(made) + 1 OBVIOUS
  <2>2. PICK b : b = IF C!Flush(batch) THEN <<f>> ELSE Append(batch, f) OBVIOUS
  <2>3. PICK first : first = IF C!Flush(batch) THEN batch ELSE <<>> OBVIOUS
  <2>4. /\ made' = Append(made, "UpReq")
        /\ IF v.last THEN batch' = <<>> /\ main' = C!Writing(first, b)
           ELSE batch' = b /\ main' = C!Writing(first, <<>>)
    BY <1>4, <2>1, <2>2, <2>3 DEF C!ComeObject
  <2>5. PICK last \in BOOLEAN : IF last THEN batch' = <<>> /\ main' = C!Writing(first, b)
                                ELSE batch' = b /\ main' = C!Writing(first, <<>>)
    BY <2>4
  <2>6. QED BY <1>1, <2>1, <2>2, <2>3, <2>4, <2>5, DoCollect
<1>5. CASE C!ComeInterest(v) /\ ~(C!Hit(v) /\ ~v.chunk)
  <2>1. PICK c \in Kinds : c = C!FrameFor(v) /\ c # "UpReq" BY DEF C!FrameFor, Kinds
  <2>2. made' = Append(made, c) /\ main' = C!Writing(<<Len(made) + 1>>, <<>>) /\ UNCHANGED batch
    BY <1>5, <2>1 DEF C!ComeInterest
  <2>3. QED BY <1>1, <2>1, <2>2, DoAsk
<1>6. CASE C!ComeQuestion(v)
  <2>1. main' = [at |-> "connect", what |-> v.what] /\ v.what \in {"PreCcninfo", "Ccninfo", "ContInfo"}
        /\ UNCHANGED <<made, batch>>
    BY <1>6 DEF C!ComeQuestion
  <2>2. main' \in Mains /\ main'.at # "write" BY <2>1 DEF Mains
  <2>3. QED BY <1>1, <2>1, <2>2, DoElse
<1>7. C!ComeObject(v) => UNCHANGED <<main, batch, made>> \/ (Access = "RW" /\ v.chunk) BY DEF C!ComeObject
<1>8. C!ComeDead(v) => UNCHANGED <<main, batch, made>> BY DEF C!ComeDead
<1>9. C!ComeInterest(v) => UNCHANGED <<main, batch, made>> \/ ~(C!Hit(v) /\ ~v.chunk) BY DEF C!ComeInterest
<1>10. QED BY <1>2, <1>3, <1>4, <1>5, <1>6, <1>7, <1>8, <1>9

LEMMA DoPush ==
  ASSUME LinkInv, C!Push
  PROVE  LinkInv'
<1>1. PICK e : e = <<>> OBVIOUS
<1>2. main = C!Idle /\ batch # <<>> /\ batch' = e /\ main' = C!Writing(batch, e) /\ Alone /\ made' = made
  BY <1>1 DEF C!Push, Alone
<1>3. LinkWith(made, e, e, batch) /\ WholeWith(e) BY <1>1, <1>2, IdleLink
<1>4. batch \in Seq(Frame) /\ Upward(batch) BY <1>3, LinkLists
<1>5. e \in Seq(Frame) /\ Upward(e) BY <1>1, Nothing
<1>6. PICK w, z : w = main' /\ z = C!Pieces(batch) OBVIOUS
<1>7. Writes(w, batch, e) BY <1>2, <1>4, <1>5, <1>6, WritingIs
<1>8. w \in Mains /\ MainRest(w) = z /\ MainThen(w) = e BY <1>2, <1>6, <1>7 DEF Writes
<1>9. LinkWith(made, z, e, e) BY <1>1, <1>3, <1>6, ListPush
<1>10. WholeWith(z) BY <1>1, <1>3, <1>4, <1>6, WholeNew
<1>11. QED BY <1>2, <1>6, <1>8, <1>9, <1>10, MainDoes

\* What the thread does leaves both ends of the way alone.
Between == UNCHANGED <<made, got, main, batch, peer, crashes>>

LEMMA SenderDoes ==
  ASSUME LinkInv, Between, sender' \in Senders, NEW r, SenderRest(sender') = r,
         NEW s, sock' = s, NEW p, pipe' = p, NEW q, q = MainRest(main), Len(s) <= SockRoom, Len(p) <= PipeRoom,
         Flow(made, got, peer.head, s, r, p, q, MainThen(main), batch),
         cut' = {} /\ crashes = 0 => Ends(got) /\ Matched(peer.head, s, r, p, q)
  PROVE  LinkInv'
<1>1. LinkTypes' BY DEF LinkInv, LinkTypes, Between
<1>2. LinkFlow' BY DEF LinkFlow, Between
<1>3. LinkWhole' BY DEF LinkWhole, Between
<1>4. QED BY <1>1, <1>2, <1>3 DEF LinkInv

\* What LinkInv says with names for the parts of the way
Parts(h, s, r, p, q) ==
  /\ h = peer.head /\ s = sock /\ r = SenderRest(sender) /\ p = pipe /\ q = MainRest(main)
  /\ Flow(made, got, h, s, r, p, q, MainThen(main), batch) /\ Pieced(h, s, r, p, q)
  /\ cut = {} /\ crashes = 0 => Ends(got) /\ Matched(h, s, r, p, q)
  /\ Len(s) \in Nat /\ Len(s) <= SockRoom /\ Len(p) \in Nat /\ Len(p) <= PipeRoom /\ Len(r) \in Nat

LEMMA PartsAre ==
  ASSUME LinkInv
  PROVE  \E h, s, r, p, q : Parts(h, s, r, p, q)
<1>1. PICK h, s, r, p, q : h = peer.head /\ s = sock /\ r = SenderRest(sender) /\ p = pipe /\ q = MainRest(main)
  OBVIOUS
<1>2. Flow(made, got, h, s, r, p, q, MainThen(main), batch) BY <1>1 DEF LinkInv, LinkFlow
<1>3. Pieced(h, s, r, p, q) BY <1>2, FlowPieced
<1>4. cut = {} /\ crashes = 0 => Ends(got) /\ Matched(h, s, r, p, q) BY <1>1 DEF LinkInv, LinkWhole
<1>5. Len(s) <= SockRoom /\ Len(p) <= PipeRoom BY <1>1 DEF LinkInv, LinkTypes
<1>6. Len(s) \in Nat /\ Len(p) \in Nat /\ Len(r) \in Nat BY <1>3 DEF Pieced
<1>7. Parts(h, s, r, p, q) BY <1>1, <1>2, <1>3, <1>4, <1>5, <1>6 DEF Parts
<1>8. QED BY <1>7

LEMMA SenderBusy ==
  ASSUME LinkInv, sender.at \in {"first", "more"}
  PROVE  /\ sender.rest \in Seq(Piece) /\ sender.count \in Nat /\ SenderRest(sender) = sender.rest
         /\ sender \in [at : {"first", "more"}, rest : Seq(Piece), count : Nat]
<1>1. sender \in [at : {"first", "more"}, rest : Seq(Piece), count : Nat]
  BY DEF LinkInv, LinkTypes, Senders, C!Idle
<1>2. QED BY <1>1 DEF SenderRest

LEMMA BusyIs ==
  ASSUME NEW at \in {"first", "more"}, NEW r \in Seq(Piece), NEW n \in Nat,
         NEW w, w = [at |-> at, rest |-> r, count |-> n]
  PROVE  w \in Senders /\ SenderRest(w) = r
BY DEF Senders, SenderRest

LEMMA DoTakeFromPipe ==
  ASSUME LinkInv, C!TakeFromPipe
  PROVE  LinkInv'
<1>1. PICK h, s, r, p, q : Parts(h, s, r, p, q) BY PartsAre
<1>2. r = <<>> BY <1>1, IdleRests DEF Parts, C!TakeFromPipe
<1>3. PICK k : k = C!Min({ReadMax, Len(p)}) OBVIOUS
<1>4. p \in Seq(Piece) /\ Len(p) \in Nat BY <1>1 DEF Parts, Pieced
<1>5. k \in 0 .. Len(p)
  <2>1. ReadMax \in Int /\ Len(p) \in Int /\ ReadMax \in Nat BY <1>4, SizesAre
  <2>2. k = IF ReadMax <= Len(p) THEN ReadMax ELSE Len(p) BY <1>3, <2>1, LinkMinOfTwo
  <2>3. QED BY <1>4, <2>1, <2>2
<1>6. PICK a, c : a = SubSeq(p, 1, k) /\ c = C!Beyond(p, k) OBVIOUS
<1>7. a \in Seq(Piece) /\ c \in Seq(Piece) /\ Len(c) = Len(p) - k
  <2>1. a \in Seq(Piece) /\ c \in Seq(Piece) /\ Cut(p, k, a, c) BY <1>4, <1>5, <1>6, Split
  <2>2. QED BY <2>1 DEF Cut
<1>8. /\ sender' = [at |-> "first", rest |-> a, count |-> 0] /\ pipe' = c /\ sock' = s
      /\ cut' = cut /\ Between
  BY <1>1, <1>3, <1>6 DEF C!TakeFromPipe, Parts, Between
<1>9. sender' \in Senders /\ SenderRest(sender') = a BY <1>7, <1>8, BusyIs
<1>10. Flow(made, got, h, s, a, c, q, MainThen(main), batch) BY <1>1, <1>2, <1>5, <1>6, FlowTake DEF Parts
<1>11. cut = {} /\ crashes = 0 => Ends(got) /\ Matched(h, s, a, c, q)
  BY <1>1, <1>2, <1>5, <1>6, MatchTake DEF Parts
<1>12. Len(c) <= PipeRoom /\ Len(s) <= SockRoom
  <2>1. Len(p) <= PipeRoom /\ Len(s) <= SockRoom BY <1>1 DEF Parts
  <2>2. QED BY <1>4, <1>5, <1>7, <2>1, SizesAre
<1>13. h = peer.head /\ q = MainRest(main) BY <1>1 DEF Parts
<1>14. QED BY <1>8, <1>9, <1>10, <1>11, <1>12, <1>13, SenderDoes

\* The thread gives up a rest r of the parts.
LEMMA SenderGivesUp ==
  ASSUME LinkInv, Between, NEW h, NEW s, NEW r, NEW p, NEW q,
         Flow(made, got, h, s, r, p, q, MainThen(main), batch), h = peer.head, q = MainRest(main),
         cut = {} /\ crashes = 0 => Ends(got) /\ Matched(h, s, r, p, q),
         sender' = C!Idle, sock' = s, pipe' = p, cut' = cut \cup C!CutBy(r), Len(s) <= SockRoom, Len(p) <= PipeRoom
  PROVE  LinkInv'
<1>1. PICK z : z = <<>> OBVIOUS
<1>2. sender' \in Senders /\ SenderRest(sender') = z BY <1>1, IdleRests
<1>3. Flow(made, got, h, s, z, p, q, MainThen(main), batch) BY <1>1, FlowLess
<1>4. cut' = {} /\ crashes = 0 => Ends(got) /\ Matched(h, s, z, p, q)
  <2>1. Pieced(h, s, r, p, q) BY FlowPieced
  <2>2. cut' = {} => cut = {} /\ C!CutBy(r) = {} OBVIOUS
  <2>3. QED BY <1>1, <2>1, <2>2, MatchForget
<1>5. QED BY <1>2, <1>3, <1>4, SenderDoes

\* The socket takes k pieces of the thread's.
Sent(h, z, c, p, q, n) ==
  /\ Flow(made, got, h, z, c, p, q, MainThen(main), batch)
  /\ cut = {} /\ crashes = 0 => Ends(got) /\ Matched(h, z, c, p, q)
  /\ Len(z) <= SockRoom /\ c \in Seq(Piece) /\ Len(c) = n

LEMMA SenderSends ==
  ASSUME NEW h, NEW s, NEW r, NEW p, NEW q, Parts(h, s, r, p, q), NEW k \in 0 .. Len(r), Len(s) + k <= SockRoom,
         NEW a, a = SubSeq(r, 1, k), NEW c, c = C!Beyond(r, k), NEW z, z = s \o a
  PROVE  Sent(h, z, c, p, q, Len(r) - k)
<1>1. Flow(made, got, h, z, c, p, q, MainThen(main), batch) BY FlowSend DEF Parts
<1>2. cut = {} /\ crashes = 0 => Ends(got) /\ Matched(h, z, c, p, q) BY MatchSend DEF Parts
<1>3. s \in Seq(Piece) /\ r \in Seq(Piece) BY DEF Parts, Pieced
<1>4. a \in Seq(Piece) /\ c \in Seq(Piece) /\ Cut(r, k, a, c) BY <1>3, Split
<1>5. z \in Seq(Piece) /\ Joined(s, a, z) BY <1>3, <1>4, Join
<1>6. Len(a) = k /\ Len(c) = Len(r) - k /\ Len(z) = Len(s) + Len(a) BY <1>4, <1>5 DEF Cut, Joined
<1>7. QED BY <1>1, <1>2, <1>4, <1>6 DEF Sent

LEMMA DoReconnect ==
  ASSUME LinkInv, C!Reconnect
  PROVE  LinkInv'
<1>1. PICK h, s, r, p, q : Parts(h, s, r, p, q) BY PartsAre
<1>2. sender.at = "first" /\ sock' = s /\ pipe' = p /\ Between BY <1>1 DEF C!Reconnect, Parts, Between
<1>3. r = sender.rest BY <1>1, <1>2, SenderBusy DEF Parts
<1>4. Len(s) <= SockRoom /\ Len(p) <= PipeRoom /\ h = peer.head /\ q = MainRest(main) BY <1>1 DEF Parts
<1>5. Flow(made, got, h, s, r, p, q, MainThen(main), batch) BY <1>1 DEF Parts
<1>6. cut = {} /\ crashes = 0 => Ends(got) /\ Matched(h, s, r, p, q) BY <1>1 DEF Parts
<1>7. CASE sender' = sender /\ cut' = cut
  <2>1. sender' \in Senders /\ SenderRest(sender') = r BY <1>1, <1>7 DEF LinkInv, LinkTypes, Parts
  <2>2. QED BY <1>2, <1>4, <1>5, <1>6, <1>7, <2>1, SenderDoes
<1>8. CASE C!GiveUp
  <2>1. sender' = C!Idle /\ cut' = cut \cup C!CutBy(r) BY <1>3, <1>8 DEF C!GiveUp
  <2>2. QED BY <1>2, <1>4, <1>5, <1>6, <2>1, SenderGivesUp
<1>9. QED BY <1>7, <1>8 DEF C!Reconnect

LEMMA AcceptedIs ==
  ASSUME NEW h, NEW s, NEW r, NEW p, NEW q, Parts(h, s, r, p, q), r = sender.rest, NEW k, k = C!Accepted
  PROVE  k \in 0 .. Len(r) /\ Len(s) + k <= SockRoom
<1>1. Len(s) \in Nat /\ Len(s) <= SockRoom /\ Len(r) \in Nat /\ s = sock BY DEF Parts
<1>2. k = IF link = "lost" THEN 0 ELSE C!Min({SockRoom - Len(s), Len(r)}) BY <1>1 DEF C!Accepted
<1>3. CASE link = "lost" BY <1>1, <1>2, <1>3
<1>4. CASE link # "lost" BY <1>1, <1>2, <1>4, SizesAre, FitsIn
<1>5. QED BY <1>3, <1>4

LEMMA DoSendFirst ==
  ASSUME LinkInv, C!SendFirst
  PROVE  LinkInv'
<1>1. PICK h, s, r, p, q : Parts(h, s, r, p, q) BY PartsAre
<1>2. sender.at = "first" /\ pipe' = p /\ Between BY <1>1 DEF C!SendFirst, Parts, Between
<1>3. r = sender.rest /\ r \in Seq(Piece) BY <1>1, <1>2, SenderBusy DEF Parts
<1>4. Len(s) <= SockRoom /\ Len(p) <= PipeRoom /\ h = peer.head /\ q = MainRest(main) /\ s = sock
  BY <1>1 DEF Parts
<1>5. PICK k : k = C!Accepted OBVIOUS
<1>6. k \in 0 .. Len(r) /\ Len(s) + k <= SockRoom BY <1>1, <1>3, <1>5, AcceptedIs
<1>7. CASE k = 0
  <2>1. sender' = C!Idle /\ cut' = cut \cup C!CutBy(r) /\ sock' = s
    BY <1>3, <1>4, <1>5, <1>7 DEF C!SendFirst, C!GiveUp
  <2>2. Flow(made, got, h, s, r, p, q, MainThen(main), batch) BY <1>1 DEF Parts
  <2>3. cut = {} /\ crashes = 0 => Ends(got) /\ Matched(h, s, r, p, q) BY <1>1 DEF Parts
  <2>4. QED BY <1>2, <1>4, <2>1, <2>2, <2>3, SenderGivesUp
<1>8. CASE k # 0
  <2>1. PICK a, c, z : a = SubSeq(r, 1, k) /\ c = C!Beyond(r, k) /\ z = s \o a OBVIOUS
  <2>2. /\ sock' = z /\ cut' = cut
        /\ sender' = IF k = Len(r) THEN C!Idle ELSE [at |-> "more", rest |-> c, count |-> 1]
    BY <1>3, <1>4, <1>5, <1>8, <2>1 DEF C!SendFirst, C!Unsent
  <2>3. /\ Flow(made, got, h, z, c, p, q, MainThen(main), batch)
        /\ cut = {} /\ crashes = 0 => Ends(got) /\ Matched(h, z, c, p, q)
        /\ Len(z) <= SockRoom /\ c \in Seq(Piece) /\ Len(c) = Len(r) - k
    <3>1. Sent(h, z, c, p, q, Len(r) - k) BY <1>1, <1>6, <2>1, SenderSends
    <3>2. QED BY <3>1 DEF Sent
  <2>4. sender' \in Senders /\ SenderRest(sender') = c
    <3>1. CASE k = Len(r)
      <4>1. Len(c) = 0 BY <1>6, <2>3, <3>1
      <4>2. c = <<>> BY <2>3, <4>1, NoneLeft
      <4>3. QED BY <2>2, <3>1, <4>2, IdleRests
    <3>2. CASE k # Len(r) BY <2>2, <2>3, <3>2, BusyIs
    <3>3. QED BY <3>1, <3>2
  <2>5. QED BY <1>2, <1>4, <2>2, <2>3, <2>4, SenderDoes
<1>9. QED BY <1>7, <1>8

LEMMA DoSendMore ==
  ASSUME LinkInv, C!SendMore
  PROVE  LinkInv'
<1>1. PICK h, s, r, p, q : Parts(h, s, r, p, q) BY PartsAre
<1>2. sender.at = "more" /\ pipe' = p /\ Between BY <1>1 DEF C!SendMore, Parts, Between
<1>3. r = sender.rest /\ r \in Seq(Piece) /\ sender.count \in Nat BY <1>1, <1>2, SenderBusy DEF Parts
<1>4. Len(s) <= SockRoom /\ Len(s) \in Nat /\ Len(r) \in Nat /\ Len(p) <= PipeRoom /\ h = peer.head
      /\ q = MainRest(main) /\ s = sock
  BY <1>1 DEF Parts
<1>5. PICK k : k = IF link = "closed" THEN 0 ELSE C!Accepted OBVIOUS
<1>6. k \in 0 .. Len(r) /\ Len(s) + k <= SockRoom
  <2>1. CASE link = "closed" BY <1>4, <1>5, <2>1
  <2>2. CASE link # "closed" BY <1>1, <1>3, <1>5, <2>2, AcceptedIs
  <2>3. QED BY <2>1, <2>2
<1>7. PICK a, c, z : a = SubSeq(r, 1, k) /\ c = C!Beyond(r, k) /\ z = s \o a OBVIOUS
<1>8. /\ sock' = z
      /\ IF c = <<>> \/ C!CountUp(sender.count) > SendTries
         THEN sender' = C!Idle /\ cut' = cut \cup C!CutBy(c)
         ELSE sender' = [sender EXCEPT !.rest = c, !.count = C!CountUp(@)] /\ cut' = cut
  BY <1>3, <1>4, <1>5, <1>7 DEF C!SendMore, C!Unsent
<1>9. /\ Flow(made, got, h, z, c, p, q, MainThen(main), batch)
      /\ cut = {} /\ crashes = 0 => Ends(got) /\ Matched(h, z, c, p, q)
      /\ Len(z) <= SockRoom /\ c \in Seq(Piece) /\ Len(c) = Len(r) - k
  <2>1. Sent(h, z, c, p, q, Len(r) - k) BY <1>1, <1>6, <1>7, SenderSends
  <2>2. QED BY <2>1 DEF Sent
<1>10. CASE c = <<>> \/ C!CountUp(sender.count) > SendTries
  <2>1. sender' = C!Idle /\ cut' = cut \cup C!CutBy(c) BY <1>8, <1>10
  <2>2. QED BY <1>2, <1>4, <1>8, <1>9, <2>1, SenderGivesUp
<1>11. CASE ~(c = <<>> \/ C!CountUp(sender.count) > SendTries)
  <2>1. PICK n \in Nat : n = sender.count BY <1>3
  <2>2. PICK w : w = [at |-> "more", rest |-> r, count |-> n] OBVIOUS
  <2>3. sender = w BY <1>2, <1>3, <2>1, <2>2, SenderBusy
  <2>4. sender' = [w EXCEPT !.rest = c, !.count = n + 1] /\ cut' = cut BY <1>8, <1>11, <2>1, <2>3 DEF C!CountUp
  <2>5. sender' = [at |-> "more", rest |-> c, count |-> n + 1] BY <2>2, <2>4
  <2>8. n + 1 \in Nat BY <2>1
  <2>6. sender' \in Senders /\ SenderRest(sender') = c BY <1>9, <2>5, <2>8, BusyIs
  <2>7. QED BY <1>2, <1>4, <1>8, <1>9, <2>4, <2>6, SenderDoes
<1>12. QED BY <1>10, <1>11

-----------------------------------------------------------------------------
(* csmgrd's end of the way.                                                *)

LEMMA DoPeerRead ==
  ASSUME LinkInv, C!PeerRead
  PROVE  LinkInv'
<1>1. PICK h, s, r, p, q : Parts(h, s, r, p, q) BY PartsAre
<1>2. PICK t : t = MainThen(main) OBVIOUS
<1>3. /\ h = peer.head /\ s = sock /\ r = SenderRest(sender) /\ p = pipe /\ q = MainRest(main)
      /\ Flow(made, got, h, s, r, p, q, t, batch) /\ Pieced(h, s, r, p, q)
      /\ cut = {} /\ crashes = 0 => Ends(got) /\ Matched(h, s, r, p, q)
      /\ Len(s) \in Nat /\ Len(s) <= SockRoom
  BY <1>1, <1>2 DEF Parts
<1>4. s \in Seq(Piece) /\ h \in Nat BY <1>3 DEF Pieced
<1>5. PICK u : u = Tail(s) OBVIOUS
<1>6. PICK a : a = SubSeq(s, 1, 1) OBVIOUS
<1>7. s # <<>> /\ sock' = u BY <1>3, <1>5 DEF C!PeerRead
<1>8. Parted(s, a, u) BY <1>4, <1>5, <1>6, <1>7, TailIs
<1>9. PICK x \in Piece : x = s[1] /\ x = Head(s) BY <1>8 DEF Parted
<1>10. Len(u) <= SockRoom
  <2>1. Len(u) = Len(s) - 1 BY <1>4, <1>5, <1>7, HeadTailProperties
  <2>2. QED BY <1>3, <2>1, SizesAre
<1>11. PICK k : k = IF x.part = "head" THEN x.of ELSE 0 OBVIOUS
<1>12. ASSUME cut = {}, crashes = 0 PROVE Matched(k, u, r, p, q) /\ (h # 0 => x = EndOf(h))
  <2>1. Matched(h, s, r, p, q) /\ Pieced(h, s, r, p, q) BY <1>3, <1>12
  <2>2. k = Holds(s[1]) BY <1>9, <1>11 DEF Holds
  <2>3. s # <<>> BY <1>7
  <2>4. Matched(Holds(s[1]), Tail(s), r, p, q) /\ Awaited(s, h) BY <2>1, <2>3, MatchRead
  <2>5. QED BY <1>5, <1>9, <2>2, <2>4 DEF Awaited
<1>13. UNCHANGED <<made, main, batch, sender, pipe, cut, crashes>> BY DEF C!PeerRead
<1>14. k \in Nat BY <1>11 DEF Piece, Frame
<1>15. ASSUME NEW i \in Nat, peer' = [peer EXCEPT !.head = i] PROVE LinkTypes' /\ peer'.head = i
  <2>1. peer' \in [up : BOOLEAN, head : Nat] /\ peer'.head = i BY <1>15 DEF LinkInv, LinkTypes
  <2>2. QED BY <1>7, <1>10, <1>13, <2>1 DEF LinkInv, LinkTypes
<1>16. CASE h # 0
  <2>1. PICK e : e = Append(got, <<h, x.of>>) OBVIOUS
  <2>2. got' = e /\ peer' = [peer EXCEPT !.head = 0] BY <1>3, <1>9, <1>16, <2>1 DEF C!PeerRead
  <2>3. LinkTypes' /\ peer'.head = 0 BY <1>15, <2>2
  <2>4. PICK z : z = 0 OBVIOUS
  <2>5. Flow(made, e, z, u, r, p, q, t, batch) BY <1>3, <1>5, <1>7, <1>9, <1>16, <2>1, <2>4, FlowEnd
  <2>6. LinkFlow' BY <1>2, <1>3, <1>7, <1>13, <2>2, <2>3, <2>4, <2>5 DEF LinkFlow
  <2>7. ASSUME cut = {}, crashes = 0 PROVE Ends(e) /\ Matched(z, u, r, p, q)
    <3>1. x.of = h /\ x.part = "end" /\ Ends(got) BY <1>3, <1>12, <1>16, <2>7 DEF EndOf
    <3>2. k = z BY <1>11, <2>4, <3>1
    <3>3. Matched(z, u, r, p, q) BY <1>12, <2>7, <3>2
    <3>4. got \in Seq(Nat \X Nat) BY <1>3 DEF Flow
    <3>5. PICK y : y = <<h, x.of>> OBVIOUS
    <3>6. y \in Nat \X Nat /\ y[1] = y[2] BY <1>4, <3>1, <3>5
    <3>7. PICK n \in Nat : n = Len(got) BY <3>4
    <3>8. DOMAIN got = 1 .. n /\ DOMAIN e = 1 .. n + 1 /\ e[n + 1] = y /\ \A i \in 1 .. n : e[i] = got[i]
      BY <2>1, <3>4, <3>5, <3>6, <3>7
    <3>9. \A i \in 1 .. n + 1 : i \in 1 .. n \/ i = n + 1 BY <3>7
    <3>10. Ends(e) BY <3>1, <3>6, <3>8, <3>9 DEF Ends
    <3>11. QED BY <3>3, <3>10
  <2>8. LinkWhole' BY <1>3, <1>7, <1>13, <2>2, <2>3, <2>4, <2>7 DEF LinkWhole
  <2>9. QED BY <2>3, <2>6, <2>8 DEF LinkInv
<1>17. CASE h = 0
  <2>1. got' = got /\ peer' = IF x.part = "head" THEN [peer EXCEPT !.head = x.of] ELSE peer
    BY <1>3, <1>9, <1>17 DEF C!PeerRead
  <2>2. peer' = [peer EXCEPT !.head = k]
    <3>1. peer = [peer EXCEPT !.head = 0] BY <1>3, <1>17 DEF LinkInv, LinkTypes
    <3>2. CASE x.part = "head" BY <1>11, <2>1, <3>2
    <3>3. CASE x.part # "head" BY <1>11, <2>1, <3>1, <3>3
    <3>4. QED BY <3>2, <3>3
  <2>3. LinkTypes' /\ peer'.head = k BY <1>14, <1>15, <2>2
  <2>4. k = 0 \/ (k = s[1].of /\ s[1].part = "head") BY <1>9, <1>11
  <2>5. Flow(made, got, k, u, r, p, q, t, batch) BY <1>3, <1>5, <1>7, <1>17, <2>4, FlowHead
  <2>6. LinkFlow' BY <1>2, <1>3, <1>7, <1>13, <2>1, <2>3, <2>5 DEF LinkFlow
  <2>7. LinkWhole' BY <1>3, <1>7, <1>12, <1>13, <2>1, <2>3 DEF LinkWhole
  <2>8. QED BY <2>3, <2>6, <2>7 DEF LinkInv
<1>18. QED BY <1>16, <1>17

LEMMA DoPeerCrash ==
  ASSUME LinkInv, C!PeerCrash
  PROVE  LinkInv'
<1>1. PICK e, k : e = <<>> /\ k = 0 OBVIOUS
<1>2. /\ crashes' = crashes + 1 /\ peer' = [up |-> FALSE, head |-> k] /\ sock' = e
      /\ UNCHANGED <<made, got, main, batch, sender, pipe, cut>>
  BY <1>1 DEF C!PeerCrash
<1>3. crashes \in Nat /\ Len(e) = 0 BY <1>1 DEF LinkInv, LinkTypes
<1>4. LinkTypes' BY <1>1, <1>2, <1>3, SizesAre DEF LinkInv, LinkTypes
<1>5. PICK h, s, r, q, t : /\ h = peer.head /\ s = sock /\ r = SenderRest(sender) /\ q = MainRest(main)
                           /\ t = MainThen(main)
  OBVIOUS
<1>6. Flow(made, got, h, s, r, pipe, q, t, batch) BY <1>5 DEF LinkInv, LinkFlow
<1>7. Flow(made, got, k, e, r, pipe, q, t, batch) BY <1>1, <1>6, FlowLess
<1>8. peer'.head = k BY <1>2
<1>9. LinkFlow' BY <1>2, <1>5, <1>7, <1>8 DEF LinkFlow
<1>10. LinkWhole' BY <1>2, <1>3 DEF LinkWhole
<1>11. QED BY <1>4, <1>9, <1>10 DEF LinkInv

\* The rest does not touch the way.
LEMMA DoAside ==
  ASSUME LinkInv, UNCHANGED <<made, got, main, batch, sender, pipe, sock, cut, crashes>>,
         peer' \in [up : BOOLEAN, head : Nat], peer'.head = peer.head
  PROVE  LinkInv'
<1>1. LinkTypes' BY DEF LinkInv, LinkTypes
<1>2. LinkFlow' BY DEF LinkInv, LinkFlow
<1>3. LinkWhole' BY DEF LinkInv, LinkWhole
<1>4. QED BY <1>1, <1>2, <1>3 DEF LinkInv

LEMMA DoConnect ==
  ASSUME LinkInv, C!Connect \/ C!Answer
  PROVE  LinkInv'
<1>1. main.at \in {"connect", "await"} /\ Alone /\ UNCHANGED <<made, batch>>
  BY DEF C!Connect, C!Answer, Alone
<1>2. main \in [at : {"connect", "await"}, what : {"PreCcninfo", "Ccninfo", "ContInfo"}]
  BY <1>1 DEF LinkInv, LinkTypes, Mains, C!Idle
<1>3. main' = C!Idle \/ main' = [main EXCEPT !.at = "await"] BY DEF C!Connect, C!Answer
<1>4. main' \in Mains /\ main'.at # "write"
  <2>1. CASE main' = C!Idle BY <2>1, IdleRests
  <2>2. CASE main' = [main EXCEPT !.at = "await"]
    <3>1. main' \in [at : {"connect", "await"}, what : {"PreCcninfo", "Ccninfo", "ContInfo"}] BY <1>2, <2>2
    <3>2. QED BY <3>1 DEF Mains
  <2>3. QED BY <1>3, <2>1, <2>2
<1>5. QED BY <1>1, <1>4, DoElse

-----------------------------------------------------------------------------
(* What csmgrd receives.                                                   *)

\* The other content store is not in use: nothing comes to csmgrd.
RecvInv ==
  /\ mode \in {"Localcache", "Excache"}
  /\ mode = "Excache" => LinkInv
  /\ mode = "Localcache" => got = <<>>

LEMMA RecvInit ==
  ASSUME Init
  PROVE  RecvInv
<1>1. PICK e, z : e = <<>> /\ z = 0 OBVIOUS
<1>2. /\ mode \in {"Localcache", "Excache"} /\ main = C!Idle /\ sender = C!Idle /\ peer = [up |-> TRUE, head |-> z]
      /\ crashes = 0 /\ sock = e /\ pipe = e /\ made = e /\ got = e /\ batch = e
  BY <1>1 DEF Init, C!InitLink
<1>3. LinkTypes
  <2>1. Len(e) = 0 /\ peer \in [up : BOOLEAN, head : Nat] BY <1>1, <1>2
  <2>2. QED BY <1>2, <2>1, IdleRests, SizesAre DEF LinkTypes
<1>4. MainRest(main) = e /\ MainThen(main) = e /\ SenderRest(sender) = e /\ peer.head = z BY <1>1, <1>2, IdleRests
<1>5. Flow(e, e, z, e, e, e, e, e, e)
  <2>1. PICK W : W = Stages(e, z, e, e, e, e, e, e) OBVIOUS
  <2>2. Gone(e) = {} /\ Hold(z) = {} /\ Items(e) = {} /\ Both(e) = {} BY <1>1 DEF Gone, Hold, Items, Both
  <2>3. \A k \in 1 .. 8 : W[k] = {} BY <2>1, <2>2, StagesAre, Eight
  <2>4. Line(e, W) /\ Known(Len(e), W) BY <2>3 DEF Line, Known, Ahead
  <2>5. Rising(e, e) /\ Upward(e) /\ e \in Seq(Kinds) /\ e \in Seq(Nat \X Nat) /\ e \in Seq(Piece) /\ e \in Seq(Frame)
    BY <1>1 DEF Rising, Upward
  <2>6. (\A i, j \in DOMAIN e : i < j => Before(e, HeadOf(e[i][1]), HeadOf(e[j][1]))) BY <1>1
  <2>7. \A f \in Items(e) : e[f] = "UpReq" BY <2>2
  <2>8. z \in Nat BY <1>1
  <2>9. QED BY <2>1, <2>4, <2>5, <2>6, <2>7, <2>8 DEF Flow
<1>6. Ends(e) /\ Matched(z, e, e, e, e) BY <1>1 DEF Ends, Matched, Fits, Owed
<1>7. LinkFlow BY <1>2, <1>4, <1>5 DEF LinkFlow
<1>8. LinkWhole BY <1>2, <1>4, <1>6 DEF LinkWhole
<1>9. QED BY <1>1, <1>2, <1>3, <1>7, <1>8 DEF RecvInv, LinkInv

LEMMA RecvNext ==
  ASSUME RecvInv, [Next]_vars
  PROVE  RecvInv'
<1>1. CASE mode = "Localcache"
  <2>1. mode' = mode /\ got' = got
    <3>1. CASE UNCHANGED vars BY <3>1 DEF vars, remote
    <3>2. CASE Next
      <4>1. \A A : ~(mode = "Excache" /\ A) BY <1>1
      <4>2. QED BY <1>1, <3>2 DEF Next, Inside, Outside, remote, LocalMain, LocalLookup, LocalPut, LocalDelete, LocalSweep,
              LocalWake, LocalTick, LinkCome, LinkPush, LinkMain, LinkInput, LinkSend, LinkPeer, LinkRest
    <3>3. QED BY <3>1, <3>2
  <2>2. QED BY <1>1, <2>1 DEF RecvInv
<1>2. CASE mode = "Excache"
  <2>1. LinkInv BY <1>2 DEF RecvInv
  <2>2. mode' = mode /\ LinkInv' => RecvInv' BY <1>2 DEF RecvInv
  <2>3. CASE UNCHANGED vars
    <3>1. UNCHANGED <<mode, made, got, main, batch, sender, pipe, sock, cut, crashes, peer>>
      BY <2>3 DEF vars, remote
    <3>2. peer' \in [up : BOOLEAN, head : Nat] /\ peer'.head = peer.head BY <2>1, <3>1 DEF LinkInv, LinkTypes
    <3>3. QED BY <2>1, <2>2, <3>1, <3>2, DoAside
  <2>4. ASSUME mode' = mode,
               UNCHANGED <<made, got, main, batch, sender, pipe, sock, cut, crashes>>,
               peer' = peer \/ peer' = [peer EXCEPT !.up = TRUE]
        PROVE RecvInv'
    <3>1. peer \in [up : BOOLEAN, head : Nat] BY <2>1 DEF LinkInv, LinkTypes
    <3>2. peer' \in [up : BOOLEAN, head : Nat] /\ peer'.head = peer.head BY <2>4, <3>1
    <3>3. QED BY <2>1, <2>2, <2>4, <3>2, DoAside
  <2>5. CASE LinkCome BY <2>1, <2>2, <2>5, DoCome DEF LinkCome, Outside
  <2>6. CASE LinkPush BY <2>1, <2>2, <2>6, DoPush DEF LinkPush, Outside
  <2>7. CASE LinkMain BY <2>1, <2>2, <2>7, DoWritePipe, DoConnect DEF LinkMain, Outside
  <2>8. CASE LinkInput BY <2>4, <2>8 DEF LinkInput, Outside, C!InputObject, C!InputEnd
  <2>9. CASE LinkSend
    BY <2>1, <2>2, <2>9, DoTakeFromPipe, DoReconnect, DoSendFirst, DoSendMore DEF LinkSend, Outside
  <2>10. CASE LinkPeer BY <2>1, <2>2, <2>10, DoPeerRead DEF LinkPeer, Outside
  <2>11. CASE LinkRest
    <3>1. CASE C!PeerCrash BY <2>1, <2>2, <2>11, <3>1, DoPeerCrash DEF LinkRest, Outside
    <3>2. CASE C!PeerStart \/ C!Tick \/ \E n \in DOMAIN Slot, v \in {1, 2} : C!PeerSend(n, v)
      <4>1. mode' = mode BY <2>11 DEF LinkRest, Outside
      <4>2. QED BY <2>4, <3>2, <4>1 DEF C!PeerStart, C!Tick, C!PeerSend
    <3>3. QED BY <2>11, <3>1, <3>2 DEF LinkRest, Outside
  <2>12. Next => LinkCome \/ LinkPush \/ LinkMain \/ LinkInput \/ LinkSend \/ LinkPeer \/ LinkRest
    BY <1>2 DEF Next, Inside, LocalMain, LocalLookup, LocalPut, LocalDelete, LocalSweep, LocalWake, LocalTick
  <2>13. QED BY <2>3, <2>5, <2>6, <2>7, <2>8, <2>9, <2>10, <2>11, <2>12
<1>3. QED BY <1>1, <1>2 DEF RecvInv

LEMMA RecvHolds ==
  ASSUME RecvInv
  PROVE  Received
<1>1. CASE mode = "Localcache"
  <2>1. DOMAIN got = {} BY <1>1 DEF RecvInv
  <2>2. QED BY <2>1 DEF Received, InOrder, Whole
<1>2. CASE mode = "Excache"
  <2>1. /\ LinkFlow /\ LinkWhole /\ crashes \in Nat BY <1>2 DEF RecvInv, LinkInv, LinkTypes
  <2>2. Whole BY <2>1 DEF Whole, LinkWhole, Ends
  <2>3. ASSUME NEW i \in DOMAIN got, NEW j \in DOMAIN got, i < j
        PROVE  /\ got[i][1] # got[j][1]
               /\ (made[got[i][1]] = "UpReq") = (made[got[j][1]] = "UpReq") => got[i][1] < got[j][1]
    <3>1. PICK f, g : f = got[i][1] /\ g = got[j][1] OBVIOUS
    <3>2. got \in Seq(Nat \X Nat) BY <2>1 DEF LinkFlow, Flow
    <3>3. got[i] \in Nat \X Nat /\ got[j] \in Nat \X Nat BY <3>2
    <3>4. f \in Nat /\ g \in Nat BY <3>1, <3>3
    <3>5. Before(made, HeadOf(f), HeadOf(g)) BY <2>1, <2>3, <3>1 DEF LinkFlow, Flow
    <3>6. (made[f] = "UpReq" <=> made[g] = "UpReq") => 2 * f < 2 * g BY <3>4, <3>5 DEF Before, HeadOf, Pos
    <3>7. f # g BY <3>4, <3>6
    <3>8. (made[f] = "UpReq") = (made[g] = "UpReq") => f < g BY <3>4, <3>6
    <3>9. QED BY <3>1, <3>7, <3>8
  <2>4. InOrder BY <2>3 DEF InOrder
  <2>5. QED BY <2>2, <2>4 DEF Received
<1>3. QED BY <1>1, <1>2 DEF RecvInv

\* csmgrd receives no frame twice, and the Objects in the order in which they came to
\* cefnetd, and so what it is asked; and it takes a frame for the end of another only where
\* cefnetd gave up an end or csmgrd had ended: for every size of the batch, the pipe, the
\* socket and the reads, every number of tries, and whatever comes
\* (cef_csmgr_send_to_csmgrd_thread).
THEOREM CsmgrdReceives == FairSpec => []Received
<1>1. Init => RecvInv BY RecvInit
<1>2. RecvInv /\ [Next]_vars => RecvInv' BY RecvNext
<1>3. RecvInv => Received BY RecvHolds
<1>4. QED BY <1>1, <1>2, <1>3, PTL DEF FairSpec

-----------------------------------------------------------------------------
(* Neither cache puts an older version in the place of a newer one.        *)

\* Each Object that the caches hold has a version.
AgeInv ==
  /\ DOMAIN table = L!Keys /\ \A k \in L!Keys : "ver" \in DOMAIN table[k]
  /\ DOMAIN temp = C!Slots

\* The table u has no older version than t for a key, and no more than versions for keys.
Keeps(t, u, k) ==
  /\ "ver" \in DOMAIN u[k]
  /\ t[k] # L!NoEntry /\ u[k] # L!NoEntry => L!Compare(t[k].ver, u[k].ver) \in {"same", "second"}
Newer(t, u) == DOMAIN u = L!Keys /\ \A k \in L!Keys : Keeps(t, u, k)
\* It has less than t.
Fewer(t, u) == DOMAIN u = L!Keys /\ \A k \in L!Keys : u[k] = t[k] \/ u[k] = L!NoEntry
Versions(t) == DOMAIN t = L!Keys /\ \A k \in L!Keys : "ver" \in DOMAIN t[k]

LEMMA SameVersion == \A v : L!Compare(v, v) = "same" /\ C!Compare(v, v) = "same"
BY DEF L!Compare, C!Compare

LEMMA FewerIsNewer ==
  ASSUME NEW t, Versions(t), NEW u, Fewer(t, u)
  PROVE  Newer(t, u)
<1>1. DOMAIN L!NoEntry = {"ver"} BY DEF L!NoEntry
<1>2. QED BY <1>1, SameVersion DEF Versions, Fewer, Newer, Keeps

Fields == {"table", "list", "stat", "bad"}

LEMMA CutTable ==
  ASSUME NEW c, DOMAIN c = Fields, NEW k, NEW d, d = L!RecordCut(c, k)
  PROVE  DOMAIN d = Fields /\ d.table = c.table
BY DEF L!RecordCut, Fields

LEMMA RemovedTable ==
  ASSUME NEW c, DOMAIN c = Fields, NEW k, NEW d, d = L!EntryRemoved(c, k)
  PROVE  DOMAIN d = Fields /\ (d.table = c.table \/ d.table = [c.table EXCEPT ![k] = L!NoEntry])
<1>1. PICK e : e = L!RecordCut(c, k) OBVIOUS
<1>2. DOMAIN e = Fields /\ e.table = c.table BY <1>1, CutTable
<1>3. d = c \/ d = [e EXCEPT !.table[k] = L!NoEntry] BY <1>1 DEF L!EntryRemoved
<1>4. CASE d = c BY <1>4
<1>5. CASE d = [e EXCEPT !.table[k] = L!NoEntry]
  <2>1. PICK u : u = [c.table EXCEPT ![k] = L!NoEntry] OBVIOUS
  <2>2. d = [e EXCEPT !.table = u] BY <1>2, <1>5, <2>1
  <2>3. DOMAIN d = Fields /\ d.table = u BY <1>2, <2>2 DEF Fields
  <2>4. QED BY <2>1, <2>3
<1>6. QED BY <1>3, <1>4, <1>5

LEMMA EvictedTable ==
  ASSUME NEW c, DOMAIN c = Fields, DOMAIN c.table = L!Keys, NEW d, d = L!Evicted(c)
  PROVE  DOMAIN d = Fields /\ Fewer(c.table, d.table)
<1>1. PICK k : k = c.list[1].key OBVIOUS
<1>2. PICK e : e = L!EntryRemoved(c, k) OBVIOUS
<1>3. DOMAIN e = Fields /\ (e.table = c.table \/ e.table = [c.table EXCEPT ![k] = L!NoEntry])
  BY <1>2, RemovedTable
<1>4. PICK l : d = [e EXCEPT !.list = l] BY <1>1, <1>2 DEF L!Evicted
<1>5. DOMAIN d = Fields /\ d.table = e.table BY <1>3, <1>4 DEF Fields
<1>6. Fewer(c.table, e.table) BY <1>3 DEF Fewer
<1>7. QED BY <1>5, <1>6

\* What is cached with o besides it is less than before.
Over(t, o, d) ==
  \E u : /\ Fewer(t, u)
         /\ d = [u EXCEPT ![L!Key(o)] = [ver |-> o.ver, rct |-> o.rct, expiry |-> o.expiry]]

LEMMA InsertedTable ==
  ASSUME NEW c, DOMAIN c = Fields, DOMAIN c.table = L!Keys, NEW o, NEW a, NEW d, d = L!Inserted(c, o, a)
  PROVE  Over(c.table, o, d.table)
<1>1. PICK e : e = IF L!IsFull(c) THEN L!Evicted(c) ELSE c OBVIOUS
<1>2. DOMAIN e = Fields /\ Fewer(c.table, e.table)
  <2>1. Fewer(c.table, c.table) BY DEF Fewer
  <2>2. QED BY <1>1, <2>1, EvictedTable
<1>3. PICK u : u = [e.table EXCEPT ![L!Key(o)] = [ver |-> o.ver, rct |-> o.rct, expiry |-> o.expiry]] OBVIOUS
<1>4. d.table = u BY <1>1, <1>2, <1>3 DEF L!Inserted, Fields
<1>5. QED BY <1>2, <1>3, <1>4 DEF Over

LEMMA InsertedNewer ==
  ASSUME NEW t, Versions(t), NEW u, Fewer(t, u), NEW o,
         NEW k, k = L!Key(o), k \in L!Keys /\ t[k] # L!NoEntry => L!Compare(t[k].ver, o.ver) \in {"same", "second"},
         NEW d, d = [u EXCEPT ![k] = [ver |-> o.ver, rct |-> o.rct, expiry |-> o.expiry]]
  PROVE  Newer(t, d)
<1>1. Newer(t, u) BY FewerIsNewer
<1>2. PICK x : x = [ver |-> o.ver, rct |-> o.rct, expiry |-> o.expiry] OBVIOUS
<1>3. "ver" \in DOMAIN x /\ x.ver = o.ver BY <1>2
<1>4. DOMAIN d = L!Keys /\ \A j \in L!Keys : d[j] = IF j = k THEN x ELSE u[j] BY <1>1, <1>2 DEF Newer
<1>5. ASSUME NEW j \in L!Keys PROVE Keeps(t, d, j)
  <2>1. CASE j = k BY <1>3, <1>4, <2>1 DEF Keeps
  <2>2. CASE j # k
    <3>1. d[j] = u[j] BY <1>4, <2>2
    <3>2. QED BY <1>1, <3>1 DEF Newer, Keeps
  <2>3. QED BY <2>1, <2>2
<1>6. QED BY <1>4, <1>5 DEF Newer

LEMMA FewerTwice ==
  ASSUME NEW t, NEW u, NEW v, Fewer(t, u), Fewer(u, v)
  PROVE  Fewer(t, v)
BY DEF Fewer

LEMMA PutNewer ==
  ASSUME Versions(table), L!PutOne
  PROVE  Newer(table, table')
<1>1. PICK o : o = Head(pipe) OBVIOUS
<1>2. PICK k : k = L!Key(o) OBVIOUS
<1>3. CASE table' = table
  <2>1. Fewer(table, table') BY <1>3 DEF Versions, Fewer
  <2>2. QED BY <2>1, FewerIsNewer
<1>4. CASE ~L!Held(k) /\ table' = L!Inserted(L!Cache, o, 0).table
  <2>1. PICK c : c = L!Cache OBVIOUS
  <2>2. DOMAIN c = Fields /\ c.table = table BY <2>1 DEF L!Cache, Fields
  <2>3. PICK u : /\ Fewer(table, u)
                 /\ table' = [u EXCEPT ![L!Key(o)] = [ver |-> o.ver, rct |-> o.rct, expiry |-> o.expiry]]
    <3>1. PICK d, a : d = L!Inserted(c, o, a) /\ table' = d.table BY <1>4, <2>1
    <3>2. DOMAIN c.table = L!Keys BY <2>2 DEF Versions
    <3>3. Over(c.table, o, d.table) BY <2>2, <3>1, <3>2, InsertedTable
    <3>4. QED BY <2>2, <3>1, <3>3 DEF Over
  <2>4. table[k] = L!NoEntry BY <1>4 DEF L!Held
  <2>5. QED BY <1>2, <2>3, <2>4, InsertedNewer
<1>5. CASE table' = [table EXCEPT ![k].rct = o.rct, ![k].expiry = o.expiry]
  <2>1. PICK x : x = [table[k] EXCEPT !.rct = o.rct, !.expiry = o.expiry] OBVIOUS
  <2>2. table' = [table EXCEPT ![k] = x] BY <1>5, <2>1
  <2>3. DOMAIN table' = L!Keys /\ \A j \in L!Keys : table'[j] = IF j = k THEN x ELSE table[j]
    BY <2>2 DEF Versions
  <2>4. k \in L!Keys => "ver" \in DOMAIN x /\ x.ver = table[k].ver BY <2>1 DEF Versions
  <2>5. ASSUME NEW j \in L!Keys PROVE Keeps(table, table', j)
    <3>1. "ver" \in DOMAIN table'[j] /\ table'[j].ver = table[j].ver BY <2>3, <2>4 DEF Versions
    <3>2. QED BY <3>1, SameVersion DEF Keeps
  <2>6. QED BY <2>3, <2>5 DEF Newer
<1>6. CASE L!Verdict(table[k], o) = "newer" /\ L!Replace(o)
  <2>1. L!Compare(table[k].ver, o.ver) = "second" BY <1>6 DEF L!Verdict, L!Compare
  <2>2. PICK p, hits : p = Place[o.name] /\ hits = L!Hits(stat[p], o.name, table[k].ver) OBVIOUS
  <2>3. PICK c : c = L!Vacated(k, p, hits) OBVIOUS
  <2>4. \E a : table' = L!Inserted(c, o, a).table
    <3> DEFINE was == L!Hits(stat[Place[o.name]], o.name, table[L!Key(o)].ver)
               acc == IF was # {} THEN stat[Place[o.name]][L!Min(was)].access ELSE 0
               new == L!Inserted(L!Vacated(L!Key(o), Place[o.name], was), o, acc)
               keys == {L!Key(o)} \cup {j \in L!Keys : L!Held(j) /\ new.table[j] = L!NoEntry}
    <3>1. L!Become(new, keys) BY <1>6 DEF L!Replace
    <3>2. table' = new.table BY <3>1 DEF L!Become
    <3>3. c = L!Vacated(L!Key(o), Place[o.name], was) BY <1>2, <2>2, <2>3
    <3> HIDE DEF was, acc
    <3>4. table' = L!Inserted(c, o, acc).table BY <3>2, <3>3
    <3>5. QED BY <3>4
  <2>5. PICK a : table' = L!Inserted(c, o, a).table BY <2>4
  <2>6. PICK d : d = L!Inserted(c, o, a) /\ table' = d.table BY <2>5
  <2>7. PICK v : v = [table EXCEPT ![k] = L!NoEntry] OBVIOUS
  <2>8. DOMAIN c = Fields /\ c.table = v BY <2>3, <2>7 DEF L!Vacated, L!Cache, Fields
  <2>9. Fewer(table, v) BY <2>7 DEF Fewer, Versions
  <2>10. PICK u : /\ Fewer(v, u)
                  /\ table' = [u EXCEPT ![L!Key(o)] = [ver |-> o.ver, rct |-> o.rct, expiry |-> o.expiry]]
    <3>1. DOMAIN c.table = L!Keys BY <2>8, <2>9 DEF Fewer
    <3>2. Over(c.table, o, d.table) BY <2>6, <2>8, <3>1, InsertedTable
    <3>3. QED BY <2>6, <2>8, <3>2 DEF Over
  <2>11. Fewer(table, u) BY <2>9, <2>10, FewerTwice
  <2>12. QED BY <1>2, <2>1, <2>10, <2>11, InsertedNewer
<1>7. QED
  <2>1. CASE o.expiry < now BY <1>1, <1>3, <2>1 DEF L!PutOne, L!cache
  <2>2. CASE ~(o.expiry < now) /\ ~L!Held(k) BY <1>1, <1>2, <1>4, <2>2 DEF L!PutOne, L!Become
  <2>3. CASE ~(o.expiry < now) /\ L!Held(k)
    <3>1. \/ table' = [table EXCEPT ![k].rct = o.rct, ![k].expiry = o.expiry]
          \/ L!Verdict(table[k], o) = "newer" /\ L!Replace(o)
          \/ table' = table
      BY <1>1, <1>2, <2>3 DEF L!PutOne, L!cache
    <3>2. QED BY <1>3, <1>5, <1>6, <3>1
  <2>4. QED BY <2>1, <2>2, <2>3

LEMMA LessNewer ==
  ASSUME Versions(table), NEW keys, table' = L!Without(table, keys)
  PROVE  Newer(table, table')
<1>1. Fewer(table, table') BY DEF Versions, Fewer, L!Without
<1>2. QED BY <1>1, FewerIsNewer

LEMMA SameNewer ==
  ASSUME Versions(table), table' = table
  PROVE  Newer(table, table')
<1>1. Fewer(table, table') BY DEF Versions, Fewer
<1>2. QED BY <1>1, FewerIsNewer

\* What a step leaves in a slot of the buffer is not older than what it finds there.
Later(s) ==
  temp[s].name = temp'[s].name /\ temp[s].name # "none"
    => C!Compare(temp[s].ver, temp'[s].ver) \in {"same", "second"}
Rebuffered == DOMAIN temp' = C!Slots /\ \A s \in C!Slots : Later(s)

LEMMA SameBuffer ==
  ASSUME DOMAIN temp = C!Slots, temp' = temp
  PROVE  Rebuffered
BY SameVersion DEF Rebuffered, Later

LEMMA BufferedLater ==
  ASSUME DOMAIN temp = C!Slots, NEW o, NEW a, NEW b, temp' = C!Buffered(o, a, b)
  PROVE  Rebuffered
<1>1. CASE temp' = temp BY <1>1, SameBuffer
<1>2. CASE C!GivesWay(C!At(o.name), o)
           /\ temp' = [temp EXCEPT ![Slot[o.name]] = [name |-> o.name, ver |-> o.ver, until |-> now + BufferTime]]
  <2>1. PICK x : x = [name |-> o.name, ver |-> o.ver, until |-> now + BufferTime] OBVIOUS
  <2>2. x.name = o.name /\ x.ver = o.ver BY <2>1
  <2>3. DOMAIN temp' = C!Slots /\ \A s \in C!Slots : temp'[s] = IF s = Slot[o.name] THEN x ELSE temp[s]
    BY <1>2, <2>1
  <2>4. ASSUME NEW s \in C!Slots PROVE Later(s)
    <3>1. CASE s # Slot[o.name] BY <2>3, <3>1, SameVersion DEF Later
    <3>2. CASE s = Slot[o.name]
      <4>1. SUFFICES ASSUME temp[s].name = temp'[s].name, temp[s].name # "none"
                     PROVE  C!Compare(temp[s].ver, temp'[s].ver) \in {"same", "second"}
        BY DEF Later
      <4>2. temp'[s] = x BY <2>3, <3>2
      <4>3. C!At(o.name) = temp[s] BY <2>2, <3>2, <4>1, <4>2 DEF C!At
      <4>4. temp[s] # C!NoObject BY <4>1 DEF C!NoObject
      <4>5. QED BY <1>2, <2>2, <4>2, <4>3, <4>4 DEF C!GivesWay
    <3>3. QED BY <3>1, <3>2
  <2>5. QED BY <2>3, <2>4 DEF Rebuffered
<1>3. QED BY <1>1, <1>2 DEF C!Buffered

Aged == Newer(table, table') /\ Rebuffered

LEMMA AgeStep ==
  ASSUME AgeInv, [Next]_vars
  PROVE  Aged
<1>1. Versions(table) /\ DOMAIN temp = C!Slots BY DEF AgeInv, Versions
<1>2. table' = table /\ temp' = temp => Aged BY <1>1, SameNewer, SameBuffer DEF Aged
<1>3. temp' = temp /\ Newer(table, table') => Aged BY <1>1, SameBuffer DEF Aged
<1>4. table' = table /\ Rebuffered => Aged BY <1>1, SameNewer DEF Aged
<1>5. CASE UNCHANGED vars BY <1>2, <1>5 DEF vars, local, remote
<1>6. CASE LocalMain
  <2>1. temp' = temp /\ (L!Come \/ L!WritePipe \/ L!Count \/ L!CompareEntry) BY <1>6 DEF LocalMain, Inside, remote
  <2>2. CASE L!Come \/ L!WritePipe BY <1>2, <2>1, <2>2 DEF L!Come, L!WritePipe, L!cache
  <2>3. CASE L!Count
    <3>1. table' = table BY <2>3, ZenonT(30) DEF L!Count
    <3>2. QED BY <1>2, <2>1, <3>1
  <2>4. CASE L!CompareEntry BY <1>2, <2>1, <2>4 DEF L!CompareEntry, L!cache
  <2>5. QED BY <2>1, <2>2, <2>3, <2>4
<1>7. CASE LocalLookup BY <1>2, <1>7 DEF LocalLookup, Inside, remote, L!Lookup, L!Info, L!cache
<1>8. CASE LocalPut BY <1>1, <1>3, <1>8, PutNewer DEF LocalPut, Inside, remote
<1>9. CASE LocalDelete
  <2>1. temp' = temp /\ (L!DeleterTake \/ L!DeleterStep) BY <1>9 DEF LocalDelete, Inside, remote
  <2>2. CASE L!DeleterTake BY <1>2, <2>1, <2>2 DEF L!DeleterTake, L!cache
  <2>3. CASE L!DeleterStep
    <3>1. PICK keys : table' = L!Without(table, keys) BY <2>3 DEF L!DeleterStep
    <3>2. QED BY <1>1, <1>3, <2>1, <3>1, LessNewer
  <2>4. QED BY <2>1, <2>2, <2>3
<1>10. CASE \E s \in L!Sweepers : LocalSweep(s)
  <2>1. PICK s \in L!Sweepers : temp' = temp /\ (L!CheckFlag(s) \/ L!SetFlag(s) \/ L!SweepRow(s))
    BY <1>10 DEF LocalSweep, Inside, remote
  <2>2. CASE L!CheckFlag(s) \/ L!SetFlag(s) BY <1>2, <2>1, <2>2 DEF L!CheckFlag, L!SetFlag, L!cache
  <2>3. CASE L!SweepRow(s)
    <3>1. PICK keys : table' = L!Without(table, keys) BY <2>3 DEF L!SweepRow
    <3>2. QED BY <1>1, <1>3, <2>1, <3>1, LessNewer
  <2>4. QED BY <2>1, <2>2, <2>3
<1>11. CASE LocalWake \/ LocalTick
  BY <1>2, <1>11 DEF LocalWake, LocalTick, Inside, remote, L!Wake, L!Tick, L!cache
<1>12. CASE LinkCome
  <2>1. table' = table /\ C!Come BY <1>12 DEF LinkCome, Outside, local
  <2>2. PICK e : C!ComeObject(e) \/ C!ComeDead(e) \/ C!ComeInterest(e) \/ C!ComeQuestion(e)
    BY <2>1 DEF C!Come
  <2>3. CASE C!ComeObject(e)
    <3>1. PICK a, b : temp' = C!Buffered(e, a, b) BY <2>3 DEF C!ComeObject
    <3>2. QED BY <1>1, <1>4, <2>1, <3>1, BufferedLater
  <2>4. CASE C!ComeDead(e) \/ C!ComeInterest(e) \/ C!ComeQuestion(e)
    BY <1>2, <2>1, <2>4 DEF C!ComeDead, C!ComeInterest, C!ComeQuestion
  <2>5. QED BY <2>2, <2>3, <2>4
<1>13. CASE LinkInput
  <2>1. table' = table /\ (C!InputObject \/ C!InputEnd) BY <1>13 DEF LinkInput, Outside, local
  <2>2. CASE C!InputObject
    <3>1. PICK o, a, b : temp' = C!Buffered(o, a, b) BY <2>2 DEF C!InputObject
    <3>2. QED BY <1>1, <1>4, <2>1, <3>1, BufferedLater
  <2>3. CASE C!InputEnd BY <1>2, <2>1, <2>3 DEF C!InputEnd
  <2>4. QED BY <2>1, <2>2, <2>3
<1>14. CASE LinkPush \/ LinkMain
  BY <1>2, <1>14 DEF LinkPush, LinkMain, Outside, local, C!Push, C!WritePipe, C!Connect, C!Answer
<1>15. CASE LinkSend
  BY <1>2, <1>15 DEF LinkSend, Outside, local, C!TakeFromPipe, C!Reconnect, C!SendFirst, C!SendMore
<1>16. CASE LinkPeer BY <1>2, <1>16 DEF LinkPeer, Outside, local, C!PeerRead
<1>17. CASE LinkRest
  BY <1>2, <1>17 DEF LinkRest, Outside, local, C!PeerCrash, C!PeerStart, C!Tick, C!PeerSend
<1>18. QED BY <1>5, <1>6, <1>7, <1>8, <1>9, <1>10, <1>11, <1>12, <1>13, <1>14, <1>15, <1>16, <1>17 DEF Next

\* A cached chunk gives way to a newer version of it, never to an older one, through
\* eviction and the thread that deletes by version, and so does what the main task buffers:
\* for every capacity, every clock and whatever Objects come (cef_mem_cache_cob_write and
\* cef_csmgr_cache_insert).
THEOREM NewerStays == FairSpec => NeverOlder
<1>1. Init => AgeInv
  <2>1. DOMAIN L!NoEntry = {"ver"} BY DEF L!NoEntry
  <2>2. QED BY <2>1 DEF Init, L!InitLocal, C!InitLink, AgeInv
<1>2. AgeInv /\ [Next]_vars => AgeInv'
  <2>1. AgeInv /\ [Next]_vars => Aged BY AgeStep
  <2>2. Aged => AgeInv' BY DEF Aged, Newer, Keeps, Rebuffered, AgeInv
  <2>3. QED BY <2>1, <2>2
<1>3. AgeInv /\ [Next]_vars =>
        /\ \A k \in L!Keys : L!Held(k) /\ L!Held(k)' => L!Compare(table[k].ver, table'[k].ver) \in {"same", "second"}
        /\ \A s \in C!Slots : temp[s].name = temp'[s].name /\ temp[s].name # "none"
                              => C!Compare(temp[s].ver, temp'[s].ver) \in {"same", "second"}
  <2>1. AgeInv /\ [Next]_vars => Aged BY AgeStep
  <2>2. QED BY <2>1 DEF Aged, Newer, Keeps, Rebuffered, Later, L!Held
<1>4. QED BY <1>1, <1>2, <1>3, PTL DEF FairSpec, NeverOlder

-----------------------------------------------------------------------------
(* The cache inside cefnetd: lookup table, list and records.               *)

\* A set of numbers that is not empty has a least one.
LEMMA LeastNat ==
  ASSUME NEW T, T \subseteq Nat, T # {}
  PROVE  \E x \in T : \A y \in T : x <= y
<1> DEFINE Less == OpToRel(<, Nat)
<1>1. IsWellFoundedOn(Less, Nat) BY NatLessThanWellFounded, Zenon
<1>2. \A x, y \in Nat : x < y => <<x, y>> \in Less BY Zenon DEF OpToRel
<1> HIDE DEF Less
<1>3. PICK x \in T : \A y \in T : ~(<<y, x>> \in Less) BY <1>1, WFMin
<1>4. \A y \in T : ~(y < x) BY <1>2, <1>3
<1>5. QED BY <1>4

Has(t) == {k \in L!Keys : t[k] # L!NoEntry}
Node == [key : L!Keys, own : BOOLEAN]

\* The lookup table leads from each key of H to one node.
Lists(H, l) ==
  /\ l \in Seq(Node) /\ Len(l) <= Capacity
  /\ \A i, j \in DOMAIN l : l[i].own /\ l[j].own /\ l[i].key = l[j].key => i = j
  /\ \A k \in L!Keys : k \in H <=> \E i \in DOMAIN l : l[i].key = k /\ l[i].own

\* The same nodes, of which those of some keys are not owned any more
Disowned(l, m, keys) ==
  /\ m \in Seq(Node) /\ Len(m) = Len(l)
  /\ \A i \in DOMAIN l : m[i].key = l[i].key /\ (m[i].own <=> l[i].own /\ l[i].key \notin keys)

LEMMA DisownedLists ==
  ASSUME NEW H, NEW l, Lists(H, l), NEW keys, NEW m, Disowned(l, m, keys)
  PROVE  Lists(H \ keys, m)
<1>1. l \in Seq(Node) /\ m \in Seq(Node) /\ Len(m) = Len(l) BY DEF Lists, Disowned
<1>2. DOMAIN m = DOMAIN l BY <1>1
<1>3. \A i \in DOMAIN l : m[i].key = l[i].key /\ (m[i].own <=> l[i].own /\ l[i].key \notin keys) BY DEF Disowned
<1>4. \A i, j \in DOMAIN m : m[i].own /\ m[j].own /\ m[i].key = m[j].key => i = j BY <1>2, <1>3 DEF Lists
<1>5. ASSUME NEW k \in L!Keys
      PROVE  k \in H \ keys <=> \E i \in DOMAIN m : m[i].key = k /\ m[i].own
  <2>1. k \in H <=> \E i \in DOMAIN l : l[i].key = k /\ l[i].own BY DEF Lists
  <2>2. QED BY <1>2, <1>3, <2>1
<1>6. Len(m) <= Capacity BY <1>1 DEF Lists
<1>7. QED BY <1>1, <1>4, <1>5, <1>6 DEF Lists

\* cef_lhash_tbl_item_remove, for many keys and for one
LEMMA UnlookedIs ==
  ASSUME NEW l \in Seq(Node), NEW keys, NEW m, m = L!Unlooked(l, keys)
  PROVE  Disowned(l, m, keys)
<1> DEFINE N == Len(l)
<1>1. N \in Nat /\ DOMAIN l = 1 .. N /\ \A i \in 1 .. N : l[i] \in Node OBVIOUS
<1>2. m = [i \in 1 .. N |-> IF l[i].key \in keys THEN [l[i] EXCEPT !.own = FALSE] ELSE l[i]]
  BY <1>1 DEF L!Unlooked
<1> HIDE DEF N
<1>3. \A i \in 1 .. N : /\ m[i] \in Node /\ m[i].key = l[i].key
                        /\ m[i].own <=> l[i].own /\ l[i].key \notin keys
  BY <1>1, <1>2 DEF Node
<1>4. m \in [1 .. N -> Node] BY <1>2, <1>3
<1>5. m \in Seq(Node) /\ Len(m) = N BY <1>1, <1>4
<1>6. QED BY <1>1, <1>3, <1>5 DEF Disowned, N

LEMMA UnownedIs ==
  ASSUME NEW l \in Seq(Node), NEW k, NEW m, m = L!Unowned(l, k)
  PROVE  Disowned(l, m, {k})
<1>1. m = L!Unlooked(l, {k}) BY DEF L!Unowned, L!Unlooked
<1>2. QED BY <1>1, UnlookedIs

\* A node goes: the head that nobody owns, or the one that leads to k.
LEMMA TailLists ==
  ASSUME NEW H, NEW l, Lists(H, l), l # <<>>, ~l[1].own, NEW m, m = Tail(l)
  PROVE  Lists(H, m) /\ Len(m) = Len(l) - 1
<1> DEFINE N == Len(l)
<1>1. l \in Seq(Node) /\ N \in Nat /\ N >= 1 /\ DOMAIN l = 1 .. N BY DEF Lists
<1>2. m \in Seq(Node) /\ Len(m) = N - 1 /\ \A i \in 1 .. N - 1 : m[i] = l[i + 1] BY <1>1
<1>3. DOMAIN m = 1 .. N - 1 BY <1>2
<1> HIDE DEF N
<1>4. \A i \in 1 .. N - 1 : i + 1 \in 1 .. N BY <1>1
<1>5. ASSUME NEW i \in DOMAIN m, NEW j \in DOMAIN m, m[i].own, m[j].own, m[i].key = m[j].key PROVE i = j
  <2>1. i + 1 = j + 1 BY <1>1, <1>2, <1>3, <1>4, <1>5 DEF Lists
  <2>2. QED BY <1>1, <1>3, <2>1
<1>6. ASSUME NEW k \in L!Keys PROVE k \in H <=> \E i \in DOMAIN m : m[i].key = k /\ m[i].own
  <2>1. k \in H <=> \E i \in 1 .. N : l[i].key = k /\ l[i].own BY <1>1 DEF Lists
  <2>2. ASSUME NEW i \in 1 .. N, l[i].key = k, l[i].own PROVE \E j \in DOMAIN m : m[j].key = k /\ m[j].own
    <3>1. i # 1 BY <2>2
    <3>2. i - 1 \in 1 .. N - 1 /\ (i - 1) + 1 = i BY <1>1, <3>1
    <3>3. QED BY <1>2, <1>3, <2>2, <3>2
  <2>3. ASSUME NEW j \in DOMAIN m, m[j].key = k, m[j].own PROVE \E i \in 1 .. N : l[i].key = k /\ l[i].own
    BY <1>2, <1>3, <1>4, <2>3
  <2>4. QED BY <2>1, <2>2, <2>3
<1>7. Len(m) <= Capacity
  <2>1. N <= Capacity /\ Capacity \in Nat BY ContentStoreAssumption DEF Lists, N
  <2>2. QED BY <1>1, <1>2, <2>1
<1>8. QED BY <1>2, <1>5, <1>6, <1>7 DEF Lists, N

LEMMA RemoveLists ==
  ASSUME NEW H, NEW l, Lists(H, l), NEW k \in L!Keys, NEW r \in DOMAIN l, l[r].own, l[r].key = k,
         NEW m, m = L!RemoveAt(l, r)
  PROVE  Lists(H \ {k}, m)
<1> DEFINE N == Len(l)
<1>1. l \in Seq(Node) /\ N \in Nat /\ DOMAIN l = 1 .. N /\ r \in 1 .. N BY DEF Lists
<1>2. PICK a, b : a = SubSeq(l, 1, r - 1) /\ b = SubSeq(l, r + 1, N) OBVIOUS
<1>3. m = a \o b BY <1>2 DEF L!RemoveAt
<1>4. a \in Seq(Node) /\ Len(a) = r - 1 /\ \A i \in 1 .. r - 1 : a[i] = l[i] BY <1>1, <1>2
<1>5. b \in Seq(Node) /\ Len(b) = N - r /\ \A i \in 1 .. N - r : b[i] = l[r + i]
  <2>1. r + 1 \in Int /\ N \in Int /\ \A i \in r + 1 .. N : l[i] \in Node BY <1>1
  <2>2. /\ b \in Seq(Node) /\ Len(b) = IF r + 1 <= N THEN N - (r + 1) + 1 ELSE 0
        /\ \A i \in 1 .. N - (r + 1) + 1 : b[i] = l[r + 1 + i - 1]
    BY <1>1, <1>2, <2>1, SubSeqProperties
  <2>3. Len(b) = N - r
    <3>1. r \in Int /\ N \in Int /\ r <= N BY <1>1
    <3>2. QED BY <2>2, <3>1
  <2>4. \A i \in 1 .. N - r : b[i] = l[r + i]
    <3>1. SUFFICES ASSUME NEW i \in 1 .. N - r PROVE b[i] = l[r + i] OBVIOUS
    <3>2. i \in 1 .. N - (r + 1) + 1 /\ r + 1 + i - 1 = r + i BY <1>1
    <3>3. QED BY <2>2, <3>2
  <2>5. QED BY <2>2, <2>3, <2>4
<1>6. m \in Seq(Node) /\ Joined(a, b, m) BY <1>3, <1>4, <1>5, Join
<1>7. Len(m) = N - 1 /\ DOMAIN m = 1 .. N - 1 BY <1>1, <1>4, <1>5, <1>6 DEF Joined
<1> DEFINE from == [i \in 1 .. N - 1 |-> IF i < r THEN i ELSE i + 1]
<1>9. \A i \in 1 .. N - 1 : m[i] = l[from[i]] /\ from[i] \in 1 .. N /\ from[i] # r
  <2>1. SUFFICES ASSUME NEW i \in 1 .. N - 1 PROVE m[i] = l[from[i]] /\ from[i] \in 1 .. N /\ from[i] # r
    OBVIOUS
  <2>2. CASE i < r
    <3>1. i \in 1 .. r - 1 BY <1>1, <2>2
    <3>2. m[i] = l[i] BY <1>4, <1>6, <3>1 DEF Joined
    <3>3. QED BY <1>1, <2>2, <3>2
  <2>3. CASE ~(i < r)
    <3>1. PICK x \in Int : x = i - (r - 1) BY <1>1
    <3>2. x \in 1 .. N - r /\ (r - 1) + x = i /\ r + x = i + 1
      <4>1. i \in Int /\ r \in Int /\ N \in Int /\ 1 <= r /\ r <= i /\ i <= N - 1 BY <1>1, <2>3
      <4> HIDE DEF N
      <4>2. QED BY <3>1, <4>1
    <3>3. m[i] = b[x]
      <4>1. m[Len(a) + x] = b[x] BY <1>5, <1>6, <3>2 DEF Joined
      <4>2. QED BY <1>4, <3>2, <4>1
    <3>4. m[i] = l[i + 1] BY <1>5, <3>2, <3>3
    <3>5. QED BY <1>1, <2>3, <3>4
  <2>4. QED BY <2>2, <2>3
<1>10. \A i, j \in 1 .. N - 1 : from[i] = from[j] => i = j BY <1>1
<1>11. \A i \in 1 .. N : i # r => \E j \in 1 .. N - 1 : from[j] = i
  <2>1. SUFFICES ASSUME NEW i \in 1 .. N, i # r PROVE \E j \in 1 .. N - 1 : from[j] = i OBVIOUS
  <2>2. CASE i < r
    <3>1. i \in 1 .. N - 1 /\ from[i] = i BY <1>1, <2>1, <2>2
    <3>2. QED BY <3>1
  <2>3. CASE ~(i < r)
    <3>1. i - 1 \in 1 .. N - 1 /\ ~(i - 1 < r) /\ (i - 1) + 1 = i BY <1>1, <2>1, <2>3
    <3>2. from[i - 1] = i BY <3>1
    <3>3. QED BY <3>1, <3>2
  <2>4. QED BY <2>2, <2>3
<1> HIDE DEF N, from
<1>12. ASSUME NEW i \in DOMAIN m, NEW j \in DOMAIN m, m[i].own, m[j].own, m[i].key = m[j].key PROVE i = j
  <2>1. from[i] = from[j] BY <1>1, <1>7, <1>9, <1>12 DEF Lists
  <2>2. QED BY <1>7, <1>10, <2>1
<1>13. ASSUME NEW j \in L!Keys PROVE j \in H \ {k} <=> \E i \in DOMAIN m : m[i].key = j /\ m[i].own
  <2>1. j \in H <=> \E i \in 1 .. N : l[i].key = j /\ l[i].own BY <1>1 DEF Lists
  <2>2. ASSUME j # k, NEW i \in 1 .. N, l[i].key = j, l[i].own PROVE \E x \in DOMAIN m : m[x].key = j /\ m[x].own
    <3>1. i # r BY <2>2
    <3>2. PICK x \in 1 .. N - 1 : from[x] = i BY <1>11, <3>1
    <3>3. QED BY <1>7, <1>9, <2>2, <3>2
  <2>3. ASSUME NEW x \in DOMAIN m, m[x].key = j, m[x].own
        PROVE  j # k /\ \E i \in 1 .. N : l[i].key = j /\ l[i].own
    <3>1. from[x] \in 1 .. N /\ from[x] # r /\ m[x] = l[from[x]] BY <1>7, <1>9
    <3>2. j # k BY <1>1, <2>3, <3>1 DEF Lists
    <3>3. QED BY <2>3, <3>1, <3>2
  <2>4. QED BY <2>1, <2>2, <2>3
<1>14. Len(m) <= Capacity
  <2>1. N <= Capacity /\ Capacity \in Nat BY ContentStoreAssumption DEF Lists, N, ContentStoreAssumption
  <2>2. QED BY <1>1, <1>7, <2>1
<1>15. QED BY <1>6, <1>12, <1>13, <1>14 DEF Lists

LEMMA LeastOfOne == \A a \in Int : L!Min({a}) = a
BY DEF L!Min

\* cef_mem_cache_fifo_erase
LEMMA ErasedLists ==
  ASSUME NEW H, NEW l, Lists(H, l), NEW k \in L!Keys, NEW m, m = L!Erased(l, k)
  PROVE  Lists(H \ {k}, m)
<1>1. PICK o : o = L!Owns(l, k) OBVIOUS
<1>2. \A i : i \in o <=> i \in DOMAIN l /\ l[i].key = k /\ l[i].own BY <1>1 DEF L!Owns
<1>3. m = IF o = {} THEN l ELSE L!RemoveAt(l, L!Min(o)) BY <1>1 DEF L!Erased
<1>4. CASE o = {}
  <2>1. k \notin H BY <1>2, <1>4 DEF Lists
  <2>2. H \ {k} = H BY <2>1
  <2>3. QED BY <1>3, <1>4, <2>2
<1>5. CASE o # {}
  <2>1. PICK i \in DOMAIN l : i \in o BY <1>2, <1>5
  <2>2. \A j \in o : j = i BY <1>2, <2>1 DEF Lists
  <2>3. o = {i} BY <2>1, <2>2
  <2>4. i \in Int BY <2>1 DEF Lists
  <2>5. L!Min(o) = i BY <2>3, <2>4, LeastOfOne
  <2>6. l[i].own /\ l[i].key = k BY <1>2, <2>1
  <2>7. m = L!RemoveAt(l, i) BY <1>3, <1>5, <2>5
  <2>8. QED BY <2>1, <2>6, <2>7, RemoveLists
<1>6. QED BY <1>4, <1>5

\* cef_mem_cache_fifo_store_entry, where the key is not cached
LEMMA EnqueuedLists ==
  ASSUME NEW H, NEW l, Lists(H, l), NEW k \in L!Keys, k \notin H, Len(l) < Capacity,
         NEW m, m = L!Enqueued(l, k)
  PROVE  Lists(H \cup {k}, m)
<1>1. l \in Seq(Node) BY DEF Lists
<1>2. PICK u : u = L!Unowned(l, k) OBVIOUS
<1>3. Disowned(l, u, {k}) BY <1>1, <1>2, UnownedIs
<1>4. Lists(H \ {k}, u) BY <1>3, DisownedLists
<1>5. H \ {k} = H OBVIOUS
<1>6. Lists(H, u) BY <1>4, <1>5
<1>7. PICK x : x = [key |-> k, own |-> TRUE] OBVIOUS
<1>8. x \in Node /\ x.key = k /\ x.own BY <1>7 DEF Node
<1>9. m = Append(u, x) BY <1>2, <1>7 DEF L!Enqueued
<1>10. PICK N \in Nat : N = Len(u) BY <1>6 DEF Lists
<1>11. u \in Seq(Node) /\ DOMAIN u = 1 .. N BY <1>6, <1>10 DEF Lists
<1>12. /\ m \in Seq(Node) /\ Len(m) = N + 1 /\ DOMAIN m = 1 .. N + 1
       /\ m[N + 1] = x /\ \A i \in 1 .. N : m[i] = u[i]
  BY <1>8, <1>9, <1>10, <1>11
<1>13. \A i \in 1 .. N + 1 : i = N + 1 \/ i \in 1 .. N BY <1>10
<1>14. \A i \in 1 .. N : u[i].own => u[i].key # k BY <1>6, <1>8, <1>11 DEF Lists
<1>15. ASSUME NEW i \in DOMAIN m, NEW j \in DOMAIN m, m[i].own, m[j].own, m[i].key = m[j].key PROVE i = j
  <2>1. CASE i \in 1 .. N /\ j \in 1 .. N BY <1>6, <1>11, <1>12, <1>15, <2>1 DEF Lists
  <2>2. CASE i = N + 1 /\ j \in 1 .. N BY <1>8, <1>12, <1>14, <1>15, <2>2
  <2>3. CASE i \in 1 .. N /\ j = N + 1 BY <1>8, <1>12, <1>14, <1>15, <2>3
  <2>4. QED BY <1>12, <1>13, <2>1, <2>2, <2>3
<1>16. ASSUME NEW j \in L!Keys PROVE j \in H \cup {k} <=> \E i \in DOMAIN m : m[i].key = j /\ m[i].own
  <2>1. j \in H <=> \E i \in 1 .. N : u[i].key = j /\ u[i].own BY <1>6, <1>11 DEF Lists
  <2>2. \A i \in 1 .. N : i \in 1 .. N + 1 BY <1>10
  <2>3. N + 1 \in 1 .. N + 1 BY <1>10
  <2>4. j \in H => \E i \in DOMAIN m : m[i].key = j /\ m[i].own BY <1>12, <2>1, <2>2
  <2>5. j = k => \E i \in DOMAIN m : m[i].key = j /\ m[i].own BY <1>8, <1>12, <2>3
  <2>6. ASSUME NEW i \in DOMAIN m, m[i].key = j, m[i].own PROVE j \in H \cup {k}
    <3>1. CASE i = N + 1 BY <1>8, <1>12, <2>6, <3>1
    <3>2. CASE i \in 1 .. N BY <1>12, <2>1, <2>6, <3>2
    <3>3. QED BY <1>12, <1>13, <2>6, <3>1, <3>2
  <2>7. QED BY <2>4, <2>5, <2>6
<1>17. Len(m) <= Capacity
  <2>1. Len(u) = Len(l) BY <1>3 DEF Disowned
  <2>2. Capacity \in Nat BY ContentStoreAssumption DEF ContentStoreAssumption
  <2>3. QED BY <1>10, <1>12, <2>1, <2>2
<1>18. QED BY <1>12, <1>15, <1>16, <1>17 DEF Lists

\* What is cached is no more than the list is long.
LEMMA ListsFinite ==
  ASSUME NEW H, H \subseteq L!Keys, NEW l, Lists(H, l)
  PROVE  IsFiniteSet(H)
<1>1. l \in Seq(Node) /\ Len(l) \in Nat /\ DOMAIN l = 1 .. Len(l) BY DEF Lists
<1>2. PICK o : o = {i \in 1 .. Len(l) : l[i].own} OBVIOUS
<1>3. IsFiniteSet(o)
  <2>1. 1 \in Int /\ Len(l) \in Int BY <1>1
  <2>2. IsFiniteSet(1 .. Len(l)) BY <2>1, FS_Interval
  <2>3. o \in SUBSET (1 .. Len(l)) BY <1>2
  <2>4. QED BY <2>2, <2>3, FS_Subset
<1>4. PICK f : f = [i \in o |-> l[i].key] OBVIOUS
<1>5. \A i \in o : f[i] \in H
  <2>1. SUFFICES ASSUME NEW i \in o PROVE f[i] \in H OBVIOUS
  <2>2. i \in 1 .. Len(l) /\ l[i].own /\ f[i] = l[i].key BY <1>2, <1>4
  <2>3. l[i] \in Node BY <1>1, <2>2
  <2>4. l[i].key \in L!Keys BY <2>3 DEF Node
  <2>5. QED BY <1>1, <2>2, <2>4 DEF Lists
<1>6. \A k \in H : \E i \in o : f[i] = k BY <1>1, <1>2, <1>4 DEF Lists
<1>7. f \in [o -> H] BY <1>4, <1>5
<1>8. f \in Surjection(o, H) BY <1>6, <1>7 DEF Surjection
<1>9. QED BY <1>3, <1>8, FS_Surjection

-----------------------------------------------------------------------------
(* The records.                                                            *)

StatFields == {"name", "ver", "cobs", "access", "min", "max", "dead"}
\* No other content shares the chain of n.
Sole(n) == \A m \in Names \ {n} : Place[m] # Place[n]
Chunked(H, n) == {c \in Chunks : <<n, c>> \in H}

\* The record r counts the chunks held of n and spans them.
Sums(r, n, held) ==
  /\ DOMAIN r = StatFields /\ r.name = n /\ ~r.dead /\ r.cobs = Cardinality(held)
  /\ r.min \in Int /\ r.max \in Int /\ \A x \in held : r.min <= x /\ x <= r.max
Right(c, n, held) ==
  /\ IsFiniteSet(held) /\ held \subseteq Int
  /\ held = {} => c = <<>>
  /\ held # {} => \E r : c = <<r>> /\ Sums(r, n, held)
Records(H, s, u) ==
  DOMAIN s = L!Places /\ \A n \in Names \ u : Sole(n) => Right(s[Place[n]], n, Chunked(H, n))

LEMMA OnlyHit ==
  ASSUME NEW r, NEW n, r.name = n, NEW c, c = <<r>>
  PROVE  L!Hits(c, n, -1) = {1} /\ L!Min(L!Hits(c, n, -1)) = 1 /\ c[1] = r
<1>1. DOMAIN c = {1} /\ c[1] = r OBVIOUS
<1>2. \A i : i \in L!Hits(c, n, -1) <=> i = 1 BY <1>1 DEF L!Hits
<1>3. L!Hits(c, n, -1) = {1} BY <1>2
<1>4. QED BY <1>1, <1>3, LeastOfOne

LEMMA NoHit ==
  ASSUME NEW n, NEW c, c = <<>>
  PROVE  L!Hits(c, n, -1) = {}
BY DEF L!Hits

\* cef_mem_cache_mstat_remove
LEMMA CutRight ==
  ASSUME NEW c, NEW n, NEW held, Right(c, n, held), NEW x \in held, NEW d, d = L!StatRemoved(c, n)
  PROVE  Right(d, n, held \ {x})
<1>1. PICK r : c = <<r>> /\ Sums(r, n, held) BY DEF Right
<1>2. L!Hits(c, n, -1) = {1} /\ L!Min(L!Hits(c, n, -1)) = 1 /\ c[1] = r BY <1>1, OnlyHit DEF Sums
<1>3. d = IF r.cobs = 1 THEN L!Dropped(c, 1) ELSE [c EXCEPT ![1].cobs = @ - 1] BY <1>2 DEF L!StatRemoved
<1>4. /\ IsFiniteSet(held) /\ Cardinality(held) \in Nat
      /\ IsFiniteSet(held \ {x}) /\ Cardinality(held \ {x}) = Cardinality(held) - 1
  <2>1. IsFiniteSet(held) BY DEF Right
  <2>2. QED BY <2>1, FS_CardinalityType, FS_RemoveElement
<1>5. Cardinality(held \ {x}) = 0 <=> held \ {x} = {} BY <1>4, FS_EmptySet
<1>6. r.cobs = Cardinality(held) BY <1>1 DEF Sums
<1>7. CASE r.cobs = 1
  <2>1. held \ {x} = {} BY <1>4, <1>5, <1>6, <1>7
  <2>2. d = <<>> BY <1>3, <1>7 DEF L!Dropped
  <2>3. QED BY <1>4, <2>1, <2>2 DEF Right
<1>8. CASE r.cobs # 1
  <2>1. held \ {x} # {} BY <1>4, <1>5, <1>6, <1>8
  <2>2. PICK q : q = [r EXCEPT !.cobs = @ - 1] OBVIOUS
  <2>3. d = <<q>>
    <3>1. d = [c EXCEPT ![1] = q] BY <1>2, <1>3, <1>8, <2>2
    <3>2. QED BY <1>1, <3>1
  <2>4. /\ DOMAIN q = StatFields /\ q.cobs = r.cobs - 1
        /\ q.name = r.name /\ q.dead = r.dead /\ q.min = r.min /\ q.max = r.max
    <3>1. DOMAIN r = StatFields BY <1>1 DEF Sums
    <3>2. QED BY <2>2, <3>1 DEF StatFields
  <2>5. Sums(q, n, held \ {x}) BY <1>1, <1>4, <2>4 DEF Sums
  <2>6. held \ {x} \subseteq Int BY DEF Right
  <2>7. QED BY <1>4, <2>1, <2>3, <2>5, <2>6 DEF Right
<1>9. QED BY <1>7, <1>8

LEMMA LocalMinOfTwo ==
  ASSUME NEW a \in Int, NEW b \in Int
  PROVE  L!Min({a, b}) = IF a <= b THEN a ELSE b
BY DEF L!Min

LEMMA LocalMaxOfTwo ==
  ASSUME NEW a \in Int, NEW b \in Int
  PROVE  L!Max({a, b}) = IF a <= b THEN b ELSE a
BY DEF L!Max

\* cef_mem_cache_mstat_insert
LEMMA AddRight ==
  ASSUME NEW c, NEW o, NEW held, Right(c, o.name, held), o.chunk \in Int, o.chunk \notin held,
         NEW a, NEW d, d = L!StatInserted(c, o, a)
  PROVE  Right(d, o.name, held \cup {o.chunk})
<1>1. PICK n, x : n = o.name /\ x = o.chunk OBVIOUS
<1>2. PICK g : g = held \cup {x} OBVIOUS
<1>3. g # {} /\ g \subseteq Int BY <1>1, <1>2 DEF Right
<1>4. /\ Cardinality(held) \in Nat /\ IsFiniteSet(g) /\ Cardinality(g) = Cardinality(held) + 1
  <2>1. IsFiniteSet(held) BY DEF Right
  <2>2. QED BY <1>1, <1>2, <2>1, FS_CardinalityType, FS_AddElement
<1>5. CASE held = {}
  <2>1. c = <<>> BY <1>5 DEF Right
  <2>2. PICK q : q = [name |-> n, ver |-> o.ver, cobs |-> 1, access |-> a, min |-> x, max |-> x, dead |-> FALSE]
    OBVIOUS
  <2>3. d = Append(c, q) BY <1>1, <2>1, <2>2, NoHit DEF L!StatInserted
  <2>4. d = <<q>> BY <2>1, <2>3
  <2>5. Cardinality(g) = 1 /\ g = {x}
    <3>1. g = {x} BY <1>2, <1>5
    <3>2. QED BY <3>1, FS_Singleton
  <2>6. Sums(q, n, g) BY <1>1, <2>2, <2>5 DEF Sums, StatFields
  <2>7. QED BY <1>1, <1>2, <1>3, <1>4, <2>4, <2>6 DEF Right
<1>6. CASE held # {}
  <2>1. PICK r : c = <<r>> /\ Sums(r, n, held) BY <1>1, <1>6 DEF Right
  <2>2. L!Hits(c, n, -1) = {1} /\ L!Min(L!Hits(c, n, -1)) = 1 /\ c[1] = r BY <2>1, OnlyHit DEF Sums
  <2>3. PICK q : q = L!OneMore(r, x) OBVIOUS
  <2>4. d = <<q>>
    <3>1. d = [c EXCEPT ![1] = q] BY <1>1, <2>2, <2>3 DEF L!StatInserted
    <3>2. QED BY <2>1, <3>1
  <2>5. PICK lo, hi : lo = L!Min({r.min, x}) /\ hi = L!Max({r.max, x}) OBVIOUS
  <2>6. /\ DOMAIN q = StatFields /\ q.cobs = r.cobs + 1 /\ q.name = r.name /\ q.dead = r.dead
        /\ q.min = lo /\ q.max = hi
    <3>1. DOMAIN r = StatFields BY <2>1 DEF Sums
    <3>2. q = [r EXCEPT !.cobs = @ + 1, !.min = lo, !.max = hi] BY <2>3, <2>5 DEF L!OneMore
    <3>3. QED BY <3>1, <3>2 DEF StatFields
  <2>7. lo \in Int /\ lo <= r.min /\ lo <= x /\ hi \in Int /\ r.max <= hi /\ x <= hi
    <3>1. r.min \in Int /\ r.max \in Int /\ x \in Int BY <1>1, <2>1 DEF Sums
    <3>2. lo = (IF r.min <= x THEN r.min ELSE x) /\ hi = (IF r.max <= x THEN x ELSE r.max)
      BY <2>5, <3>1, LocalMinOfTwo, LocalMaxOfTwo
    <3>3. QED BY <3>1, <3>2
  <2>8. \A y \in g : lo <= y /\ y <= hi
    <3>1. SUFFICES ASSUME NEW y \in g, y \in held PROVE lo <= y /\ y <= hi BY <1>2, <2>7
    <3>2. y \in Int /\ r.min \in Int /\ r.max \in Int /\ r.min <= y /\ y <= r.max BY <1>3, <2>1, <3>1 DEF Sums
    <3>3. QED BY <2>7, <3>2
  <2>9. Sums(q, n, g) BY <1>4, <2>1, <2>6, <2>7, <2>8 DEF Sums
  <2>10. QED BY <1>1, <1>2, <1>3, <1>4, <2>4, <2>9 DEF Right
<1>7. QED BY <1>5, <1>6

\* Only the chain of n differs, and what is cached of n.
Beside(n, H, G, s, t) ==
  /\ DOMAIN t = DOMAIN s /\ \A p \in DOMAIN s : p # Place[n] => t[p] = s[p]
  /\ \A m \in Names \ {n} : Chunked(G, m) = Chunked(H, m)

\* The chain of n is as its record should be.
RightAt(n, G, t, u) == n \notin u /\ Sole(n) => Right(t[Place[n]], n, Chunked(G, n))

LEMMA RecordsBeside ==
  ASSUME NEW H, NEW G, NEW s, NEW t, NEW u, NEW v, u \subseteq v, NEW n \in Names,
         Records(H, s, u), Beside(n, H, G, s, t), RightAt(n, G, t, v)
  PROVE  Records(G, t, v)
<1>1. DOMAIN s = L!Places /\ DOMAIN t = L!Places BY DEF Records, Beside
<1>2. ASSUME NEW m \in Names \ v, Sole(m), m # n PROVE Right(t[Place[m]], m, Chunked(G, m))
  <2>1. Place[m] # Place[n] BY <1>2 DEF Sole
  <2>2. Place[m] \in L!Places BY DEF L!Places
  <2>3. t[Place[m]] = s[Place[m]] /\ Chunked(G, m) = Chunked(H, m) BY <1>1, <1>2, <2>1, <2>2 DEF Beside
  <2>4. Right(s[Place[m]], m, Chunked(H, m)) BY <1>2 DEF Records
  <2>5. QED BY <2>3, <2>4
<1>3. QED BY <1>1, <1>2 DEF Records, RightAt

LEMMA ChunkedLess ==
  ASSUME NEW G, NEW k \in L!Keys
  PROVE  /\ \A m \in Names \ {k[1]} : Chunked(G \ {k}, m) = Chunked(G, m)
         /\ Chunked(G \ {k}, k[1]) = Chunked(G, k[1]) \ {k[2]}
         /\ k[1] \in Names /\ k[2] \in Chunks /\ (k \in G => k[2] \in Chunked(G, k[1]))
<1>1. k[1] \in Names /\ k[2] \in Chunks /\ k = <<k[1], k[2]>> BY DEF L!Keys
<1>2. ASSUME NEW m \in Names \ {k[1]} PROVE Chunked(G \ {k}, m) = Chunked(G, m)
  <2>1. \A c : <<m, c>> # k BY <1>1
  <2>2. \A c : c \in Chunked(G \ {k}, m) <=> c \in Chunked(G, m) BY <2>1 DEF Chunked
  <2>3. QED BY <2>2
<1>3. \A c : c \in Chunked(G \ {k}, k[1]) <=> c \in Chunked(G, k[1]) \ {k[2]}
  <2>1. \A c : <<k[1], c>> = k <=> c = k[2] BY <1>1
  <2>2. QED BY <2>1 DEF Chunked
<1>4. Chunked(G \ {k}, k[1]) = Chunked(G, k[1]) \ {k[2]} BY <1>3
<1>5. k \in G => k[2] \in Chunked(G, k[1]) BY <1>1 DEF Chunked
<1>6. QED BY <1>1, <1>2, <1>4, <1>5

LEMMA ChunkedMore ==
  ASSUME NEW G, NEW k \in L!Keys
  PROVE  /\ \A m \in Names \ {k[1]} : Chunked(G \cup {k}, m) = Chunked(G, m)
         /\ Chunked(G \cup {k}, k[1]) = Chunked(G, k[1]) \cup {k[2]}
         /\ k \notin G => k[2] \notin Chunked(G, k[1])
<1>1. k[1] \in Names /\ k[2] \in Chunks /\ k = <<k[1], k[2]>> BY DEF L!Keys
<1>2. ASSUME NEW m \in Names \ {k[1]} PROVE Chunked(G \cup {k}, m) = Chunked(G, m)
  <2>1. \A c : <<m, c>> # k BY <1>1
  <2>2. \A c : c \in Chunked(G \cup {k}, m) <=> c \in Chunked(G, m) BY <2>1 DEF Chunked
  <2>3. QED BY <2>2
<1>3. \A c : c \in Chunked(G \cup {k}, k[1]) <=> c \in Chunked(G, k[1]) \cup {k[2]}
  <2>1. \A c : <<k[1], c>> = k <=> c = k[2] BY <1>1
  <2>2. QED BY <1>1, <2>1 DEF Chunked
<1>4. Chunked(G \cup {k}, k[1]) = Chunked(G, k[1]) \cup {k[2]} BY <1>3
<1>5. k \notin G => k[2] \notin Chunked(G, k[1]) BY <1>1 DEF Chunked
<1>6. QED BY <1>2, <1>4, <1>5

\* A chunk leaves the record of its content.
LEMMA RecordsCut ==
  ASSUME NEW G, NEW s, NEW u, Records(G, s, u), NEW k \in L!Keys, k \in G,
         NEW p, p = Place[k[1]], NEW t, t = [s EXCEPT ![p] = L!StatRemoved(@, k[1])]
  PROVE  Records(G \ {k}, t, u)
<1>1. k[1] \in Names /\ k[2] \in Chunked(G, k[1]) BY ChunkedLess
<1>2. PICK d : d = L!StatRemoved(s[p], k[1]) OBVIOUS
<1>3. t = [s EXCEPT ![p] = d] BY <1>2
<1>4. DOMAIN t = DOMAIN s /\ \A q \in DOMAIN s : t[q] = IF q = p THEN d ELSE s[q] BY <1>3
<1>5. Beside(k[1], G, G \ {k}, s, t) BY <1>4, ChunkedLess DEF Beside
<1>6. ASSUME k[1] \notin u, Sole(k[1]) PROVE Right(t[Place[k[1]]], k[1], Chunked(G \ {k}, k[1]))
  <2>1. Right(s[p], k[1], Chunked(G, k[1])) BY <1>1, <1>6 DEF Records
  <2>2. Right(d, k[1], Chunked(G, k[1]) \ {k[2]}) BY <1>1, <1>2, <2>1, CutRight
  <2>3. p \in DOMAIN s BY <1>1 DEF Records, L!Places
  <2>4. QED BY <1>4, <2>2, <2>3, ChunkedLess
<1>7. RightAt(k[1], G \ {k}, t, u) BY <1>6 DEF RightAt
<1>8. u \subseteq u OBVIOUS
<1>9. QED BY <1>1, <1>5, <1>7, <1>8, RecordsBeside

Obj == [name : Names, chunk : Chunks, ver : Nat, rct : Nat, expiry : Nat]

LEMMA KeyIs ==
  ASSUME NEW o \in Obj, NEW k, k = L!Key(o)
  PROVE  k \in L!Keys /\ k[1] = o.name /\ k[2] = o.chunk /\ o.name \in Names /\ o.chunk \in Int
<1>1. o.name \in Names /\ o.chunk \in Chunks BY DEF Obj
<1>2. Chunks \subseteq Nat BY ContentStoreAssumption DEF ContentStoreAssumption
<1>3. k = <<o.name, o.chunk>> BY DEF L!Key
<1>4. k[1] = o.name /\ k[2] = o.chunk BY <1>3
<1>5. k \in L!Keys BY <1>1, <1>3 DEF L!Keys
<1>6. o.chunk \in Int
  <2>1. o.chunk \in Nat BY <1>1, <1>2, Zenon
  <2>2. QED BY <2>1
<1>7. QED BY <1>1, <1>4, <1>5, <1>6

\* An Object comes to the record of its content.
LEMMA RecordsAdd ==
  ASSUME NEW G, NEW s, NEW u, Records(G, s, u), NEW o \in Obj, NEW k, k = L!Key(o), k \notin G,
         NEW p, p = Place[o.name], NEW a, NEW t, t = [s EXCEPT ![p] = L!StatInserted(@, o, a)]
  PROVE  Records(G \cup {k}, t, u)
<1>1. k \in L!Keys /\ k[1] = o.name /\ k[2] = o.chunk /\ o.name \in Names /\ o.chunk \in Int BY KeyIs
<1>2. PICK d : d = L!StatInserted(s[p], o, a) OBVIOUS
<1>3. t = [s EXCEPT ![p] = d] BY <1>2
<1>4. DOMAIN t = DOMAIN s /\ \A q \in DOMAIN s : t[q] = IF q = p THEN d ELSE s[q] BY <1>3
<1>5. /\ \A m \in Names \ {o.name} : Chunked(G \cup {k}, m) = Chunked(G, m)
      /\ Chunked(G \cup {k}, o.name) = Chunked(G, o.name) \cup {o.chunk} /\ o.chunk \notin Chunked(G, o.name)
  BY <1>1, ChunkedMore
<1>6. Beside(o.name, G, G \cup {k}, s, t) BY <1>4, <1>5 DEF Beside
<1>7. ASSUME o.name \notin u, Sole(o.name) PROVE Right(t[Place[o.name]], o.name, Chunked(G \cup {k}, o.name))
  <2>1. Right(s[p], o.name, Chunked(G, o.name)) BY <1>1, <1>7 DEF Records
  <2>2. Right(d, o.name, Chunked(G, o.name) \cup {o.chunk}) BY <1>1, <1>2, <1>5, <2>1, AddRight
  <2>3. p \in DOMAIN s BY <1>1 DEF Records, L!Places
  <2>4. QED BY <1>4, <1>5, <2>2, <2>3
<1>8. RightAt(o.name, G \cup {k}, t, u) BY <1>7 DEF RightAt
<1>9. u \subseteq u OBVIOUS
<1>10. QED BY <1>1, <1>6, <1>8, <1>9, RecordsBeside

\* cef_mem_cache_mstat_ac_cnt_inc
LEMMA RecordsTouched ==
  ASSUME NEW G, NEW s, NEW u, Records(G, s, u), NEW p, NEW i, NEW v,
         NEW t, t = [s EXCEPT ![p][i].access = v]
  PROVE  Records(G, t, u)
<1>1. PICK e : e = [s[p] EXCEPT ![i].access = v] OBVIOUS
<1>2. t = [s EXCEPT ![p] = e] BY <1>1
<1>3. DOMAIN t = DOMAIN s /\ \A q \in DOMAIN s : t[q] = IF q = p THEN e ELSE s[q] BY <1>2
<1>4. ASSUME NEW n, NEW held, Right(s[p], n, held) PROVE Right(e, n, held)
  <2>1. CASE held = {}
    <3>1. s[p] = <<>> BY <1>4, <2>1 DEF Right
    <3>2. e = <<>> BY <1>1, <3>1
    <3>3. QED BY <1>4, <2>1, <3>2 DEF Right
  <2>2. CASE held # {}
    <3>1. PICK r : s[p] = <<r>> /\ Sums(r, n, held) BY <1>4, <2>2 DEF Right
    <3>2. PICK w : w = [r EXCEPT !.access = v] OBVIOUS
    <3>3. DOMAIN r = StatFields BY <3>1 DEF Sums
    <3>4. /\ DOMAIN w = StatFields /\ w.name = r.name /\ w.dead = r.dead /\ w.cobs = r.cobs
          /\ w.min = r.min /\ w.max = r.max
      BY <3>2, <3>3 DEF StatFields
    <3>5. Sums(w, n, held) BY <3>1, <3>4 DEF Sums
    <3>6. e = <<r>> \/ e = <<w>>
      <4>1. CASE i = 1
        <5>1. s[p][i] = r BY <3>1, <4>1
        <5>2. e = [s[p] EXCEPT ![i] = w] BY <1>1, <3>2, <5>1
        <5>3. QED BY <3>1, <4>1, <5>2
      <4>2. CASE i # 1
        <5>1. i \notin DOMAIN s[p] BY <3>1, <4>2
        <5>2. e = s[p] BY <1>1, <3>1, <5>1
        <5>3. QED BY <3>1, <5>2
      <4>3. QED BY <4>1, <4>2
    <3>7. QED BY <1>4, <2>2, <3>1, <3>5, <3>6 DEF Right
  <2>3. QED BY <2>1, <2>2
<1>5. ASSUME NEW n \in Names \ u, Sole(n) PROVE Right(t[Place[n]], n, Chunked(G, n))
  <2>1. Right(s[Place[n]], n, Chunked(G, n)) BY <1>5 DEF Records
  <2>2. Place[n] \in DOMAIN s BY DEF Records, L!Places
  <2>3. QED BY <1>3, <1>4, <2>1, <2>2
<1>6. QED BY <1>3, <1>5 DEF Records

-----------------------------------------------------------------------------
(* The cache as the steps under the mutex change it.                       *)

Entry == [ver : Nat, rct : Nat, expiry : Nat]
Entries(t) == DOMAIN t = L!Keys /\ \A k \in L!Keys : t[k] = L!NoEntry \/ t[k] \in Entry
\* The list is that of the keys of H, and the records are those of the keys of G.
Sound(c, H, G, u) ==
  /\ DOMAIN c = Fields /\ Entries(c.table) /\ c.bad \in BOOLEAN
  /\ Lists(H, c.list) /\ Records(G, c.stat, u)
Good(c, u) == Sound(c, Has(c.table), Has(c.table), u)

LEMMA CutIs ==
  ASSUME NEW c, DOMAIN c = Fields, NEW k, NEW d, d = L!RecordCut(c, k)
  PROVE  /\ DOMAIN d = Fields /\ d.table = c.table /\ d.list = c.list /\ d.bad \in BOOLEAN
         /\ d.stat = [c.stat EXCEPT ![Place[k[1]]] = L!StatRemoved(@, k[1])]
<1>1. PICK s, b : /\ s = [c.stat EXCEPT ![Place[k[1]]] = L!StatRemoved(@, k[1])]
                  /\ b = (c.bad \/ L!Trips(c.stat[Place[k[1]]], L!Hits(c.stat[Place[k[1]]], k[1], -1)))
  OBVIOUS
<1>2. b \in BOOLEAN BY <1>1
<1>3. d = [c EXCEPT !.stat = s, !.bad = b] BY <1>1 DEF L!RecordCut
<1>4. DOMAIN d = Fields /\ d.table = c.table /\ d.list = c.list /\ d.bad = b /\ d.stat = s BY <1>3 DEF Fields
<1>5. QED BY <1>1, <1>2, <1>4

LEMMA CutSound ==
  ASSUME NEW c, NEW H, NEW G, NEW u, Sound(c, H, G, u), NEW k \in L!Keys, k \in G, NEW d, d = L!RecordCut(c, k)
  PROVE  Sound(d, H, G \ {k}, u) /\ d.table = c.table /\ d.list = c.list
<1>1. DOMAIN c = Fields /\ Entries(c.table) /\ Lists(H, c.list) /\ Records(G, c.stat, u) BY DEF Sound
<1>2. /\ DOMAIN d = Fields /\ d.table = c.table /\ d.list = c.list /\ d.bad \in BOOLEAN
      /\ d.stat = [c.stat EXCEPT ![Place[k[1]]] = L!StatRemoved(@, k[1])]
  BY <1>1, CutIs
<1>3. Records(G \ {k}, d.stat, u) BY <1>1, <1>2, RecordsCut
<1>4. QED BY <1>1, <1>2, <1>3 DEF Sound

LEMMA HasLess ==
  ASSUME NEW t, Entries(t), NEW k, NEW u, u = [t EXCEPT ![k] = L!NoEntry]
  PROVE  Entries(u) /\ Has(u) = Has(t) \ {k}
<1>1. DOMAIN u = L!Keys /\ \A j \in L!Keys : u[j] = IF j = k THEN L!NoEntry ELSE t[j] BY DEF Entries
<1>2. \A j : j \in Has(u) <=> j \in Has(t) \ {k} BY <1>1 DEF Has
<1>3. Entries(u) BY <1>1 DEF Entries
<1>4. QED BY <1>2, <1>3

LEMMA RemovedSound ==
  ASSUME NEW c, NEW u, Good(c, u), NEW k \in L!Keys, NEW H, H = Has(c.table), NEW d, d = L!EntryRemoved(c, k)
  PROVE  Sound(d, H, H \ {k}, u) /\ Has(d.table) = H \ {k} /\ d.list = c.list
<1>1. Sound(c, H, H, u) BY DEF Good
<1>2. CASE c.table[k] = L!NoEntry
  <2>1. k \notin H BY <1>2 DEF Has
  <2>2. H \ {k} = H BY <2>1
  <2>3. d = c BY <1>2 DEF L!EntryRemoved
  <2>4. QED BY <1>1, <2>2, <2>3
<1>3. CASE c.table[k] # L!NoEntry
  <2>1. k \in H BY <1>3 DEF Has
  <2>2. PICK e : e = L!RecordCut(c, k) OBVIOUS
  <2>3. Sound(e, H, H \ {k}, u) /\ e.table = c.table /\ e.list = c.list BY <1>1, <2>1, <2>2, CutSound
  <2>4. PICK t : t = [e.table EXCEPT ![k] = L!NoEntry] OBVIOUS
  <2>5. d = [e EXCEPT !.table = t] BY <1>3, <2>2, <2>4 DEF L!EntryRemoved
  <2>6. DOMAIN e = Fields /\ Entries(e.table) BY <2>3 DEF Sound
  <2>7. DOMAIN d = Fields /\ d.table = t /\ d.list = e.list /\ d.stat = e.stat /\ d.bad = e.bad
    BY <2>5, <2>6 DEF Fields
  <2>8. Entries(t) /\ Has(t) = Has(e.table) \ {k} BY <2>4, <2>6, HasLess
  <2>9. Sound(d, H, H \ {k}, u) BY <2>3, <2>7, <2>8 DEF Sound
  <2>10. QED BY <2>3, <2>7, <2>8, <2>9
<1>4. QED BY <1>2, <1>3

LEMMA EvictedSound ==
  ASSUME NEW c, NEW u, Good(c, u), c.list # <<>>, NEW d, d = L!Evicted(c)
  PROVE  Good(d, u) /\ Len(d.list) = Len(c.list) - 1 /\ Has(d.table) \subseteq Has(c.table)
<1>1. PICK H, k, l : H = Has(c.table) /\ k = c.list[1].key /\ l = c.list OBVIOUS
<1>2. Lists(H, l) BY <1>1 DEF Good, Sound
<1>3. l \in Seq(Node) /\ 1 \in DOMAIN l
  <2>1. l \in Seq(Node) BY <1>2 DEF Lists
  <2>2. QED BY <1>1, <2>1
<1>4. k \in L!Keys
  <2>1. l[1] \in Node BY <1>3
  <2>2. QED BY <1>1, <2>1 DEF Node
<1>5. PICK e : e = L!EntryRemoved(c, k) OBVIOUS
<1>6. Sound(e, H, H \ {k}, u) /\ Has(e.table) = H \ {k} /\ e.list = l
  <2>1. H = Has(c.table) BY <1>1
  <2>2. Good(c, u) OBVIOUS
  <2>3. \A q \in L!Keys : \A G, f : G = Has(c.table) /\ f = L!EntryRemoved(c, q) =>
                                Sound(f, G, G \ {q}, u) /\ Has(f.table) = G \ {q} /\ f.list = c.list
    BY <2>2, RemovedSound
  <2>4. Sound(e, H, H \ {k}, u) /\ Has(e.table) = H \ {k} /\ e.list = c.list BY <1>4, <1>5, <2>1, <2>3
  <2>5. QED BY <1>1, <2>4
<1>7. PICK m : m = L!Unowned(l, k) OBVIOUS
<1>8. Disowned(l, m, {k}) BY <1>3, <1>7, UnownedIs
<1>9. Lists(H \ {k}, m) BY <1>2, <1>8, DisownedLists
<1>10. m # <<>> /\ ~m[1].own /\ Len(m) = Len(l) BY <1>1, <1>3, <1>8 DEF Disowned
<1>11. PICK n : n = Tail(m) OBVIOUS
<1>12. Lists(H \ {k}, n) /\ Len(n) = Len(m) - 1 BY <1>9, <1>10, <1>11, TailLists
<1>13. d = [e EXCEPT !.list = n] BY <1>1, <1>5, <1>6, <1>7, <1>11 DEF L!Evicted
<1>14. DOMAIN d = Fields /\ d.table = e.table /\ d.list = n /\ d.stat = e.stat /\ d.bad = e.bad
  <2>1. DOMAIN e = Fields BY <1>6 DEF Sound
  <2>2. QED BY <1>13, <2>1 DEF Fields
<1>15. Has(d.table) = H \ {k} BY <1>6, <1>14
<1>16. Sound(d, H \ {k}, H \ {k}, u) BY <1>6, <1>12, <1>14 DEF Sound
<1>17. Good(d, u) BY <1>15, <1>16 DEF Good
<1>18. QED BY <1>1, <1>10, <1>12, <1>14, <1>15, <1>17

LEMMA InsertedSound ==
  ASSUME NEW c, NEW u, Good(c, u), NEW o \in Obj, L!Key(o) \notin Has(c.table),
         NEW a, NEW d, d = L!Inserted(c, o, a)
  PROVE  Good(d, u)
<1>1. PICK e, k, p : e = (IF L!IsFull(c) THEN L!Evicted(c) ELSE c) /\ k = L!Key(o) /\ p = Place[o.name] OBVIOUS
<1>2. k \in L!Keys /\ k[1] = o.name BY <1>1, KeyIs
<1>3. Capacity \in Nat /\ Capacity > 0 BY ContentStoreAssumption DEF ContentStoreAssumption
<1>4. c.list \in Seq(Node) /\ Len(c.list) <= Capacity BY DEF Good, Sound, Lists
<1>5. Good(e, u) /\ Len(e.list) < Capacity /\ Has(e.table) \subseteq Has(c.table)
  <2>1. CASE L!IsFull(c)
    <3>1. Len(c.list) = Capacity BY <2>1 DEF L!IsFull
    <3>2. c.list # <<>> BY <1>3, <3>1
    <3>3. Good(e, u) /\ Len(e.list) = Len(c.list) - 1 /\ Has(e.table) \subseteq Has(c.table)
      BY <1>1, <2>1, <3>2, EvictedSound
    <3>4. QED BY <1>3, <3>1, <3>3
  <2>2. CASE ~L!IsFull(c)
    <3>1. Len(c.list) # Capacity /\ e = c BY <1>1, <2>2 DEF L!IsFull
    <3>2. QED BY <1>3, <1>4, <3>1
  <2>3. QED BY <2>1, <2>2
<1>6. PICK H : H = Has(e.table) OBVIOUS
<1>7. k \notin H BY <1>1, <1>5, <1>6
<1>8. DOMAIN e = Fields /\ Entries(e.table) /\ Lists(H, e.list) /\ Records(H, e.stat, u)
  BY <1>5, <1>6 DEF Good, Sound
<1>9. PICK x, t, l, s, b :
        /\ x = [ver |-> o.ver, rct |-> o.rct, expiry |-> o.expiry]
        /\ t = [e.table EXCEPT ![k] = x] /\ l = L!Enqueued(e.list, k)
        /\ s = [e.stat EXCEPT ![p] = L!StatInserted(@, o, a)]
        /\ b = (e.bad \/ L!Trips(e.stat[p], L!Hits(e.stat[p], o.name, -1)))
  OBVIOUS
<1>10. d = [e EXCEPT !.table = t, !.list = l, !.stat = s, !.bad = b] BY <1>1, <1>9 DEF L!Inserted
<1>11. DOMAIN d = Fields /\ d.table = t /\ d.list = l /\ d.stat = s /\ d.bad = b BY <1>8, <1>10 DEF Fields
<1>12. b \in BOOLEAN BY <1>9
<1>13. Lists(H \cup {k}, l) BY <1>2, <1>5, <1>7, <1>8, <1>9, EnqueuedLists
<1>14. Records(H \cup {k}, s, u) BY <1>1, <1>7, <1>8, <1>9, RecordsAdd
<1>15. Entries(t) /\ Has(t) = H \cup {k}
  <2>1. x # L!NoEntry
    <3>1. DOMAIN x # DOMAIN L!NoEntry BY <1>9 DEF L!NoEntry
    <3>2. QED BY <3>1
  <2>2. DOMAIN t = L!Keys /\ \A j \in L!Keys : t[j] = IF j = k THEN x ELSE e.table[j]
    BY <1>8, <1>9 DEF Entries
  <2>3. x \in Entry BY <1>9 DEF Obj, Entry
  <2>4. Entries(t) BY <1>8, <2>2, <2>3 DEF Entries
  <2>5. \A j : j \in Has(t) <=> j \in H \cup {k} BY <1>2, <1>6, <2>1, <2>2 DEF Has
  <2>6. Has(t) = H \cup {k} BY <2>5
  <2>7. QED BY <2>4, <2>6
<1>16. QED BY <1>11, <1>12, <1>13, <1>14, <1>15 DEF Good, Sound

\* cef_mem_cache_cob_write: the entry that gives way goes, and the record of its version.
LEMMA VacatedSound ==
  ASSUME NEW u, Good(L!Cache, u), NEW k \in L!Keys, NEW v, v = u \cup {k[1]},
         NEW hits, NEW c, c = L!Vacated(k, Place[k[1]], hits)
  PROVE  Good(c, v) /\ Has(c.table) = Has(table) \ {k}
<1>1. PICK b, p, H : b = L!Cache /\ p = Place[k[1]] /\ H = Has(table) OBVIOUS
<1>2. DOMAIN b = Fields /\ b.table = table /\ b.list = list /\ b.stat = stat BY <1>1 DEF L!Cache, Fields
<1>3. Entries(table) /\ Lists(H, list) /\ Records(H, stat, u) BY <1>1, <1>2 DEF Good, Sound
<1>4. PICK t, l, e, s, x :
        /\ t = [table EXCEPT ![k] = L!NoEntry] /\ l = L!Erased(list, k)
        /\ e = (IF hits = {} THEN stat[p] ELSE IF L!Min(hits) = 1 THEN <<>>
                ELSE [stat[p] EXCEPT ![L!Min(hits)].dead = TRUE])
        /\ s = [stat EXCEPT ![p] = e] /\ x = L!Trips(stat[p], hits)
  OBVIOUS
<1>5. c = [b EXCEPT !.table = t, !.list = l, !.stat = s, !.bad = x] BY <1>1, <1>2, <1>4 DEF L!Vacated
<1>6. DOMAIN c = Fields /\ c.table = t /\ c.list = l /\ c.stat = s /\ c.bad = x BY <1>2, <1>5 DEF Fields
<1>7. x \in BOOLEAN BY <1>4 DEF L!Trips
<1>8. Entries(t) /\ Has(t) = H \ {k} BY <1>1, <1>3, <1>4, HasLess
<1>9. Lists(H \ {k}, l) BY <1>3, <1>4, ErasedLists
<1>10. Records(H \ {k}, s, v)
  <2>1. PICK n \in Names : n = k[1] BY ChunkedLess
  <2>2. DOMAIN s = DOMAIN stat /\ \A q \in DOMAIN stat : q # p => s[q] = stat[q] BY <1>4
  <2>3. Beside(n, H, H \ {k}, stat, s) BY <1>1, <2>1, <2>2, ChunkedLess DEF Beside
  <2>4. RightAt(n, H \ {k}, s, v) BY <2>1 DEF RightAt
  <2>5. u \subseteq v OBVIOUS
  <2>6. QED BY <1>3, <2>1, <2>3, <2>4, <2>5, RecordsBeside
<1>11. Sound(c, H \ {k}, H \ {k}, v) BY <1>6, <1>7, <1>8, <1>9, <1>10 DEF Sound
<1>12. QED BY <1>1, <1>6, <1>8, <1>11 DEF Good

LEMMA SweptSound ==
  ASSUME NEW c, NEW H, NEW u, Sound(c, H, H, u), NEW k \in L!Keys, k \in H, NEW d, d = L!Swept(c, k)
  PROVE  Sound(d, H \ {k}, H \ {k}, u) /\ d.table = c.table
<1>1. PICK e : e = L!RecordCut(c, k) OBVIOUS
<1>2. Sound(e, H, H \ {k}, u) /\ e.table = c.table BY <1>1, CutSound
<1>3. DOMAIN e = Fields /\ Lists(H, e.list) BY <1>2 DEF Sound
<1>4. PICK l : l = L!Erased(e.list, k) OBVIOUS
<1>5. Lists(H \ {k}, l) BY <1>3, <1>4, ErasedLists
<1>6. d = [e EXCEPT !.list = l] BY <1>1, <1>4 DEF L!Swept
<1>7. DOMAIN d = Fields /\ d.table = e.table /\ d.list = l /\ d.stat = e.stat /\ d.bad = e.bad
  BY <1>3, <1>6 DEF Fields
<1>8. QED BY <1>2, <1>5, <1>7 DEF Sound

\* A bucket is swept key by key: g holds the cache for each set of keys that are gone.
Pick(T) == CHOOSE x \in T : TRUE
Iter(S, c, g) ==
  g = [T \in SUBSET S |-> IF T = {} THEN c ELSE L!Swept(g[T \ {Pick(T)}], Pick(T))]

LEMMA SweepIs ==
  ASSUME NEW S
  PROVE  L!AllSwept(S) = (CHOOSE g : Iter(S, L!Cache, g))[S]
BY DEF L!AllSwept, L!FoldSet, L!MapThenFoldSet, Iter, Pick

LEMMA PickIn ==
  ASSUME NEW S, IsFiniteSet(S), NEW T \in SUBSET S, T # {}
  PROVE  /\ Pick(T) \in T /\ T \ {Pick(T)} \in SUBSET S /\ IsFiniteSet(T)
         /\ Cardinality(T) \in Nat \ {0} /\ Cardinality(T \ {Pick(T)}) = Cardinality(T) - 1
<1>1. Pick(T) \in T BY DEF Pick
<1>2. IsFiniteSet(T) BY FS_Subset
<1>3. Cardinality(T) \in Nat /\ Cardinality(T) # 0 BY <1>2, FS_CardinalityType, FS_EmptySet
<1>4. Cardinality(T \ {Pick(T)}) = Cardinality(T) - 1 BY <1>1, <1>2, FS_RemoveElement
<1>5. QED BY <1>1, <1>2, <1>3, <1>4

\* g for the sets of up to n keys
Small(S, n) == {T \in SUBSET S : Cardinality(T) <= n}
Part(S, c, n, g) ==
  /\ DOMAIN g = Small(S, n)
  /\ \A T \in Small(S, n) : g[T] = IF T = {} THEN c ELSE L!Swept(g[T \ {Pick(T)}], Pick(T))

LEMMA IterMore ==
  ASSUME NEW S, IsFiniteSet(S), NEW c, NEW n \in Nat, NEW h, Part(S, c, n, h)
  PROVE  \E g : Part(S, c, n + 1, g)
<1> DEFINE F(T) == IF T = {} THEN c ELSE L!Swept(h[T \ {Pick(T)}], Pick(T))
<1>1. PICK g : g = [T \in Small(S, n + 1) |-> F(T)] OBVIOUS
<1>2. DOMAIN g = Small(S, n + 1) /\ \A T \in Small(S, n + 1) : g[T] = F(T) BY <1>1
<1>3. \A T \in Small(S, n) : h[T] = F(T) BY DEF Part
<1> HIDE DEF F
<1>4. ASSUME NEW T \in Small(S, n + 1), T # {} PROVE h[T \ {Pick(T)}] = g[T \ {Pick(T)}]
  <2>1. PICK U : U = T \ {Pick(T)} OBVIOUS
  <2>2. T \in SUBSET S /\ Cardinality(T) <= n + 1 BY DEF Small
  <2>3. U \in SUBSET S /\ Cardinality(T) \in Nat /\ Cardinality(U) = Cardinality(T) - 1 BY <1>4, <2>1, <2>2, PickIn
  <2>4. U \in Small(S, n) /\ U \in Small(S, n + 1) BY <2>2, <2>3 DEF Small
  <2>5. QED BY <1>2, <1>3, <2>1, <2>4
<1>5. \A T \in Small(S, n + 1) : g[T] = IF T = {} THEN c ELSE L!Swept(g[T \ {Pick(T)}], Pick(T))
  BY <1>2, <1>4 DEF F
<1>6. QED BY <1>2, <1>5 DEF Part

LEMMA IterExists ==
  ASSUME NEW S, IsFiniteSet(S), NEW c
  PROVE  \E g : Iter(S, c, g)
<1>1. PICK B : B = {n \in Nat : ~\E g : Part(S, c, n, g)} OBVIOUS
<1>2. ASSUME B # {} PROVE FALSE
  <2>1. B \subseteq Nat BY <1>1
  <2>2. PICK n \in B : \A m \in B : n <= m BY <1>2, <2>1, LeastNat
  <2>3. n \in Nat BY <2>1
  <2>4. CASE n = 0
    <3>1. PICK g : g = [T \in Small(S, 0) |-> c] OBVIOUS
    <3>2. ASSUME NEW T \in Small(S, 0) PROVE T = {}
      <4>1. T \in SUBSET S /\ Cardinality(T) <= 0 BY DEF Small
      <4>2. T # {} => Cardinality(T) \in Nat \ {0} BY <4>1, PickIn
      <4>3. QED BY <4>1, <4>2
    <3>3. Part(S, c, 0, g) BY <3>1, <3>2 DEF Part
    <3>4. QED BY <1>1, <2>4, <3>3
  <2>5. CASE n # 0
    <3>1. PICK m \in Nat : n = m + 1
      <4>1. n - 1 \in Nat /\ n = (n - 1) + 1 BY <2>3, <2>5
      <4>2. QED BY <4>1
    <3>2. m \notin B BY <2>2, <3>1
    <3>3. PICK h : Part(S, c, m, h) BY <1>1, <3>2
    <3>4. \E g : Part(S, c, n, g) BY <3>1, <3>3, IterMore
    <3>5. QED BY <1>1, <3>4
  <2>6. QED BY <2>4, <2>5
<1>3. Cardinality(S) \in Nat BY FS_CardinalityType
<1>4. PICK g : Part(S, c, Cardinality(S), g) BY <1>1, <1>2, <1>3
<1>5. \A T : T \in Small(S, Cardinality(S)) <=> T \in SUBSET S BY FS_Subset DEF Small
<1>6. Small(S, Cardinality(S)) = SUBSET S BY <1>5
<1>7. PICK h : h = [T \in SUBSET S |-> IF T = {} THEN c ELSE L!Swept(g[T \ {Pick(T)}], Pick(T))] OBVIOUS
<1>8. \A T \in SUBSET S : h[T] = g[T] BY <1>4, <1>6, <1>7 DEF Part
<1>9. \A T \in SUBSET S : T # {} => g[T \ {Pick(T)}] = h[T \ {Pick(T)}] BY <1>8, PickIn
<1>10. h = [T \in SUBSET S |-> IF T = {} THEN c ELSE L!Swept(h[T \ {Pick(T)}], Pick(T))] BY <1>7, <1>9
<1>11. QED BY <1>10 DEF Iter

LEMMA AllSweptSound ==
  ASSUME NEW u, NEW H, Sound(L!Cache, H, H, u), NEW S, S \subseteq H, S \subseteq L!Keys, IsFiniteSet(S),
         NEW d, d = L!AllSwept(S)
  PROVE  Sound(d, H \ S, H \ S, u)
<1>1. PICK c : c = L!Cache OBVIOUS
<1>2. PICK g : Iter(S, c, g) /\ d = g[S]
  <2>1. \E g : Iter(S, c, g) BY IterExists
  <2>2. d = (CHOOSE g : Iter(S, c, g))[S] BY <1>1, SweepIs
  <2>3. QED BY <2>1, <2>2
<1>3. \A T \in SUBSET S : g[T] = IF T = {} THEN c ELSE L!Swept(g[T \ {Pick(T)}], Pick(T))
  <2>1. PICK f : f = [T \in SUBSET S |-> IF T = {} THEN c ELSE L!Swept(g[T \ {Pick(T)}], Pick(T))] OBVIOUS
  <2>2. g = f BY <1>2, <2>1 DEF Iter
  <2>3. QED BY <2>1, <2>2
<1> DEFINE Ok(T) == Sound(g[T], H \ T, H \ T, u)
<1>4. PICK B : B = {Cardinality(T) : T \in {U \in SUBSET S : ~Ok(U)}} OBVIOUS
<1>5. ASSUME B # {} PROVE FALSE
  <2>1. \A T \in SUBSET S : Cardinality(T) \in Nat BY FS_Subset, FS_CardinalityType
  <2>2. B \subseteq Nat BY <1>4, <2>1
  <2>3. PICK n \in B : \A m \in B : n <= m BY <1>5, <2>2, LeastNat
  <2>4. PICK T \in SUBSET S : n = Cardinality(T) /\ ~Ok(T) BY <1>4
  <2>5. T # {}
    <3>1. SUFFICES ASSUME T = {} PROVE FALSE OBVIOUS
    <3>2. g[T] = c /\ H \ T = H BY <1>3, <3>1
    <3>3. QED BY <1>1, <2>4, <3>2
  <2>6. PICK x, U : x = Pick(T) /\ U = T \ {x} OBVIOUS
  <2>7. x \in T /\ U \in SUBSET S /\ Cardinality(T) \in Nat \ {0} /\ Cardinality(U) = Cardinality(T) - 1
    BY <2>5, <2>6, PickIn
  <2>8. Ok(U)
    <3>1. SUFFICES ASSUME ~Ok(U) PROVE FALSE OBVIOUS
    <3>2. Cardinality(U) \in B BY <1>4, <2>7, <3>1
    <3>3. QED BY <2>3, <2>4, <2>7, <3>2
  <2>9. g[T] = L!Swept(g[U], x) BY <1>3, <2>5, <2>6
  <2>10. x \in H \ U /\ x \in L!Keys BY <2>6, <2>7
  <2>11. PICK G : G = H \ U OBVIOUS
  <2>12. Sound(g[U], G, G, u) /\ x \in G BY <2>8, <2>10, <2>11
  <2>13. Sound(g[T], G \ {x}, G \ {x}, u) BY <2>9, <2>10, <2>12, SweptSound
  <2>14. G \ {x} = H \ T BY <2>6, <2>7, <2>11
  <2>15. QED BY <2>4, <2>13, <2>14
<1>6. Ok(S) BY <1>4, <1>5
<1>7. QED BY <1>2, <1>6

-----------------------------------------------------------------------------
(* The threads and the main task.                                          *)

\* What the delete thread still has to do is about contents of which a version was replaced.
Doomed(q, u) == q \in Seq(Items(q)) /\ Len(q) <= PipeRoom /\ \A i \in DOMAIN q : q[i].name \in u
Deleting(d, u) == d.at = "delete" => DOMAIN d = {"at", "n", "seq", "of"} /\ d.of.name \in u
\* The main task writes an Object, or holds an entry, that may be gone.
Tasked(m) ==
  \/ m = L!Idle
  \/ DOMAIN m = {"at", "o", "tries"} /\ m.at = "write" /\ m.o \in Obj
  \/ DOMAIN m = {"at", "key", "ver", "gone"} /\ m.at \in {"count", "compare"} /\ m.gone \in BOOLEAN

CacheInv ==
  /\ Good(L!Cache, upgraded) /\ upgraded \subseteq Names /\ broken \in BOOLEAN
  /\ Doomed(delPipe, upgraded) /\ Deleting(deleter, upgraded)
  /\ checking \in BOOLEAN /\ due \in BOOLEAN /\ now \in 1 .. TimeMax /\ feed \in Seq(Obj)
TaskInv == Tasked(main) /\ pipe \in Seq(Obj) /\ Len(pipe) <= PipeRoom

LEMMA CacheIs ==
  /\ DOMAIN L!Cache = Fields /\ L!Cache.table = table /\ L!Cache.list = list /\ L!Cache.stat = stat
  /\ L!Cache.bad = FALSE
BY DEF L!Cache, Fields

LEMMA CacheNext ==
  ASSUME NEW c, NEW u, Good(c, u), table' = c.table, list' = c.list, stat' = c.stat
  PROVE  Good(L!Cache', u)
<1>1. PICK d : d = L!Cache' OBVIOUS
<1>2. DOMAIN d = Fields /\ d.table = table' /\ d.list = list' /\ d.stat = stat' /\ d.bad = FALSE
  BY <1>1 DEF L!Cache, Fields
<1>3. QED BY <1>1, <1>2 DEF Good, Sound

LEMMA CacheSame ==
  ASSUME Good(L!Cache, upgraded), UNCHANGED <<table, list, stat>>
  PROVE  Good(L!Cache', upgraded)
BY CacheIs, CacheNext

\* The key is gone: so the main task may know of it.
LEMMA GoneTasked ==
  ASSUME NEW m, Tasked(m), NEW keys, NEW n, n = L!Gone(m, keys)
  PROVE  Tasked(n)
<1>1. CASE n = m BY <1>1
<1>2. CASE n # m
  <2>1. m.at \in {"count", "compare"} /\ n = [m EXCEPT !.gone = TRUE] BY <1>2 DEF L!Gone
  <2>2. DOMAIN m = {"at", "key", "ver", "gone"} BY <2>1 DEF Tasked, L!Idle
  <2>3. DOMAIN n = {"at", "key", "ver", "gone"} /\ n.at = m.at /\ n.gone = TRUE BY <2>1, <2>2
  <2>4. QED BY <2>1, <2>3 DEF Tasked
<1>3. QED BY <1>1, <1>2

\* The chunk of an Object comes to the cache.
LEMMA DoInsert ==
  ASSUME NEW c, NEW u, Good(c, u), NEW o \in Obj, L!Key(o) \notin Has(c.table), NEW a, NEW keys,
         NEW d, d = L!Inserted(c, o, a), L!Become(d, keys), Tasked(main)
  PROVE  Good(L!Cache', u) /\ broken' \in BOOLEAN /\ Tasked(main')
<1>1. Good(d, u) BY InsertedSound
<1>2. table' = d.table /\ list' = d.list /\ stat' = d.stat /\ broken' = d.bad /\ main' = L!Gone(main, keys)
  BY DEF L!Become
<1>3. Good(L!Cache', u) BY <1>1, <1>2, CacheNext
<1>4. d.bad \in BOOLEAN BY <1>1 DEF Good, Sound
<1>5. QED BY <1>2, <1>3, <1>4, GoneTasked

\* Less is cached, and the lookup table loses the same keys.
LEMMA FewerGood ==
  ASSUME NEW c, NEW H, NEW u, Sound(c, H, H, u), NEW t, Entries(t), Has(t) = H,
         table' = t, list' = c.list, stat' = c.stat
  PROVE  Good(L!Cache', u)
<1>1. PICK d : d = L!Cache' OBVIOUS
<1>2. DOMAIN d = Fields /\ d.table = table' /\ d.list = list' /\ d.stat = stat' /\ d.bad = FALSE
  BY <1>1 DEF L!Cache, Fields
<1>3. QED BY <1>1, <1>2 DEF Good, Sound

LEMMA WithoutIs ==
  ASSUME NEW t, Entries(t), NEW keys, NEW w, w = L!Without(t, keys)
  PROVE  Entries(w) /\ Has(w) = Has(t) \ keys
<1>1. DOMAIN w = L!Keys /\ \A k \in L!Keys : w[k] = IF k \in keys THEN L!NoEntry ELSE t[k] BY DEF L!Without
<1>2. Entries(w) BY <1>1 DEF Entries
<1>3. \A k : k \in Has(w) <=> k \in Has(t) \ keys BY <1>1 DEF Has
<1>4. QED BY <1>1, <1>2, <1>3

LEMMA NextObject ==
  ASSUME TaskInv, pipe # <<>>, NEW o, o = Head(pipe), NEW q, q = Tail(pipe)
  PROVE  o \in Obj /\ q \in Seq(Obj) /\ Len(q) <= PipeRoom
<1>1. PICK N \in Nat : N = Len(pipe) BY DEF TaskInv
<1>2. PipeRoom \in Nat /\ N <= PipeRoom BY <1>1, SizesAre DEF TaskInv
<1>3. pipe \in Seq(Obj) BY DEF TaskInv
<1>4. o \in Obj /\ q \in Seq(Obj) /\ Len(q) = N - 1 BY <1>1, <1>3
<1>5. QED BY <1>1, <1>2, <1>4

\* The delete thread is told of one more, or of none.
LEMMA DoomedMore ==
  ASSUME NEW q, NEW u, Doomed(q, u), NEW v, u \subseteq v, NEW x, x.name \in v, NEW r,
         r = q \/ (Len(q) < PipeRoom /\ r = Append(q, x))
  PROVE  Doomed(r, v)
<1>1. CASE r = q BY <1>1 DEF Doomed
<1>2. CASE Len(q) < PipeRoom /\ r = Append(q, x)
  <2>1. PICK S : S = Items(q) \cup {x} OBVIOUS
  <2>2. PICK N \in Nat : N = Len(q) BY DEF Doomed
  <2>3. q \in Seq(S)
    <3>1. q \in Seq(Items(q)) BY DEF Doomed
    <3>2. Items(q) \subseteq S BY <2>1
    <3>3. QED BY <3>1, <3>2
  <2>4. /\ r \in Seq(S) /\ Len(r) = N + 1 /\ DOMAIN r = 1 .. N + 1 /\ DOMAIN q = 1 .. N
        /\ r[N + 1] = x /\ \A i \in 1 .. N : r[i] = q[i]
    BY <1>2, <2>1, <2>2, <2>3
  <2>5. \A i \in 1 .. N + 1 : i = N + 1 \/ i \in 1 .. N BY <2>2
  <2>6. \A i \in DOMAIN r : r[i].name \in v BY <2>4, <2>5 DEF Doomed
  <2>7. r \in Seq(Items(r))
    <3>1. \A i \in 1 .. N + 1 : r[i] \in Items(r) BY <2>4 DEF Items
    <3>2. r = [i \in 1 .. N + 1 |-> r[i]] BY <2>4
    <3>3. r \in [1 .. N + 1 -> Items(r)] BY <3>1, <3>2
    <3>4. N + 1 \in Nat BY <2>2
    <3>5. QED BY <3>3, <3>4
  <2>8. Len(r) <= PipeRoom
    <3>1. PipeRoom \in Nat /\ N < PipeRoom BY <1>2, <2>2, SizesAre
    <3>2. QED BY <2>4, <3>1
  <2>9. QED BY <2>6, <2>7, <2>8 DEF Doomed
<1>3. QED BY <1>1, <1>2

LEMMA DoReplace ==
  ASSUME CacheInv, TaskInv, NEW o \in Obj, L!Held(L!Key(o)), L!Replace(o)
  PROVE  /\ Good(L!Cache', upgraded') /\ broken' \in BOOLEAN /\ Tasked(main')
         /\ upgraded' = upgraded \cup {o.name} /\ Doomed(delPipe', upgraded')
<1>1. PICK k, p, v : k = L!Key(o) /\ p = Place[o.name] /\ v = upgraded \cup {o.name} BY Zenon
<1>2. k \in L!Keys /\ k[1] = o.name BY <1>1, KeyIs
<1>3. upgraded' = v BY <1>1, Zenon DEF L!Replace
<1>4. \E hits, c, d, a, keys : /\ c = L!Vacated(k, p, hits) /\ d = L!Inserted(c, o, a) /\ L!Become(d, keys)
  <2> DEFINE was == L!Hits(stat[Place[o.name]], o.name, table[L!Key(o)].ver)
             acc == IF was # {} THEN stat[Place[o.name]][L!Min(was)].access ELSE 0
             new == L!Inserted(L!Vacated(L!Key(o), Place[o.name], was), o, acc)
             keys == {L!Key(o)} \cup {j \in L!Keys : L!Held(j) /\ new.table[j] = L!NoEntry}
  <2>1. L!Become(new, keys) BY Zenon DEF L!Replace
  <2> HIDE DEF was, acc, keys
  <2>2. QED BY <1>1, <2>1
<1>5. PICK hits, c, d, a, keys :
        /\ c = L!Vacated(k, p, hits) /\ d = L!Inserted(c, o, a) /\ L!Become(d, keys)
  BY <1>4
<1>6. Good(c, v) /\ Has(c.table) = Has(table) \ {k}
  <2>1. Good(L!Cache, upgraded) BY DEF CacheInv
  <2>2. c = L!Vacated(k, Place[k[1]], hits) /\ v = upgraded \cup {k[1]} BY <1>1, <1>2, <1>5
  <2>3. QED BY <1>2, <2>1, <2>2, VacatedSound
<1>7. L!Key(o) \notin Has(c.table) BY <1>1, <1>6
<1>8. Tasked(main) BY DEF TaskInv
<1>9. Good(L!Cache', v) /\ broken' \in BOOLEAN /\ Tasked(main') BY <1>5, <1>6, <1>7, <1>8, DoInsert
<1>10. Doomed(delPipe', v)
  <2>1. \E x : x.name \in v /\ (delPipe' = delPipe \/ (Len(delPipe) < PipeRoom /\ delPipe' = Append(delPipe, x)))
    <3> DEFINE was == L!Hits(stat[Place[o.name]], o.name, table[L!Key(o)].ver)
               r == stat[Place[o.name]][L!Min(was)]
    <3>1. delPipe' = IF was # {} /\ Len(delPipe) < PipeRoom
                     THEN Append(delPipe, [name |-> o.name, ver |-> r.ver, min |-> r.min, max |-> r.max])
                     ELSE delPipe
      BY Zenon DEF L!Replace
    <3> HIDE DEF was, r
    <3>2. PICK x : x = [name |-> o.name, ver |-> r.ver, min |-> r.min, max |-> r.max] OBVIOUS
    <3>3. x.name \in v BY <1>1, <3>2
    <3>4. QED BY <3>1, <3>2, <3>3
  <2>2. PICK x : x.name \in v /\ (delPipe' = delPipe \/ (Len(delPipe) < PipeRoom /\ delPipe' = Append(delPipe, x)))
    BY <2>1
  <2>3. Doomed(delPipe, upgraded) /\ upgraded \subseteq v BY <1>1 DEF CacheInv
  <2>4. QED BY <2>2, <2>3, DoomedMore
<1>11. QED BY <1>1, <1>3, <1>9, <1>10

\* A key keeps its entry, with the times of an Object of the same version.
LEMMA DoRefresh ==
  ASSUME CacheInv, NEW o \in Obj, NEW k, L!Held(k),
         table' = [table EXCEPT ![k].rct = o.rct, ![k].expiry = o.expiry], UNCHANGED <<list, stat>>
  PROVE  Good(L!Cache', upgraded)
<1>1. PICK H : H = Has(table) OBVIOUS
<1>2. Sound(L!Cache, H, H, upgraded) /\ Entries(table) BY <1>1, CacheIs DEF CacheInv, Good, Sound
<1>3. PICK x : x = [table[k] EXCEPT !.rct = o.rct, !.expiry = o.expiry] OBVIOUS
<1>4. DOMAIN table' = L!Keys /\ \A j \in L!Keys : table'[j] = IF j = k THEN x ELSE table[j]
  BY <1>2, <1>3 DEF Entries
<1>5. k \in L!Keys => x \in Entry /\ x # L!NoEntry
  <2>1. SUFFICES ASSUME k \in L!Keys PROVE x \in Entry /\ x # L!NoEntry OBVIOUS
  <2>2. table[k] \in Entry BY <1>2, <2>1 DEF Entries, L!Held
  <2>3. o.rct \in Nat /\ o.expiry \in Nat BY DEF Obj
  <2>4. x \in Entry BY <1>3, <2>2, <2>3 DEF Entry
  <2>5. DOMAIN x = {"ver", "rct", "expiry"} BY <2>4 DEF Entry
  <2>6. DOMAIN L!NoEntry = {"ver"} BY DEF L!NoEntry
  <2>7. "rct" \in DOMAIN x /\ "rct" \notin DOMAIN L!NoEntry BY <2>5, <2>6
  <2>8. QED BY <2>4, <2>7
<1>6. Entries(table') BY <1>2, <1>4, <1>5 DEF Entries
<1>7. \A j : j \in Has(table') <=> j \in H BY <1>1, <1>4, <1>5 DEF Has, L!Held
<1>8. Has(table') = H BY <1>7
<1>9. list' = L!Cache.list /\ stat' = L!Cache.stat BY CacheIs
<1>10. QED BY <1>2, <1>6, <1>8, <1>9, FewerGood

LEMMA DoPut ==
  ASSUME CacheInv, TaskInv, L!PutOne
  PROVE  CacheInv' /\ TaskInv'
<1>1. PICK o, k : o = Head(pipe) /\ k = L!Key(o) OBVIOUS
<1>2. UNCHANGED <<now, feed, deleter, due, checking>> /\ pipe # <<>> /\ pipe' = Tail(pipe)
  BY DEF L!PutOne
<1>3. o \in Obj /\ pipe' \in Seq(Obj) /\ Len(pipe') <= PipeRoom BY <1>1, <1>2, NextObject
<1>4. SUFFICES /\ Good(L!Cache', upgraded') /\ broken' \in BOOLEAN /\ Tasked(main')
               /\ (upgraded' = upgraded \/ upgraded' = upgraded \cup {o.name}) /\ Doomed(delPipe', upgraded')
  <2>1. upgraded \subseteq upgraded' /\ upgraded' \subseteq Names BY <1>3, <1>4 DEF CacheInv, Obj
  <2>2. Deleting(deleter', upgraded') BY <1>2, <2>1 DEF CacheInv, Deleting
  <2>3. CacheInv' BY <1>2, <1>4, <2>1, <2>2 DEF CacheInv
  <2>4. TaskInv' BY <1>3, <1>4 DEF TaskInv
  <2>5. QED BY <2>3, <2>4
<1>5. Good(L!Cache, upgraded) /\ Doomed(delPipe, upgraded) /\ Tasked(main) BY DEF CacheInv, TaskInv
<1>6. CASE UNCHANGED <<table, list, stat, main, delPipe, upgraded, broken>>
  <2>1. Good(L!Cache', upgraded) BY <1>5, <1>6, CacheSame
  <2>2. QED BY <1>5, <1>6, <2>1 DEF CacheInv
<1>7. ASSUME ~L!Held(k), NEW d, NEW keys, d = L!Inserted(L!Cache, o, 0), L!Become(d, keys),
             UNCHANGED <<delPipe, upgraded>>
      PROVE  /\ Good(L!Cache', upgraded') /\ broken' \in BOOLEAN /\ Tasked(main')
             /\ upgraded' = upgraded /\ Doomed(delPipe', upgraded')
  <2>1. L!Key(o) \notin Has(L!Cache.table) BY <1>1, <1>7, CacheIs DEF L!Held, Has
  <2>2. Good(L!Cache', upgraded) /\ broken' \in BOOLEAN /\ Tasked(main')
    BY <1>3, <1>5, <1>7, <2>1, DoInsert
  <2>3. QED BY <1>5, <1>7, <2>2
<1>8. CASE L!Held(k) /\ table' = [table EXCEPT ![k].rct = o.rct, ![k].expiry = o.expiry]
           /\ UNCHANGED <<list, stat, main, delPipe, upgraded, broken>>
  <2>1. Good(L!Cache', upgraded) BY <1>3, <1>8, DoRefresh
  <2>2. QED BY <1>5, <1>8, <2>1 DEF CacheInv
<1>9. CASE L!Held(k) /\ L!Replace(o) BY <1>1, <1>3, <1>9, DoReplace
<1>10. QED
  <2>1. CASE o.expiry < now BY <1>1, <1>6, <2>1 DEF L!PutOne, L!cache
  <2>2. CASE ~(o.expiry < now) /\ ~L!Held(k)
    <3>1. \E d, keys : d = L!Inserted(L!Cache, o, 0) /\ L!Become(d, keys) BY <1>1, <2>2 DEF L!PutOne
    <3>2. UNCHANGED <<delPipe, upgraded>> BY <1>1, <2>2 DEF L!PutOne
    <3>3. QED BY <1>7, <2>2, <3>1, <3>2
  <2>3. CASE ~(o.expiry < now) /\ L!Held(k)
    <3>1. \/ /\ table' = [table EXCEPT ![k].rct = o.rct, ![k].expiry = o.expiry]
             /\ UNCHANGED <<list, stat, main, delPipe, upgraded, broken>>
          \/ L!Replace(o)
          \/ UNCHANGED <<table, list, stat, main, delPipe, upgraded, broken>>
      BY <1>1, <2>3 DEF L!PutOne, L!cache
    <3>2. QED BY <1>6, <1>8, <1>9, <2>3, <3>1
  <2>4. QED BY <2>1, <2>2, <2>3

\* What is cached of a content without a record of its own
LEMMA RecordsFewer ==
  ASSUME NEW H, NEW s, NEW u, Records(H, s, u), NEW n \in Names, n \in u, NEW keys, \A k \in keys : k[1] = n
  PROVE  Records(H \ keys, s, u)
<1>1. ASSUME NEW m \in Names \ {n} PROVE Chunked(H \ keys, m) = Chunked(H, m)
  <2>1. \A c : <<m, c>> \notin keys
    <3>1. SUFFICES ASSUME NEW c, <<m, c>> \in keys PROVE FALSE OBVIOUS
    <3>2. <<m, c>>[1] = n BY <3>1
    <3>3. QED BY <3>2
  <2>2. \A c : c \in Chunked(H \ keys, m) <=> c \in Chunked(H, m) BY <2>1 DEF Chunked
  <2>3. QED BY <2>2
<1>2. Beside(n, H, H \ keys, s, s) BY <1>1 DEF Beside
<1>3. RightAt(n, H \ keys, s, u) BY DEF RightAt
<1>4. u \subseteq u OBVIOUS
<1>5. QED BY <1>2, <1>3, <1>4, RecordsBeside

LEMMA DoTake ==
  ASSUME CacheInv, TaskInv, L!DeleterTake
  PROVE  CacheInv' /\ TaskInv'
<1>1. /\ UNCHANGED <<now, feed, table, list, stat, pipe, main, due, checking, upgraded, broken>>
      /\ delPipe # <<>> /\ delPipe' = Tail(delPipe)
      /\ deleter' = [at |-> "delete", n |-> deleter.n, seq |-> Head(delPipe).min, of |-> Head(delPipe)]
  BY DEF L!DeleterTake, L!cache
<1>2. PICK S, N : S = Items(delPipe) /\ N = Len(delPipe) OBVIOUS
<1>3. /\ delPipe \in Seq(S) /\ N \in Nat /\ N <= PipeRoom /\ PipeRoom \in Nat /\ DOMAIN delPipe = 1 .. N
      /\ \A i \in 1 .. N : delPipe[i].name \in upgraded
  BY <1>2, SizesAre DEF CacheInv, Doomed
<1>4. PICK q : q = Tail(delPipe) OBVIOUS
<1>5. q \in Seq(S) /\ Len(q) = N - 1 /\ DOMAIN q = 1 .. N - 1 /\ \A i \in 1 .. N - 1 : q[i] = delPipe[i + 1]
  BY <1>1, <1>2, <1>3, <1>4
<1>6. N >= 1 /\ \A i \in 1 .. N - 1 : i + 1 \in 1 .. N BY <1>1, <1>2, <1>3
<1>7. q \in Seq(Items(q))
  <2>1. \A i \in 1 .. N - 1 : q[i] \in Items(q) BY <1>5 DEF Items
  <2>2. q = [i \in 1 .. N - 1 |-> q[i]] BY <1>5
  <2>3. q \in [1 .. N - 1 -> Items(q)] BY <2>1, <2>2
  <2>4. N - 1 \in Nat BY <1>3, <1>6
  <2>5. QED BY <2>3, <2>4
<1>8. \A i \in DOMAIN q : q[i].name \in upgraded BY <1>3, <1>5, <1>6
<1>9. Len(q) <= PipeRoom BY <1>3, <1>5
<1>10. Doomed(q, upgraded) BY <1>7, <1>8, <1>9 DEF Doomed
<1>11. Deleting(deleter', upgraded)
  <2>1. PICK x : x = Head(delPipe) OBVIOUS
  <2>2. x = delPipe[1] /\ 1 \in 1 .. N BY <1>1, <1>3, <1>6, <2>1
  <2>3. x.name \in upgraded BY <1>3, <2>2
  <2>4. QED BY <1>1, <2>1, <2>3 DEF Deleting
<1>12. Good(L!Cache', upgraded) BY <1>1, CacheSame DEF CacheInv
<1>13. QED BY <1>1, <1>4, <1>10, <1>11, <1>12 DEF CacheInv, TaskInv

LEMMA DoDelete ==
  ASSUME CacheInv, TaskInv, L!DeleterStep
  PROVE  CacheInv' /\ TaskInv'
<1>1. /\ UNCHANGED <<now, feed, stat, pipe, delPipe, due, checking, upgraded, broken>>
      /\ deleter.at = "delete"
      /\ \E n, last : deleter' = IF last = deleter.of.max THEN [at |-> "poll", n |-> n]
                                 ELSE [deleter EXCEPT !.n = n, !.seq = last + 1]
      /\ \E keys : /\ \A k \in keys : k \in L!Keys /\ k[1] = deleter.of.name
                   /\ table' = L!Without(table, keys) /\ list' = L!Unlooked(list, keys)
                   /\ main' = L!Gone(main, keys)
  <2> DEFINE of == deleter.of
             n == IF deleter.n >= AtOnce THEN 0 ELSE deleter.n
             last == L!Min({of.max, deleter.seq + AtOnce - n - 1})
             keys == {k \in L!Keys : k[1] = of.name /\ k[2] \in deleter.seq .. last
                                     /\ L!Held(k) /\ table[k].ver = of.ver}
  <2>1. /\ table' = L!Without(table, keys) /\ list' = L!Unlooked(list, keys) /\ main' = L!Gone(main, keys)
        /\ deleter' = IF last = of.max THEN [at |-> "poll", n |-> n + last - deleter.seq + 1]
                      ELSE [deleter EXCEPT !.n = n + last - deleter.seq + 1, !.seq = last + 1]
    BY Zenon DEF L!DeleterStep
  <2>2. UNCHANGED <<now, feed, stat, pipe, delPipe, due, checking, upgraded, broken>> /\ deleter.at = "delete"
    BY DEF L!DeleterStep
  <2>3. \A k \in keys : k \in L!Keys /\ k[1] = deleter.of.name OBVIOUS
  <2> HIDE DEF n, last, keys
  <2>4. QED BY <2>1, <2>2, <2>3
<1>2. PICK keys : /\ \A k \in keys : k \in L!Keys /\ k[1] = deleter.of.name
                  /\ table' = L!Without(table, keys) /\ list' = L!Unlooked(list, keys)
                  /\ main' = L!Gone(main, keys)
  BY <1>1
<1>3. PICK H, m : H = Has(table) /\ m = deleter.of.name OBVIOUS
<1>4. Sound(L!Cache, H, H, upgraded) BY <1>3, CacheIs DEF CacheInv, Good
<1>5. Entries(table) /\ Lists(H, list) /\ Records(H, stat, upgraded) BY <1>4, CacheIs DEF Sound
<1>6. m \in upgraded /\ m \in Names BY <1>1, <1>3 DEF CacheInv, Deleting
<1>7. Entries(table') /\ Has(table') = H \ keys BY <1>2, <1>3, <1>5, WithoutIs
<1>8. Lists(H \ keys, list')
  <2>1. list \in Seq(Node) BY <1>5 DEF Lists
  <2>2. Disowned(list, list', keys) BY <1>2, <2>1, UnlookedIs
  <2>3. QED BY <1>5, <2>2, DisownedLists
<1>9. Records(H \ keys, stat', upgraded)
  <2>1. Records(H \ keys, stat, upgraded) BY <1>2, <1>3, <1>5, <1>6, RecordsFewer
  <2>2. QED BY <1>1, <2>1
<1>10. Good(L!Cache', upgraded)
  <2>1. PICK d : d = L!Cache' OBVIOUS
  <2>2. DOMAIN d = Fields /\ d.table = table' /\ d.list = list' /\ d.stat = stat' /\ d.bad = FALSE
    BY <2>1 DEF L!Cache, Fields
  <2>3. QED BY <1>7, <1>8, <1>9, <2>1, <2>2 DEF Good, Sound
<1>11. Deleting(deleter', upgraded)
  <2>1. DOMAIN deleter = {"at", "n", "seq", "of"} /\ deleter.of.name \in upgraded BY <1>1 DEF CacheInv, Deleting
  <2>2. PICK n, last : deleter' = IF last = deleter.of.max THEN [at |-> "poll", n |-> n]
                                  ELSE [deleter EXCEPT !.n = n, !.seq = last + 1]
    BY <1>1
  <2>3. CASE deleter' = [at |-> "poll", n |-> n] BY <2>3 DEF Deleting
  <2>4. CASE deleter' = [deleter EXCEPT !.n = n, !.seq = last + 1]
    <3>1. DOMAIN deleter' = {"at", "n", "seq", "of"} /\ deleter'.of = deleter.of BY <2>1, <2>4
    <3>2. QED BY <2>1, <3>1 DEF Deleting
  <2>5. QED BY <2>2, <2>3, <2>4
<1>12. Tasked(main') BY <1>2, GoneTasked DEF TaskInv
<1>13. QED BY <1>1, <1>10, <1>11, <1>12 DEF CacheInv, TaskInv

LEMMA DoSweep ==
  ASSUME CacheInv, TaskInv, NEW s, L!SweepRow(s)
  PROVE  CacheInv' /\ TaskInv'
<1>1. /\ UNCHANGED <<now, feed, pipe, delPipe, deleter, due, upgraded>>
      /\ checking' = FALSE \/ checking' = checking
      /\ \E old : /\ \A k \in old : k \in L!Keys /\ L!Held(k)
                  /\ table' = L!Without(table, old) /\ main' = L!Gone(main, old)
                  /\ list' = L!AllSwept(old).list /\ stat' = L!AllSwept(old).stat
                  /\ broken' = L!AllSwept(old).bad
  <2> DEFINE old == {k \in L!Keys : Row[k] = sweep[s].row /\ L!Held(k) /\ L!Overdue(table[k], sweep[s].t)}
  <2>1. /\ table' = L!Without(table, old) /\ main' = L!Gone(main, old)
        /\ list' = L!AllSwept(old).list /\ stat' = L!AllSwept(old).stat /\ broken' = L!AllSwept(old).bad
    BY Zenon DEF L!SweepRow
  <2>2. UNCHANGED <<now, feed, pipe, delPipe, deleter, due, upgraded>> BY DEF L!SweepRow
  <2>3. checking' = FALSE \/ checking' = checking BY DEF L!SweepRow, L!AfterSweep
  <2>4. \A k \in old : k \in L!Keys /\ L!Held(k) OBVIOUS
  <2> HIDE DEF old
  <2>5. QED BY <2>1, <2>2, <2>3, <2>4
<1>2. PICK old : /\ \A k \in old : k \in L!Keys /\ L!Held(k)
                 /\ table' = L!Without(table, old) /\ main' = L!Gone(main, old)
                 /\ list' = L!AllSwept(old).list /\ stat' = L!AllSwept(old).stat
                 /\ broken' = L!AllSwept(old).bad
  BY <1>1
<1>3. PICK H : H = Has(table) OBVIOUS
<1>4. Sound(L!Cache, H, H, upgraded) BY <1>3, CacheIs DEF CacheInv, Good
<1>5. Entries(table) /\ Lists(H, list) BY <1>4, CacheIs DEF Sound
<1>6. old \subseteq H /\ old \subseteq L!Keys BY <1>2, <1>3 DEF Has, L!Held
<1>7. IsFiniteSet(old)
  <2>1. H \subseteq L!Keys BY <1>3 DEF Has
  <2>2. IsFiniteSet(H) BY <1>5, <2>1, ListsFinite
  <2>3. QED BY <1>6, <2>2, FS_Subset
<1>8. PICK c : c = L!AllSwept(old) OBVIOUS
<1>9. Sound(c, H \ old, H \ old, upgraded) BY <1>4, <1>6, <1>7, <1>8, AllSweptSound
<1>10. Entries(table') /\ Has(table') = H \ old BY <1>2, <1>3, <1>5, WithoutIs
<1>11. Good(L!Cache', upgraded) BY <1>2, <1>8, <1>9, <1>10, FewerGood
<1>12. broken' \in BOOLEAN BY <1>2, <1>8, <1>9 DEF Sound
<1>13. Tasked(main') BY <1>2, GoneTasked DEF TaskInv
<1>14. QED BY <1>1, <1>11, <1>12, <1>13 DEF CacheInv, TaskInv

LEMMA DoCount ==
  ASSUME CacheInv, TaskInv, L!Count
  PROVE  CacheInv' /\ TaskInv'
<1>1. /\ UNCHANGED <<now, feed, table, list, pipe, delPipe, deleter, due, checking, upgraded>>
      /\ main.at = "count" /\ main' = [main EXCEPT !.at = "compare"] /\ broken' \in BOOLEAN
      /\ stat' = stat \/ \E p, i, v : stat' = [stat EXCEPT ![p][i].access = v]
  <2> DEFINE p == Place[main.key[1]]
             hits == L!Hits(stat[p], main.key[1], main.ver)
  <2>1. UNCHANGED <<now, feed, table, list, pipe, delPipe, deleter, due, checking, upgraded>>
    BY ZenonT(30) DEF L!Count
  <2>2. main.at = "count" /\ main' = [main EXCEPT !.at = "compare"] BY ZenonT(30) DEF L!Count
  <2>3. broken' = (main.gone \/ L!Trips(stat[p], hits)) BY ZenonT(30) DEF L!Count
  <2>4. stat' = IF broken' \/ hits = {} THEN stat ELSE [stat EXCEPT ![p][L!Min(hits)].access = @ + 1]
    BY ZenonT(30) DEF L!Count
  <2> HIDE DEF p, hits
  <2>5. PICK v : v = stat[p][L!Min(hits)].access + 1 OBVIOUS
  <2>6. stat' = stat \/ stat' = [stat EXCEPT ![p][L!Min(hits)].access = v] BY <2>4, <2>5
  <2>7. broken' \in BOOLEAN BY <2>3
  <2>8. QED BY <2>1, <2>2, <2>6, <2>7
<1>2. PICK H : H = Has(table) OBVIOUS
<1>3. Entries(table) /\ Lists(H, list) /\ Records(H, stat, upgraded)
  BY <1>2, CacheIs DEF CacheInv, Good, Sound
<1>4. Records(H, stat', upgraded)
  <2>1. CASE stat' = stat BY <1>3, <2>1
  <2>2. CASE \E p, i, v : stat' = [stat EXCEPT ![p][i].access = v]
    <3>1. PICK p, i, v : stat' = [stat EXCEPT ![p][i].access = v] BY <2>2
    <3>2. QED BY <1>3, <3>1, RecordsTouched
  <2>3. QED BY <1>1, <2>1, <2>2
<1>5. Good(L!Cache', upgraded)
  <2>1. PICK d : d = L!Cache' OBVIOUS
  <2>2. DOMAIN d = Fields /\ d.table = table' /\ d.list = list' /\ d.stat = stat' /\ d.bad = FALSE
    BY <2>1 DEF L!Cache, Fields
  <2>3. QED BY <1>1, <1>2, <1>3, <1>4, <2>1, <2>2 DEF Good, Sound
<1>6. Tasked(main')
  <2>1. DOMAIN main = {"at", "key", "ver", "gone"} /\ main.gone \in BOOLEAN
    BY <1>1 DEF TaskInv, Tasked, L!Idle
  <2>2. DOMAIN main' = {"at", "key", "ver", "gone"} /\ main'.gone = main.gone /\ main'.at = "compare"
    BY <1>1, <2>1
  <2>3. QED BY <2>1, <2>2 DEF Tasked
<1>7. QED BY <1>1, <1>5, <1>6 DEF CacheInv, TaskInv

\* The rest of what the main task does leaves the cache as it is.
LEMMA DoTask ==
  ASSUME CacheInv, TaskInv, L!Come \/ L!WritePipe \/ L!CompareEntry \/ (\E k \in L!Keys : L!Lookup(k))
           \/ (\E n \in Names : L!Info(n))
  PROVE  CacheInv' /\ TaskInv'
<1>1. SUFFICES ASSUME UNCHANGED <<now, table, list, stat, delPipe, deleter, due, checking, upgraded>>
               PROVE  feed' \in Seq(Obj) /\ broken' \in BOOLEAN /\ TaskInv'
  <2>1. UNCHANGED <<now, table, list, stat, delPipe, deleter, due, checking, upgraded>>
    BY DEF L!Come, L!WritePipe, L!CompareEntry, L!Lookup, L!Info, L!cache
  <2>2. Good(L!Cache', upgraded) BY <2>1, CacheSame DEF CacheInv
  <2>3. QED BY <1>1, <2>1, <2>2 DEF CacheInv
<1>2. /\ Tasked(main) /\ pipe \in Seq(Obj) /\ Len(pipe) <= PipeRoom /\ feed \in Seq(Obj) /\ broken \in BOOLEAN
      /\ Tasked(L!Idle)
  BY DEF CacheInv, TaskInv, Tasked
<1>3. CASE L!Come
  <2>1. PICK o : o = Head(feed) OBVIOUS
  <2>2. o \in Obj /\ feed' \in Seq(Obj) BY <1>2, <1>3, <2>1 DEF L!Come
  <2>3. main' = L!Idle \/ main' = [at |-> "write", o |-> o, tries |-> 0] BY <1>3, <2>1 DEF L!Come
  <2>4. Tasked(main') BY <1>2, <2>2, <2>3 DEF Tasked
  <2>5. UNCHANGED <<pipe, broken>> BY <1>3 DEF L!Come
  <2>6. QED BY <1>2, <2>2, <2>4, <2>5 DEF TaskInv
<1>4. CASE L!WritePipe
  <2>1. main.at = "write" /\ UNCHANGED <<feed, broken>> BY <1>4 DEF L!WritePipe
  <2>2. DOMAIN main = {"at", "o", "tries"} /\ main.o \in Obj BY <1>2, <2>1 DEF Tasked, L!Idle
  <2>3. CASE Len(pipe) < PipeRoom
    <3>1. pipe' = Append(pipe, main.o) /\ main' = L!Idle BY <1>4, <2>3 DEF L!WritePipe
    <3>2. PipeRoom \in Nat BY SizesAre
    <3>3. pipe' \in Seq(Obj) /\ Len(pipe') <= PipeRoom BY <1>2, <2>2, <2>3, <3>1, <3>2
    <3>4. QED BY <1>2, <2>1, <3>1, <3>3 DEF TaskInv
  <2>4. CASE ~(Len(pipe) < PipeRoom)
    <3>1. pipe' = pipe /\ (main' = L!Idle \/ main' = [main EXCEPT !.tries = @ + 1])
      BY <1>4, <2>4 DEF L!WritePipe
    <3>2. CASE main' = [main EXCEPT !.tries = @ + 1]
      <4>1. DOMAIN main' = {"at", "o", "tries"} /\ main'.o = main.o /\ main'.at = main.at BY <2>2, <3>2
      <4>2. QED BY <1>2, <2>1, <2>2, <3>1, <4>1 DEF TaskInv, Tasked
    <3>3. QED BY <1>2, <2>1, <3>1, <3>2 DEF TaskInv
  <2>5. QED BY <2>3, <2>4
<1>5. CASE L!CompareEntry
  <2>1. main.at = "compare" /\ broken' = main.gone /\ main' = L!Idle /\ UNCHANGED <<feed, pipe>>
    BY <1>5 DEF L!CompareEntry
  <2>2. main.gone \in BOOLEAN BY <1>2, <2>1 DEF Tasked, L!Idle
  <2>3. QED BY <1>2, <2>1, <2>2 DEF TaskInv
<1>6. CASE \E k \in L!Keys : L!Lookup(k)
  <2>1. PICK k : L!Lookup(k) BY <1>6
  <2>2. UNCHANGED <<feed, pipe, broken>> BY <2>1 DEF L!Lookup
  <2>3. main' = main \/ main' = [at |-> "count", key |-> k, ver |-> table[k].ver, gone |-> FALSE]
    BY <2>1 DEF L!Lookup
  <2>4. CASE main' = [at |-> "count", key |-> k, ver |-> table[k].ver, gone |-> FALSE]
    <3>1. DOMAIN main' = {"at", "key", "ver", "gone"} /\ main'.at = "count" /\ main'.gone = FALSE BY <2>4
    <3>2. Tasked(main') BY <3>1 DEF Tasked
    <3>3. QED BY <1>2, <2>2, <3>2 DEF TaskInv
  <2>5. QED BY <1>2, <2>2, <2>3, <2>4 DEF TaskInv
<1>7. CASE \E n \in Names : L!Info(n)
  <2>1. PICK n : L!Info(n) BY <1>7
  <2>2. UNCHANGED <<feed, pipe, main>> BY <2>1 DEF L!Info
  <2>3. broken' \in BOOLEAN
    <3>1. broken' = L!Trips(stat[Place[n]], L!Hits(stat[Place[n]], n, -1)) BY <2>1 DEF L!Info
    <3>2. QED BY <3>1 DEF L!Trips
  <2>4. QED BY <1>2, <2>2, <2>3 DEF TaskInv
<1>8. QED BY <1>3, <1>4, <1>5, <1>6, <1>7

\* The clock goes on, and the sweepers take turns.
LEMMA DoWait ==
  ASSUME CacheInv, TaskInv, NEW s, L!CheckFlag(s) \/ L!SetFlag(s) \/ L!Wake \/ L!Tick
  PROVE  CacheInv' /\ TaskInv'
<1>1. UNCHANGED <<feed, table, list, stat, pipe, main, delPipe, deleter, upgraded, broken>>
  BY DEF L!CheckFlag, L!SetFlag, L!Wake, L!Tick, L!cache
<1>2. checking' \in BOOLEAN /\ due' \in BOOLEAN
  BY DEF L!CheckFlag, L!SetFlag, L!Wake, L!Tick, CacheInv
<1>3. now' \in 1 .. TimeMax
  <2>1. TimeMax \in Nat \ {0} BY ContentStoreAssumption DEF ContentStoreAssumption
  <2>2. now \in 1 .. TimeMax BY DEF CacheInv
  <2>3. now' = now \/ now' = L!Min({TimeMax, now + 1}) BY DEF L!CheckFlag, L!SetFlag, L!Wake, L!Tick
  <2>4. L!Min({TimeMax, now + 1}) \in 1 .. TimeMax
    <3>1. TimeMax \in Int /\ now + 1 \in Int BY <2>1, <2>2
    <3>2. L!Min({TimeMax, now + 1}) = IF TimeMax <= now + 1 THEN TimeMax ELSE now + 1
      BY <3>1, LocalMinOfTwo
    <3>3. QED BY <2>1, <2>2, <3>2
  <2>5. QED BY <2>2, <2>3, <2>4
<1>4. Good(L!Cache', upgraded) BY <1>1, CacheSame DEF CacheInv
<1>5. QED BY <1>1, <1>2, <1>3, <1>4 DEF CacheInv, TaskInv

-----------------------------------------------------------------------------
(* What is lost on the way to csmgrd was made, and what is cut is lost.    *)

LossInv == lost \subseteq DOMAIN made /\ cut \subseteq lost
\* The frames of these pieces were made.
Made(s) == s \in Seq(Piece) /\ \A i \in DOMAIN s : s[i].of \in DOMAIN made

LEMMA MadeIs ==
  ASSUME LinkInv
  PROVE  /\ Made(sock) /\ Made(SenderRest(sender)) /\ Made(MainRest(main))
         /\ peer.head = 0 \/ peer.head \in DOMAIN made
<1>1. PICK h, r, q, t : h = peer.head /\ r = SenderRest(sender) /\ q = MainRest(main) /\ t = MainThen(main)
  OBVIOUS
<1>2. Flow(made, got, h, sock, r, pipe, q, t, batch) BY <1>1 DEF LinkInv, LinkFlow
<1>3. PICK W : W = Stages(got, h, sock, r, pipe, q, t, batch) OBVIOUS
<1>4. /\ made \in Seq(Kinds) /\ sock \in Seq(Piece) /\ r \in Seq(Piece) /\ q \in Seq(Piece) /\ Known(Len(made), W)
  BY <1>2, <1>3 DEF Flow
<1>5. DOMAIN made = 1 .. Len(made) BY <1>4
<1>6. W[2] = Hold(h) /\ W[3] = Items(sock) /\ W[4] = Items(r) /\ W[6] = Items(q) BY <1>3, StagesAre
<1>7. /\ \A x \in Hold(h) : x.of \in DOMAIN made
      /\ \A x \in Items(sock) \cup Items(r) \cup Items(q) : x.of \in DOMAIN made
  BY <1>4, <1>5, <1>6 DEF Known
<1>8. Made(sock) /\ Made(r) /\ Made(q) BY <1>4, <1>7 DEF Made, Items
<1>9. h = 0 \/ h \in DOMAIN made BY <1>7 DEF Hold, HeadOf
<1>10. QED BY <1>1, <1>8, <1>9

\* The rest of a message is given up, or nothing is.
LEMMA LossMore ==
  ASSUME LossInv, NEW s, Made(s), made' = made,
         UNCHANGED <<lost, cut>> \/ (lost' = lost \cup C!Of(s) /\ cut' = cut \cup C!CutBy(s))
  PROVE  LossInv'
<1>1. CASE UNCHANGED <<lost, cut>> BY <1>1 DEF LossInv
<1>2. CASE lost' = lost \cup C!Of(s) /\ cut' = cut \cup C!CutBy(s)
  <2>1. C!Of(s) \subseteq DOMAIN made BY DEF Made, C!Of
  <2>2. C!CutBy(s) \subseteq C!Of(s)
    <3>1. CASE s # <<>> /\ s[1].part = "end"
      <4>1. C!CutBy(s) = {s[1].of} BY <3>1 DEF C!CutBy
      <4>2. 1 \in DOMAIN s BY <3>1 DEF Made
      <4>3. s[1].of \in C!Of(s) BY <4>2 DEF C!Of
      <4>4. QED BY <4>1, <4>3
    <3>2. CASE ~(s # <<>> /\ s[1].part = "end")
      <4>1. C!CutBy(s) = {} BY <3>2 DEF C!CutBy
      <4>2. QED BY <4>1
    <3>3. QED BY <3>1, <3>2
  <2>3. QED BY <1>2, <2>1, <2>2 DEF LossInv
<1>3. QED BY <1>1, <1>2

LEMMA BeyondMade ==
  ASSUME NEW s, Made(s), NEW k \in 0 .. Len(s), NEW c, c = C!Beyond(s, k)
  PROVE  Made(c)
<1>1. s \in Seq(Piece) BY DEF Made
<1>2. PICK a : a = SubSeq(s, 1, k) OBVIOUS
<1>3. c \in Seq(Piece) /\ Items(c) \subseteq Items(s) BY <1>1, <1>2, Split
<1>4. QED BY <1>3 DEF Made, Items

LEMMA LossWrite ==
  ASSUME LinkInv, LossInv, C!WritePipe
  PROVE  LossInv'
<1>1. main.at = "write" /\ made' = made BY DEF C!WritePipe
<1>2. PICK q : q = main.rest OBVIOUS
<1>3. Made(q) /\ q \in Seq(Piece)
  <2>1. MainRest(main) = q BY <1>1, <1>2, MainWrites
  <2>2. QED BY <2>1, MadeIs DEF Made
<1>4. PICK k, rest : /\ k = C!Min({PipeRoom - Len(pipe), Len(q)})
                     /\ rest = IF k = Len(q) THEN <<>> ELSE C!Left(q, k)
                     /\ UNCHANGED <<lost, cut>> \/ (lost' = lost \cup C!Of(rest) /\ cut' = cut \cup C!CutBy(rest))
  <2>1. \E k, rest : /\ k = C!Min({PipeRoom - Len(pipe), Len(main.rest)})
                     /\ rest = IF k = Len(main.rest) THEN <<>> ELSE C!Left(main.rest, k)
                     /\ UNCHANGED <<lost, cut>> \/ (lost' = lost \cup C!Of(rest) /\ cut' = cut \cup C!CutBy(rest))
    <3> DEFINE k == C!Min({PipeRoom - Len(pipe), Len(main.rest)})
               rest == IF k = Len(main.rest) THEN <<>> ELSE C!Left(main.rest, k)
    <3>1. PICK stale \in BOOLEAN :
            LET over == rest = <<>> \/ main.tries + 1 = WriteTries \/ (k > 0 /\ stale) IN
            /\ lost' = IF over THEN lost \cup C!Of(rest) ELSE lost
            /\ cut' = IF over THEN cut \cup C!CutBy(rest) ELSE cut
      BY Zenon DEF C!WritePipe
    <3> HIDE DEF k, rest
    <3>2. UNCHANGED <<lost, cut>> \/ (lost' = lost \cup C!Of(rest) /\ cut' = cut \cup C!CutBy(rest)) BY <3>1
    <3>3. QED BY <3>2 DEF k, rest
  <2>2. QED BY <1>2, <2>1
<1>5. Made(rest)
  <2>1. Len(pipe) \in Nat /\ Len(pipe) <= PipeRoom /\ Len(q) \in Nat
    BY <1>3 DEF LinkInv, LinkTypes, LinkFlow, Flow
  <2>2. k \in 0 .. Len(q) BY <1>4, <2>1, SizesAre, FitsIn
  <2>3. CASE k = Len(q)
    <3>1. rest = <<>> BY <1>4, <2>3
    <3>2. QED BY <3>1 DEF Made
  <2>4. CASE k # Len(q)
    <3>1. rest = C!Beyond(q, k) BY <1>4, <2>4 DEF C!Left
    <3>2. QED BY <1>3, <2>2, <3>1, BeyondMade
  <2>5. QED BY <2>3, <2>4
<1>6. QED BY <1>1, <1>4, <1>5, LossMore

LEMMA LossSend ==
  ASSUME LinkInv, LossInv, C!Reconnect \/ C!SendFirst \/ C!SendMore
  PROVE  LossInv'
<1>1. PICK r : r = SenderRest(sender) OBVIOUS
<1>2. sender.at \in {"first", "more"} /\ made' = made BY DEF C!Reconnect, C!SendFirst, C!SendMore
<1>3. r = sender.rest BY <1>1, <1>2, SenderBusy
<1>4. Made(r) /\ r \in Seq(Piece) /\ Len(r) \in Nat BY <1>1, MadeIs DEF Made
<1>5. CASE C!Reconnect \/ C!SendFirst
  <2>1. UNCHANGED <<lost, cut>> \/ (lost' = lost \cup C!Of(r) /\ cut' = cut \cup C!CutBy(r))
    BY <1>3, <1>5 DEF C!Reconnect, C!SendFirst, C!GiveUp
  <2>2. QED BY <1>2, <1>4, <2>1, LossMore
<1>6. CASE C!SendMore
  <2>1. PICK k : k = IF link = "closed" THEN 0 ELSE C!Accepted OBVIOUS
  <2>2. PICK c : c = C!Beyond(r, k) OBVIOUS
  <2>3. k \in 0 .. Len(r)
    <3>1. CASE link = "closed" BY <1>4, <2>1, <3>1
    <3>2. CASE link # "closed"
      <4>1. PICK h, s, w, p, q : Parts(h, s, w, p, q) BY PartsAre
      <4>2. w = r BY <1>1, <4>1 DEF Parts
      <4>3. QED BY <1>3, <2>1, <3>2, <4>1, <4>2, AcceptedIs
    <3>3. QED BY <3>1, <3>2
  <2>4. UNCHANGED <<lost, cut>> \/ (lost' = lost \cup C!Of(c) /\ cut' = cut \cup C!CutBy(c))
    BY <1>3, <1>6, <2>1, <2>2 DEF C!SendMore, C!Unsent
  <2>5. Made(c) BY <1>4, <2>2, <2>3, BeyondMade
  <2>6. QED BY <1>2, <2>4, <2>5, LossMore
<1>7. QED BY <1>5, <1>6

LEMMA LossPeer ==
  ASSUME LinkInv, LossInv, C!PeerRead \/ C!PeerCrash
  PROVE  LossInv'
<1>1. made' = made /\ cut' = cut BY DEF C!PeerRead, C!PeerCrash
<1>2. Made(sock) /\ (peer.head = 0 \/ peer.head \in DOMAIN made) BY MadeIs
<1>3. CASE C!PeerRead
  <2>1. PICK p : p = Head(sock) OBVIOUS
  <2>2. p.of \in DOMAIN made
    <3>1. sock # <<>> /\ sock \in Seq(Piece) BY <1>2, <1>3 DEF C!PeerRead, Made
    <3>2. p = sock[1] /\ 1 \in DOMAIN sock BY <2>1, <3>1
    <3>3. QED BY <1>2, <3>2 DEF Made
  <2>3. lost' = lost \/ lost' = lost \cup {p.of} \/ (peer.head # 0 /\ lost' = lost \cup {p.of, peer.head})
    BY <1>3, <2>1 DEF C!PeerRead
  <2>4. QED BY <1>1, <1>2, <2>2, <2>3 DEF LossInv
<1>4. CASE C!PeerCrash
  <2>1. lost' = lost \cup C!Of(sock) \cup ({peer.head} \ {0}) BY <1>4 DEF C!PeerCrash
  <2>2. C!Of(sock) \subseteq DOMAIN made BY <1>2 DEF Made, C!Of
  <2>3. QED BY <1>1, <1>2, <2>1, <2>2 DEF LossInv
<1>5. QED BY <1>3, <1>4

-----------------------------------------------------------------------------
(* The invariant of the content store.                                     *)

ShapeInv ==
  /\ LossInv /\ Len(batch) <= BatchRoom /\ Len(sock) <= SockRoom
  /\ link \in {"up", "lost", "closed"} /\ wild \in BOOLEAN

StoreInv ==
  /\ RecvInv /\ AgeInv /\ CacheInv /\ ShapeInv
  /\ mode = "Localcache" => TaskInv

\* One more message is made and collected, or none.
LEMMA ShapeCome ==
  ASSUME LinkInv, ShapeInv, C!Come
  PROVE  LossInv' /\ Len(batch') <= BatchRoom
<1>1. UNCHANGED <<lost, cut>> BY DEF C!Come
<1>2. PICK v : C!ComeObject(v) \/ C!ComeDead(v) \/ C!ComeInterest(v) \/ C!ComeQuestion(v) BY DEF C!Come
<1>3. made \in Seq(Kinds) /\ batch \in Seq(Frame) BY DEF LinkInv, LinkFlow, Flow
<1>4. made' = made \/ \E x \in Kinds : made' = Append(made, x)
  BY <1>2 DEF C!ComeObject, C!ComeDead, C!ComeInterest, C!ComeQuestion, C!FrameFor, Kinds
<1>5. DOMAIN made \subseteq DOMAIN made'
  <2>1. CASE made' = made BY <2>1
  <2>2. ASSUME NEW x \in Kinds, made' = Append(made, x) PROVE DOMAIN made \subseteq DOMAIN made'
    <3>1. DOMAIN made = 1 .. Len(made) /\ DOMAIN made' = 1 .. Len(made) + 1 /\ Len(made) \in Nat BY <1>3, <2>2
    <3>2. QED BY <3>1
  <2>3. QED BY <1>4, <2>1, <2>2
<1>6. LossInv' BY <1>1, <1>5 DEF ShapeInv, LossInv
<1>7. Len(batch') <= BatchRoom
  <2>1. BatchRoom \in Nat \ {0} /\ Len(batch) \in Nat /\ Len(batch) <= BatchRoom BY <1>3, SizesAre DEF ShapeInv
  <2>2. CASE batch' = batch BY <2>1, <2>2
  <2>3. CASE batch' = <<>> BY <2>1, <2>3
  <2>4. PICK f : f = Len(made) + 1 OBVIOUS
  <2>5. CASE batch' = IF C!Flush(batch) THEN <<f>> ELSE Append(batch, f)
    <3>1. CASE C!Flush(batch)
      <4>1. Len(batch') = 1 BY <2>5, <3>1
      <4>2. QED BY <2>1, <4>1
    <3>2. CASE ~C!Flush(batch)
      <4>1. f \in Frame BY <1>3, <2>4 DEF Frame
      <4>2. Len(batch') = Len(batch) + 1 BY <1>3, <2>5, <3>2, <4>1
      <4>3. Len(batch) # BatchRoom BY <3>2 DEF C!Flush
      <4>4. QED BY <2>1, <4>2, <4>3
    <3>3. QED BY <3>1, <3>2
  <2>6. \/ batch' = batch \/ batch' = <<>>
        \/ batch' = IF C!Flush(batch) THEN <<f>> ELSE Append(batch, f)
    BY <1>2, <2>4 DEF C!ComeObject, C!ComeDead, C!ComeInterest, C!ComeQuestion
  <2>7. QED BY <2>2, <2>3, <2>5, <2>6
<1>8. QED BY <1>6, <1>7

LEMMA ShapeOutside ==
  ASSUME LinkInv, LinkInv', ShapeInv,
         \/ C!Come \/ C!Push \/ C!WritePipe \/ C!Connect \/ C!Answer \/ C!InputObject \/ C!InputEnd
         \/ C!TakeFromPipe \/ C!Reconnect \/ C!SendFirst \/ C!SendMore
         \/ C!PeerRead \/ C!PeerCrash \/ C!PeerStart \/ C!Tick \/ \E n, v : C!PeerSend(n, v)
  PROVE  ShapeInv'
<1>1. Len(sock') <= SockRoom BY DEF LinkInv, LinkTypes
<1>2. link' \in {"up", "lost", "closed"}
  BY DEF ShapeInv, C!Come, C!Push, C!WritePipe, C!Connect, C!Answer, C!InputObject, C!InputEnd, C!TakeFromPipe,
         C!Reconnect, C!SendFirst, C!SendMore, C!PeerRead, C!PeerCrash, C!PeerStart, C!Tick, C!PeerSend
<1>3. wild' \in BOOLEAN
  <2>1. CASE C!Answer
    <3>1. \E how : wild' = C!Unset(how) BY <2>1 DEF C!Answer
    <3>2. QED BY <3>1 DEF C!Unset
  <2>2. ~C!Answer => wild' = wild
    BY DEF C!Come, C!Push, C!WritePipe, C!Connect, C!InputObject, C!InputEnd, C!TakeFromPipe,
           C!Reconnect, C!SendFirst, C!SendMore, C!PeerRead, C!PeerCrash, C!PeerStart, C!Tick, C!PeerSend
  <2>3. QED BY <2>1, <2>2 DEF ShapeInv
<1>4. CASE C!Come BY <1>1, <1>2, <1>3, <1>4, ShapeCome DEF ShapeInv
<1>5. BatchRoom \in Nat /\ (C!Push => batch' = <<>>) BY SizesAre DEF C!Push
<1>6. Len(<<>>) <= BatchRoom BY <1>5
<1>7. ~C!Come => Len(batch') <= BatchRoom
  <2>1. ~C!Come /\ ~C!Push => batch' = batch
    BY DEF C!WritePipe, C!Connect, C!Answer, C!InputObject, C!InputEnd, C!TakeFromPipe,
           C!Reconnect, C!SendFirst, C!SendMore, C!PeerRead, C!PeerCrash, C!PeerStart, C!Tick, C!PeerSend
  <2>2. QED BY <1>5, <1>6, <2>1 DEF ShapeInv
<1>8. ~C!Come => LossInv'
  <2>1. LossInv BY DEF ShapeInv
  <2>2. CASE C!WritePipe \/ C!Reconnect \/ C!SendFirst \/ C!SendMore \/ C!PeerRead \/ C!PeerCrash
    BY <2>1, <2>2, LossWrite, LossSend, LossPeer
  <2>3. CASE \/ C!Push \/ C!Connect \/ C!Answer \/ C!InputObject \/ C!InputEnd
             \/ C!TakeFromPipe \/ C!PeerStart \/ C!Tick \/ \E n, v : C!PeerSend(n, v)
    <3>1. UNCHANGED <<made, lost, cut>>
      BY <2>3 DEF C!Push, C!Connect, C!Answer, C!InputObject, C!InputEnd, C!TakeFromPipe, C!PeerStart, C!Tick,
                  C!PeerSend
    <3>2. QED BY <2>1, <3>1 DEF LossInv
  <2>4. QED BY <2>2, <2>3
<1>9. QED BY <1>1, <1>2, <1>3, <1>4, <1>7, <1>8 DEF ShapeInv

LEMMA AgeNext ==
  ASSUME AgeInv, [Next]_vars
  PROVE  AgeInv'
<1>1. Aged BY AgeStep
<1>2. QED BY <1>1 DEF Aged, Newer, Keeps, Rebuffered, AgeInv

LEMMA StoreInit ==
  ASSUME Init
  PROVE  StoreInv
<1>1. RecvInv BY RecvInit
<1>2. AgeInv
  <2>1. DOMAIN L!NoEntry = {"ver"} BY DEF L!NoEntry
  <2>2. QED BY <2>1 DEF Init, L!InitLocal, C!InitLink, AgeInv
<1>3. PICK e, z : e = <<>> /\ z = {} OBVIOUS
<1>4. /\ table = [k \in L!Keys |-> L!NoEntry] /\ list = e /\ stat = [p \in L!Places |-> e] /\ pipe = e
      /\ delPipe = e /\ main = L!Idle /\ deleter = [at |-> "poll", n |-> 0] /\ due = FALSE /\ checking = FALSE
      /\ upgraded = z /\ broken = FALSE /\ now = 1 /\ feed \in Feeds
  BY <1>3 DEF Init, L!InitLocal
<1>5. /\ batch = e /\ sock = e /\ lost = z /\ cut = z /\ link = "up" /\ wild = FALSE
  BY <1>3 DEF Init, C!InitLink
<1>6. Len(e) = 0 /\ DOMAIN e = {} /\ (\A S : e \in Seq(S)) BY <1>3
<1>7. Has(table) = z
  <2>1. \A k : k \notin Has(table) BY <1>4 DEF Has
  <2>2. QED BY <1>3, <2>1
<1>8. Lists(z, list)
  <2>1. Capacity \in Nat BY ContentStoreAssumption DEF ContentStoreAssumption
  <2>2. QED BY <1>3, <1>4, <1>6, <2>1 DEF Lists
<1>9. Records(z, stat, upgraded)
  <2>1. ASSUME NEW n \in Names PROVE Right(stat[Place[n]], n, Chunked(z, n))
    <3>1. Place[n] \in L!Places BY DEF L!Places
    <3>2. stat[Place[n]] = e BY <1>4, <3>1
    <3>3. \A c : c \notin Chunked(z, n) BY <1>3 DEF Chunked
    <3>4. Chunked(z, n) = {} BY <3>3
    <3>5. IsFiniteSet({}) BY FS_EmptySet
    <3>6. QED BY <1>3, <3>2, <3>4, <3>5 DEF Right
  <2>2. DOMAIN stat = L!Places BY <1>4
  <2>3. QED BY <2>1, <2>2 DEF Records
<1>10. Entries(table) BY <1>4 DEF Entries
<1>11. Good(L!Cache, upgraded) BY <1>7, <1>8, <1>9, <1>10, CacheIs DEF Good, Sound
<1>12. Doomed(delPipe, upgraded) /\ Deleting(deleter, upgraded)
  <2>1. Doomed(delPipe, upgraded) BY <1>4, <1>6, SizesAre DEF Doomed
  <2>2. QED BY <1>4, <2>1 DEF Deleting
<1>13. now \in 1 .. TimeMax
  <2>1. TimeMax \in Nat \ {0} BY ContentStoreAssumption DEF ContentStoreAssumption
  <2>2. QED BY <1>4, <2>1
<1>14. feed \in Seq(Obj) BY <1>4, ContentStoreAssumption DEF ContentStoreAssumption, Obj
<1>15. CacheInv BY <1>3, <1>4, <1>11, <1>12, <1>13, <1>14 DEF CacheInv
<1>16. TaskInv BY <1>4, <1>6, SizesAre DEF TaskInv, Tasked
<1>17. ShapeInv
  <2>1. LossInv BY <1>3, <1>5 DEF LossInv
  <2>2. Len(batch) <= BatchRoom
    <3>1. BatchRoom \in Nat /\ Len(batch) = 0 BY <1>5, <1>6, SizesAre
    <3>2. QED BY <3>1
  <2>3. Len(sock) <= SockRoom
    <3>1. SockRoom \in Nat /\ Len(sock) = 0 BY <1>5, <1>6, SizesAre
    <3>2. QED BY <3>1
  <2>4. QED BY <1>5, <2>1, <2>2, <2>3 DEF ShapeInv
<1>18. QED BY <1>1, <1>2, <1>15, <1>16, <1>17 DEF StoreInv

\* In the mode without csmgrd
LEMMA StoreInside ==
  ASSUME StoreInv, mode = "Localcache", [Next]_vars
  PROVE  CacheInv' /\ TaskInv' /\ ShapeInv'
<1>1. CacheInv /\ TaskInv /\ ShapeInv BY DEF StoreInv
<1>2. \A A : ~(mode = "Excache" /\ A) OBVIOUS
<1>3. UNCHANGED <<script, temp, batch, sender, link, sock, peer, back, got, lost, cut, made, crashes, wild>>
  <2>1. UNCHANGED remote
    BY <1>2 DEF Next, vars, Inside, Outside, LocalMain, LocalLookup, LocalPut, LocalDelete, LocalSweep, LocalWake,
                LocalTick, LinkCome, LinkPush, LinkMain, LinkInput, LinkSend, LinkPeer, LinkRest
  <2>2. QED BY <2>1 DEF remote
<1>4. ShapeInv' BY <1>1, <1>3 DEF ShapeInv, LossInv
<1>5. CASE UNCHANGED vars
  <2>1. UNCHANGED <<now, main, pipe, feed, table, list, stat, delPipe, deleter, due, checking, upgraded, broken>>
    BY <1>5 DEF vars, local
  <2>2. Good(L!Cache', upgraded) BY <1>1, <2>1, CacheSame DEF CacheInv
  <2>3. CacheInv' /\ TaskInv' BY <1>1, <2>1, <2>2 DEF CacheInv, TaskInv
  <2>4. QED BY <1>4, <2>3
<1>6. CASE Next
  <2>1. PICK s : \/ L!Come \/ L!WritePipe \/ L!CompareEntry \/ (\E k \in L!Keys : L!Lookup(k))
                   \/ (\E n \in Names : L!Info(n))
                 \/ L!Count \/ L!PutOne \/ L!DeleterTake \/ L!DeleterStep \/ L!SweepRow(s)
                 \/ L!CheckFlag(s) \/ L!SetFlag(s) \/ L!Wake \/ L!Tick
    BY <1>2, <1>6 DEF Next, Inside, Outside, LocalMain, LocalLookup, LocalPut, LocalDelete, LocalSweep, LocalWake,
                      LocalTick, LinkCome, LinkPush, LinkMain, LinkInput, LinkSend, LinkPeer, LinkRest
  <2>2. CASE L!Come \/ L!WritePipe \/ L!CompareEntry \/ (\E k \in L!Keys : L!Lookup(k)) \/ (\E n \in Names : L!Info(n))
    BY <1>1, <1>4, <2>2, DoTask
  <2>3. CASE L!Count BY <1>1, <1>4, <2>3, DoCount
  <2>4. CASE L!PutOne BY <1>1, <1>4, <2>4, DoPut
  <2>5. CASE L!DeleterTake \/ L!DeleterStep BY <1>1, <1>4, <2>5, DoTake, DoDelete
  <2>6. CASE L!SweepRow(s) BY <1>1, <1>4, <2>6, DoSweep
  <2>7. CASE L!CheckFlag(s) \/ L!SetFlag(s) \/ L!Wake \/ L!Tick BY <1>1, <1>4, <2>7, DoWait
  <2>8. QED BY <2>1, <2>2, <2>3, <2>4, <2>5, <2>6, <2>7
<1>7. QED BY <1>5, <1>6

\* In the mode with csmgrd
LEMMA StoreOutside ==
  ASSUME StoreInv, RecvInv', mode = "Excache", [Next]_vars
  PROVE  mode' = mode /\ CacheInv' /\ ShapeInv'
<1>1. CacheInv /\ ShapeInv /\ LinkInv BY DEF StoreInv, RecvInv
<1>2. \A A : ~(mode = "Localcache" /\ A) OBVIOUS
<1>3. UNCHANGED <<mode, feed, table, list, stat, delPipe, deleter, due, checking, upgraded, broken>>
  <2>1. UNCHANGED <<mode, local>>
    BY <1>2 DEF Next, vars, Inside, Outside, LocalMain, LocalLookup, LocalPut, LocalDelete, LocalSweep, LocalWake,
                LocalTick, LinkCome, LinkPush, LinkMain, LinkInput, LinkSend, LinkPeer, LinkRest
  <2>2. QED BY <2>1 DEF local
<1>4. LinkInv' BY <1>3 DEF RecvInv
<1>5. \/ UNCHANGED vars
      \/ C!Come \/ C!Push \/ C!WritePipe \/ C!Connect \/ C!Answer \/ C!InputObject \/ C!InputEnd
      \/ C!TakeFromPipe \/ C!Reconnect \/ C!SendFirst \/ C!SendMore
      \/ C!PeerRead \/ C!PeerCrash \/ C!PeerStart \/ C!Tick \/ \E n, v : C!PeerSend(n, v)
  BY <1>2 DEF Next, Inside, Outside, LocalMain, LocalLookup, LocalPut, LocalDelete, LocalSweep, LocalWake,
              LocalTick, LinkCome, LinkPush, LinkMain, LinkInput, LinkSend, LinkPeer, LinkRest
<1>6. ShapeInv'
  <2>1. CASE UNCHANGED vars BY <1>1, <2>1 DEF vars, remote, ShapeInv, LossInv
  <2>2. QED BY <1>1, <1>4, <1>5, <2>1, ShapeOutside
<1>7. now' \in 1 .. TimeMax
  <2>1. now \in 1 .. TimeMax /\ TimeMax \in Nat
    BY <1>1, ContentStoreAssumption DEF CacheInv, ContentStoreAssumption
  <2>2. now' = now \/ (now < TimeMax /\ now' = now + 1)
    BY <1>5 DEF vars, C!Come, C!Push, C!WritePipe, C!Connect, C!Answer, C!InputObject, C!InputEnd, C!TakeFromPipe,
                C!Reconnect, C!SendFirst, C!SendMore, C!PeerRead, C!PeerCrash, C!PeerStart, C!Tick, C!PeerSend
  <2>3. QED BY <2>1, <2>2
<1>8. Good(L!Cache', upgraded) BY <1>1, <1>3, CacheSame DEF CacheInv
<1>9. CacheInv' BY <1>1, <1>3, <1>7, <1>8 DEF CacheInv
<1>10. QED BY <1>3, <1>6, <1>9

LEMMA StoreNext ==
  ASSUME StoreInv, [Next]_vars
  PROVE  StoreInv'
<1>1. RecvInv' /\ AgeInv' BY RecvNext, AgeNext DEF StoreInv
<1>2. CASE mode = "Localcache"
  <2>1. CacheInv' /\ TaskInv' /\ ShapeInv' BY <1>2, StoreInside
  <2>2. QED BY <1>1, <2>1 DEF StoreInv
<1>3. CASE mode = "Excache"
  <2>1. mode' = mode /\ CacheInv' /\ ShapeInv' BY <1>1, <1>3, StoreOutside
  <2>2. QED BY <1>1, <1>3, <2>1 DEF StoreInv
<1>4. QED BY <1>2, <1>3 DEF StoreInv, RecvInv

\* The least and the greatest of integers that are spanned
LEMMA LeastOf ==
  ASSUME NEW S, S \subseteq Nat, S # {}
  PROVE  Min(S) \in S
<1>1. \E x \in S : \A y \in S : x <= y BY LeastNat
<1>2. QED BY <1>1 DEF Min

LEMMA MostOf ==
  ASSUME NEW S, S \subseteq Nat, S # {}, NEW b \in Int, \A x \in S : x <= b
  PROVE  Max(S) \in S
<1>1. PICK T : T = {b - x : x \in S} OBVIOUS
<1>2. T \subseteq Nat /\ T # {}
  <2>1. ASSUME NEW x \in S PROVE b - x \in Nat
    <3>1. x \in Nat /\ x <= b /\ b \in Int OBVIOUS
    <3>2. QED BY <3>1
  <2>2. PICK x : x \in S OBVIOUS
  <2>3. b - x \in T BY <1>1, <2>2
  <2>4. \A u \in T : u \in Nat BY <1>1, <2>1
  <2>5. QED BY <2>3, <2>4
<1>3. PICK t \in T : \A u \in T : t <= u BY <1>2, LeastNat
<1>4. PICK x \in S : t = b - x BY <1>1, <1>3
<1>5. ASSUME NEW y \in S PROVE x >= y
  <2>1. b - y \in T BY <1>1
  <2>2. b - x <= b - y BY <1>3, <1>4, <2>1
  <2>3. x \in Int /\ y \in Int OBVIOUS
  <2>4. QED BY <2>2, <2>3
<1>6. \E z \in S : \A y \in S : z >= y BY <1>5
<1>7. QED BY <1>6 DEF Max

LEMMA StoreTyped ==
  ASSUME StoreInv
  PROVE  TypeOK
<1>1. mode \in {"Localcache", "Excache"} BY DEF StoreInv, RecvInv
<1>2. /\ now \in 1 .. TimeMax /\ broken \in BOOLEAN /\ checking \in BOOLEAN /\ due \in BOOLEAN
      /\ upgraded \subseteq Names
  BY DEF StoreInv, CacheInv
<1>3. /\ wild \in BOOLEAN /\ Len(sock) <= SockRoom /\ Len(batch) <= BatchRoom
      /\ link \in {"up", "lost", "closed"} /\ lost \subseteq DOMAIN made /\ cut \subseteq lost
  BY DEF StoreInv, ShapeInv, LossInv
<1>4. DOMAIN table = L!Keys /\ DOMAIN temp = C!Slots BY DEF StoreInv, AgeInv
<1>5. DOMAIN stat = L!Places
  <2>1. Good(L!Cache, upgraded) BY DEF StoreInv, CacheInv
  <2>2. QED BY <2>1, CacheIs DEF Good, Sound, Records
<1>6. Len(pipe) <= PipeRoom
  <2>1. mode = "Localcache" => Len(pipe) <= PipeRoom BY DEF StoreInv, TaskInv
  <2>2. mode = "Excache" => Len(pipe) <= PipeRoom BY DEF StoreInv, RecvInv, LinkInv, LinkTypes
  <2>3. QED BY <1>1, <2>1, <2>2
<1>7. Len(delPipe) <= PipeRoom BY DEF StoreInv, CacheInv, Doomed
<1>8. QED BY <1>1, <1>2, <1>3, <1>4, <1>5, <1>6, <1>7 DEF TypeOK

LEMMA StoreLinked ==
  ASSUME StoreInv
  PROVE  Linked
<1>1. PICK H : H = Has(table) OBVIOUS
<1>2. Lists(H, list)
  <2>1. Good(L!Cache, upgraded) BY DEF StoreInv, CacheInv
  <2>2. QED BY <1>1, <2>1, CacheIs DEF Good, Sound
<1>3. ASSUME NEW k \in L!Keys
      PROVE  Cardinality(L!Owns(list, k)) = IF L!Held(k) THEN 1 ELSE 0
  <2>1. L!Held(k) <=> k \in H BY <1>1 DEF L!Held, Has
  <2>2. CASE k \in H
    <3>1. PICK i \in DOMAIN list : list[i].key = k /\ list[i].own BY <1>2, <2>2 DEF Lists
    <3>2. \A j : j \in L!Owns(list, k) <=> j = i BY <1>2, <3>1 DEF Lists, L!Owns
    <3>3. L!Owns(list, k) = {i} BY <3>2
    <3>4. Cardinality({i}) = 1 BY FS_Singleton
    <3>5. QED BY <2>1, <2>2, <3>3, <3>4
  <2>3. CASE k \notin H
    <3>1. \A j : j \notin L!Owns(list, k) BY <1>2, <2>3 DEF Lists, L!Owns
    <3>2. L!Owns(list, k) = {} BY <3>1
    <3>3. Cardinality({}) = 0 BY FS_EmptySet
    <3>4. QED BY <2>1, <2>3, <3>2, <3>3
  <2>4. QED BY <2>2, <2>3
<1>4. QED BY <1>2, <1>3 DEF Linked, Lists

\* Of the records s, those in records are the one that counts and spans what is held.
OneCounts(s, records, held) ==
  IF held = {} THEN records = {}
  ELSE \E i \in records : /\ records = {i} /\ s[i].cobs = Cardinality(held)
                          /\ s[i].min <= Min(held) /\ Max(held) <= s[i].max

LEMMA StoreCounted ==
  ASSUME StoreInv
  PROVE  Counted
<1>1. Records(Has(table), stat, upgraded)
  <2>1. Good(L!Cache, upgraded) BY DEF StoreInv, CacheInv
  <2>2. QED BY <2>1, CacheIs DEF Good, Sound
<1>2. ASSUME NEW n \in Names \ upgraded, Sole(n),
             NEW held, held = {c \in Chunks : L!Held(<<n, c>>)},
             NEW s, s = stat[Place[n]], NEW records, records = {i \in DOMAIN s : s[i].name = n}
      PROVE  OneCounts(s, records, held)
  <2>1. held = Chunked(Has(table), n)
    <3>1. \A c \in Chunks : <<n, c>> \in Has(table) <=> L!Held(<<n, c>>) BY DEF Has, L!Held, L!Keys
    <3>2. \A c : c \in held <=> c \in Chunked(Has(table), n) BY <1>2, <3>1 DEF Chunked
    <3>3. QED BY <3>2
  <2>2. Right(s, n, held) BY <1>1, <1>2, <2>1 DEF Records
  <2>3. CASE held = {}
    <3>1. s = <<>> BY <2>2, <2>3 DEF Right
    <3>2. records = {} BY <1>2, <3>1
    <3>3. QED BY <2>3, <3>2 DEF OneCounts
  <2>4. CASE held # {}
    <3>1. PICK r : s = <<r>> /\ Sums(r, n, held) BY <2>2, <2>4 DEF Right
    <3>2. DOMAIN s = {1} /\ s[1] = r BY <3>1
    <3>3. r.name = n BY <3>1 DEF Sums
    <3>4. \A i : i \in records <=> i = 1 BY <1>2, <3>2, <3>3
    <3>5. records = {1} BY <3>4
    <3>6. held \subseteq Nat
      <4>1. Chunks \subseteq Nat BY ContentStoreAssumption DEF ContentStoreAssumption
      <4>2. QED BY <1>2, <4>1
    <3>7. r.cobs = Cardinality(held) /\ r.max \in Int /\ \A x \in held : r.min <= x /\ x <= r.max
      BY <3>1 DEF Sums
    <3>8. Min(held) \in held /\ Max(held) \in held BY <2>4, <3>6, <3>7, LeastOf, MostOf
    <3>9. r.min <= Min(held) /\ Max(held) <= r.max BY <3>7, <3>8
    <3>10. \E i \in records : /\ records = {i} /\ s[i].cobs = Cardinality(held)
                              /\ s[i].min <= Min(held) /\ Max(held) <= s[i].max
      BY <3>2, <3>5, <3>7, <3>9
    <3>11. QED BY <2>4, <3>10 DEF OneCounts
  <2>5. QED BY <2>3, <2>4
<1>3. ASSUME NEW n \in Names \ upgraded, Sole(n)
      PROVE  OneCounts(stat[Place[n]], {i \in DOMAIN stat[Place[n]] : stat[Place[n]][i].name = n},
                       {c \in Chunks : L!Held(<<n, c>>)})
  BY <1>2, <1>3
<1>4. QED BY <1>3 DEF Counted, Sole, OneCounts

\* Whatever the put thread, the delete thread, the sweeps and the lookups of the main task
\* do in whatever order, the lookup table, the list of the eviction and the records of the
\* contents agree with the table of cached Objects, and no queue or buffer is ever longer
\* than it may be (cef_mem_cache.c, and cef_csmgr.c for the way to csmgrd).
THEOREM CacheConsistent == FairSpec => []Consistent
<1>1. Init => StoreInv BY StoreInit
<1>2. StoreInv /\ [Next]_vars => StoreInv' BY StoreNext
<1>3. StoreInv => Consistent BY StoreTyped, StoreLinked, StoreCounted DEF Consistent
<1>4. QED BY <1>1, <1>2, <1>3, PTL DEF FairSpec
=============================================================================
