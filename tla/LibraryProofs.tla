---------------------------- MODULE LibraryProofs ----------------------------
(***************************************************************************)
(* Two libraries that others build on.  The client library and the tools:  *)
(* whatever is lost, repeated, reordered or cut short on the way, and at   *)
(* every length of a file and of the window, a file is written from its    *)
(* beginning without a gap, no Object of a stream twice but for one that   *)
(* was cut, and what is kept is whole.  The replacement libraries, for     *)
(* every capacity, number of keys, of frequencies and of blocks: the       *)
(* library has the keys that the plugin has, no more than the capacity,    *)
(* its counts are right, and its victims are those that Eviction promises. *)
(***************************************************************************)
EXTENDS Client, Replacement, SequenceTheorems, FiniteSetTheorems, WellFoundedInduction, TLAPS

\* A set of numbers that is not empty has a least one.
LEMMA LeastNat ==
  ASSUME NEW U, U \subseteq Nat, U # {}
  PROVE  \E x \in U : \A y \in U : x <= y
<1> DEFINE Less == OpToRel(<, Nat)
<1>1. IsWellFoundedOn(Less, Nat) BY NatLessThanWellFounded, Zenon
<1>2. \A x, y \in Nat : x < y => <<x, y>> \in Less BY Zenon DEF OpToRel
<1> HIDE DEF Less
<1>3. PICK x \in U : \A y \in U : ~(<<y, x>> \in Less) BY <1>1, WFMin
<1>4. \A y \in U : ~(y < x) BY <1>2, <1>3
<1>5. QED BY <1>4

\* ... and a greatest one if they are bounded.
LEMMA MostNat ==
  ASSUME NEW S, S \subseteq Nat, S # {}, NEW b \in Int, \A x \in S : x <= b
  PROVE  T!Max(S) \in S
<1>1. PICK U : U = {b - x : x \in S} OBVIOUS
<1>2. U \subseteq Nat /\ U # {}
  <2>1. ASSUME NEW x \in S PROVE b - x \in Nat
    <3>1. x \in Nat /\ x <= b /\ b \in Int OBVIOUS
    <3>2. QED BY <3>1
  <2>2. PICK x : x \in S OBVIOUS
  <2>3. b - x \in U BY <1>1, <2>2
  <2>4. \A u \in U : u \in Nat BY <1>1, <2>1
  <2>5. QED BY <2>3, <2>4
<1>3. PICK t \in U : \A u \in U : t <= u BY <1>2, LeastNat
<1>4. PICK x \in S : t = b - x BY <1>1, <1>3
<1>5. ASSUME NEW y \in S PROVE x >= y
  <2>1. b - y \in U BY <1>1
  <2>2. b - x <= b - y BY <1>3, <1>4, <2>1
  <2>3. x \in Int /\ y \in Int OBVIOUS
  <2>4. QED BY <2>2, <2>3
<1>6. \E z \in S : \A y \in S : z >= y BY <1>5
<1>7. QED BY <1>6 DEF T!Max

LEMMA LessOfTwo == \A x, y \in Int : T!Min({x, y}) = IF x <= y THEN x ELSE y BY DEF T!Min
LEMMA MoreOfTwo == \A x, y \in Int : T!Max({x, y}) = IF x >= y THEN x ELSE y BY DEF T!Max
LEMMA NoneIs == T!None = -1 BY DEF T!None

-----------------------------------------------------------------------------
(* The window of a tool.                                                   *)

Cell == [seq : Nat, got : Int]
\* The file is written up to r, and the window begins there; what is in it came in its place.
Begun(r) == [i \in 1 .. r |-> i - 1]
Kind(win, r, upto) ==
  /\ win \in Seq(Cell) /\ win # <<>>
  /\ \A i \in DOMAIN win : win[i].seq = r + i - 1 /\ (win[i].got = -1 \/ (win[i].got = win[i].seq /\ win[i].seq < upto))
\* The end is known once the last block of the file has come.
Arrived(win, r, c) == c < r \/ \E i \in DOMAIN win : win[i].seq = c /\ win[i].got # -1
EndKnown(s, j) ==
  /\ s.end = -1 \/ (s.end = j.size /\ s.recv < s.end /\ s.end <= ChunkMax + 1)
  /\ s.tool # "cefgetfile" => s.end = -1
  /\ s.tool = "cefgetfile" /\ j.put = "cefputfile" /\ j.size > 0 /\ Arrived(s.win, s.recv, j.size - 1) => s.end = j.size
GetFields == {"at", "tool", "sg", "tries", "win", "frame", "file", "recv", "end", "running", "write", "ng", "retry",
              "ask", "kept", "split", "signal"}
Follows(s, upto, j) ==
  /\ DOMAIN s = GetFields /\ s.running = TRUE /\ s.write \in BOOLEAN /\ s.retry \in 0 .. MaxRetry
  /\ s.recv \in Nat /\ s.recv <= ChunkMax /\ s.file = Begun(s.recv)
  /\ Kind(s.win, s.recv, upto) /\ EndKnown(s, j)

LEMMA FullIs ==
  ASSUME NEW win, win \in Seq(Cell)
  PROVE  T!Full(win) \in 0 .. Len(win) /\ \A i \in 1 .. T!Full(win) : win[i].got # -1
<1>1. PICK G : G = {n \in 0 .. Len(win) : \A i \in 1 .. n : win[i].got # T!None} OBVIOUS
<1>2. Len(win) \in Nat OBVIOUS
<1>3. G \subseteq Nat /\ 0 \in G /\ \A x \in G : x <= Len(win) BY <1>1, <1>2
<1>4. T!Max(G) \in G
  <2>1. G \subseteq Nat /\ G # {} /\ Len(win) \in Int /\ \A x \in G : x <= Len(win) BY <1>2, <1>3
  <2>2. QED BY <2>1, MostNat
<1>5. T!Full(win) \in G BY <1>1, <1>4 DEF T!Full
<1>6. QED BY <1>1, <1>5, NoneIs

\* The window goes on by n.
LEMMA MovedKind ==
  ASSUME NEW win, NEW r \in Nat, NEW upto, Kind(win, r, upto), NEW n \in 0 .. Len(win)
  PROVE  /\ Kind(T!Moved(win, n), r + n, upto)
         /\ \A c : Arrived(T!Moved(win, n), r + n, c) => c < r + n \/ Arrived(win, r, c)
<1>1. PICK m : m = T!Moved(win, n) OBVIOUS
<1>2. PICK k : k = Len(win) OBVIOUS
<1>3. win \in Seq(Cell) /\ k \in Nat \ {0} /\ DOMAIN win = 1 .. k /\ n \in 0 .. k BY <1>2 DEF Kind
<1>4. /\ DOMAIN m = 1 .. k
      /\ \A i \in 1 .. k : m[i] = IF i + n <= k THEN win[i + n] ELSE [seq |-> win[i].seq + n, got |-> -1]
  <2>1. \A i \in 1 .. k : i + n \in DOMAIN win <=> i + n <= k BY <1>3
  <2>2. QED BY <1>1, <1>3, <2>1, NoneIs DEF T!Moved
<1>5. ASSUME NEW i \in 1 .. k
      PROVE  /\ m[i] \in Cell /\ m[i].seq = r + n + i - 1
             /\ m[i].got = -1 \/ (i + n \in 1 .. k /\ m[i] = win[i + n])
             /\ m[i].got = -1 \/ (m[i].got = m[i].seq /\ m[i].seq < upto)
  <2>1. CASE i + n <= k
    <3>1. i + n \in 1 .. k /\ m[i] = win[i + n] BY <1>3, <1>4, <2>1
    <3>2. win[i + n] \in Cell BY <1>3, <3>1
    <3>3. win[i + n].seq = r + (i + n) - 1 BY <1>3, <3>1 DEF Kind
    <3>4. win[i + n].got = -1 \/ (win[i + n].got = win[i + n].seq /\ win[i + n].seq < upto) BY <1>3, <3>1 DEF Kind
    <3>5. r + (i + n) - 1 = r + n + i - 1 BY <1>3
    <3>6. QED BY <3>1, <3>2, <3>3, <3>4, <3>5
  <2>2. CASE ~(i + n <= k)
    <3>1. m[i] = [seq |-> win[i].seq + n, got |-> -1] BY <1>4, <2>2
    <3>2. win[i].seq = r + i - 1 BY <1>3 DEF Kind
    <3>3. r + i - 1 + n \in Nat /\ r + i - 1 + n = r + n + i - 1 /\ -1 \in Int BY <1>3
    <3>4. m[i].seq = r + i - 1 + n /\ m[i].got = -1 BY <3>1, <3>2
    <3>5. m[i] \in Cell BY <3>1, <3>2, <3>3 DEF Cell
    <3>6. QED BY <3>3, <3>4, <3>5
  <2>3. QED BY <2>1, <2>2
<1>6. m \in Seq(Cell)
  <2>1. PICK q : q = [i \in 1 .. k |-> m[i]] OBVIOUS
  <2>2. q \in [1 .. k -> Cell] BY <1>5, <2>1
  <2>3. q \in Seq(Cell) BY <1>3, <2>2
  <2>4. m = [i \in DOMAIN win |-> IF i + n \in DOMAIN win THEN win[i + n]
                                 ELSE [seq |-> win[i].seq + n, got |-> T!None]]
    BY <1>1 DEF T!Moved
  <2>5. m = q BY <1>3, <1>4, <2>1, <2>4
  <2>6. QED BY <2>3, <2>5
<1>7. m # <<>> BY <1>3, <1>4
<1>8. Kind(m, r + n, upto)
  <2>1. ASSUME NEW i \in DOMAIN m
        PROVE  m[i].seq = r + n + i - 1 /\ (m[i].got = -1 \/ (m[i].got = m[i].seq /\ m[i].seq < upto))
    BY <1>4, <1>5
  <2>2. QED BY <1>6, <1>7, <2>1 DEF Kind
<1>9. ASSUME NEW c, Arrived(m, r + n, c) PROVE c < r + n \/ Arrived(win, r, c)
  <2>1. CASE c < r + n BY <2>1
  <2>2. CASE \E i \in DOMAIN m : m[i].seq = c /\ m[i].got # -1
    <3>1. PICK i \in 1 .. k : m[i].seq = c /\ m[i].got # -1 BY <1>4, <2>2
    <3>2. i + n \in DOMAIN win /\ win[i + n].seq = c /\ win[i + n].got # -1 BY <1>3, <1>5, <3>1
    <3>3. QED BY <3>2 DEF Arrived
  <2>3. QED BY <1>9, <2>1, <2>2 DEF Arrived
<1>10. QED BY <1>1, <1>8, <1>9

\* What was published as a file or as a stream, of which upto blocks are out
Genuine(f, upto, j) ==
  /\ f.what = "object" /\ f.chunk \in Nat /\ f.chunk < upto
  /\ f.end = IF j.put = "cefputfile" /\ f.chunk + 1 = j.size THEN f.chunk ELSE -1
Proper(f, upto, j) == f.what = "return" \/ Genuine(f, upto, j)
Reach(upto, j) == upto \in Nat /\ upto <= j.blocks /\ upto <= ChunkMax + 1
JobIs(j) == j.blocks \in Nat /\ j.size \in Nat /\ (j.size > 0 \/ j.blocks <= ChunkMax) /\ (j.put # "cefputfile" => j.size = j.blocks)
\* What taking frames does not change
Same(s, t) ==
  /\ t.tool = s.tool /\ t.sg = s.sg /\ t.signal = s.signal /\ t.split = s.split /\ t.kept = s.kept

LEMMA LimitIs == ChunkMax \in Nat \ {0} /\ MaxRetry \in Nat \ {0} BY ClientAssumption DEF ClientAssumption

\* A block comes to its place.
LEMMA PlacedKind ==
  ASSUME NEW win, NEW r \in Nat, NEW upto \in Nat, Kind(win, r, upto), NEW c \in Nat, c < upto,
         NEW i \in DOMAIN win, i = c - r + 1, NEW m, m = [win EXCEPT ![i].got = c]
  PROVE  Kind(m, r, upto) /\ \A d : Arrived(m, r, d) => d = c \/ Arrived(win, r, d)
<1>1. win \in Seq(Cell) /\ win[i] \in Cell /\ win[i].seq = r + i - 1 BY DEF Kind
<1>2. i \in Nat /\ win[i].seq = c BY <1>1
<1>3. PICK x : x = [win[i] EXCEPT !.got = c] OBVIOUS
<1>4. x \in Cell /\ x.seq = win[i].seq /\ x.got = c
  <2>1. PICK y : y = win[i] OBVIOUS
  <2>2. y \in Cell /\ x = [y EXCEPT !.got = c] BY <1>1, <1>3, <2>1
  <2>3. c \in Int OBVIOUS
  <2>4. x \in Cell /\ x.seq = y.seq /\ x.got = c BY <2>2, <2>3 DEF Cell
  <2>5. QED BY <2>1, <2>4
<1>5. m = [win EXCEPT ![i] = x] BY <1>3
<1>6. m \in Seq(Cell) /\ DOMAIN m = DOMAIN win /\ \A k \in DOMAIN win : m[k] = IF k = i THEN x ELSE win[k]
  <2>1. DOMAIN m = DOMAIN win /\ \A k \in DOMAIN win : m[k] = IF k = i THEN x ELSE win[k] BY <1>5
  <2>2. m \in Seq(Cell)
    <3>1. PICK z : z = x OBVIOUS
    <3>2. m = [win EXCEPT ![i] = z] BY <1>5, <3>1
    <3>3. z \in Cell BY <1>4, <3>1
    <3>4. QED BY <1>1, <3>2, <3>3
  <2>3. QED BY <2>1, <2>2
<1>7. ASSUME NEW k \in DOMAIN win
      PROVE  m[k].seq = r + k - 1 /\ (m[k].got = -1 \/ (m[k].got = m[k].seq /\ m[k].seq < upto))
  <2>1. win[k].seq = r + k - 1 /\ (win[k].got = -1 \/ (win[k].got = win[k].seq /\ win[k].seq < upto)) BY DEF Kind
  <2>2. CASE k = i BY <1>1, <1>2, <1>4, <1>6, <2>2
  <2>3. CASE k # i BY <1>6, <2>1, <2>3
  <2>4. QED BY <2>2, <2>3
<1>8. m # <<>> BY <1>6
<1>9. Kind(m, r, upto) BY <1>6, <1>7, <1>8 DEF Kind
<1>10. ASSUME NEW d, Arrived(m, r, d) PROVE d = c \/ Arrived(win, r, d)
  <2>1. CASE d < r BY <2>1 DEF Arrived
  <2>2. CASE \E k \in DOMAIN m : m[k].seq = d /\ m[k].got # -1
    <3>1. PICK k \in DOMAIN win : m[k].seq = d /\ m[k].got # -1 BY <1>6, <2>2
    <3>2. CASE k = i BY <1>2, <1>4, <1>6, <3>1, <3>2
    <3>3. CASE k # i BY <1>6, <3>1, <3>3 DEF Arrived
    <3>4. QED BY <3>2, <3>3
  <2>3. QED BY <1>10, <2>1, <2>2 DEF Arrived
<1>11. QED BY <1>9, <1>10

\* cefgetfile.c:596-640, cefgetstream.c:550-580: a frame comes to the window.
LEMMA TakeFollows ==
  ASSUME NEW j, JobIs(j), NEW upto, Reach(upto, j), NEW s, Follows(s, upto, j), NEW f, Genuine(f, upto, j),
         NEW t, t = T!TakeChunk(s, f)
  PROVE  Follows(t, upto, j) /\ Same(s, t) /\ t.frame = s.frame /\ t.ng = s.ng
<1>1. PICK e : e = IF s.tool = "cefgetfile" /\ f.end >= 0 THEN f.end + 1 ELSE s.end OBVIOUS
<1>2. PICK i : i = f.chunk - Head(s.win).seq + 1 OBVIOUS
<1>3. PICK u, w : u = [s EXCEPT !.end = e] /\ w = [s.win EXCEPT ![i].got = f.chunk] OBVIOUS
<1>4. DOMAIN s = GetFields BY DEF Follows
<1>5. t = IF ~T!Fits(s, f) THEN u
          ELSE IF s.win[i].got # -1 THEN [s EXCEPT !.end = e, !.write = TRUE]
          ELSE [s EXCEPT !.end = e, !.write = TRUE, !.win = w, !.retry = 0]
  BY <1>1, <1>2, <1>3, NoneIs DEF T!TakeChunk
<1>6. PICK r : r = s.recv OBVIOUS
<1>7. /\ r \in Nat /\ r <= ChunkMax /\ Kind(s.win, r, upto) /\ s.file = Begun(r) /\ s.running = TRUE
      /\ s.write \in BOOLEAN /\ s.retry \in 0 .. MaxRetry /\ EndKnown(s, j)
  BY <1>6 DEF Follows
<1>8. f.chunk \in Nat /\ f.chunk < upto /\ upto \in Nat /\ upto <= ChunkMax + 1 BY DEF Genuine, Reach
<1>9. s.win \in Seq(Cell) /\ s.win # <<>> /\ Head(s.win).seq = r
  <2>1. s.win \in Seq(Cell) /\ s.win # <<>> BY <1>7 DEF Kind
  <2>2. 1 \in DOMAIN s.win BY <2>1
  <2>3. s.win[1].seq = r + 1 - 1 BY <1>7, <2>2 DEF Kind
  <2>4. Head(s.win) = s.win[1] BY <2>1
  <2>5. QED BY <1>7, <2>1, <2>3, <2>4
<1>10. T!Fits(s, f) => i \in DOMAIN s.win
  <2>1. Len(s.win) \in Nat \ {0} /\ DOMAIN s.win = 1 .. Len(s.win) BY <1>9
  <2>2. s.win[Len(s.win)].seq = r + Len(s.win) - 1
    <3>1. PICK k : k = Len(s.win) OBVIOUS
    <3>2. k \in DOMAIN s.win BY <2>1, <3>1
    <3>3. s.win[k].seq = r + k - 1 BY <1>7, <3>2 DEF Kind
    <3>4. QED BY <3>1, <3>3
  <2>3. T!Fits(s, f) => f.chunk >= r /\ f.chunk <= r + Len(s.win) - 1
    BY <1>9, <2>2 DEF T!Fits, Last, T!Last
  <2>4. QED BY <1>2, <1>7, <1>8, <1>9, <2>1, <2>3
\* The end is told with the last block, and before the window is past it.
<1>11. /\ e = -1 \/ (e = j.size /\ r < e /\ e <= ChunkMax + 1)
       /\ s.tool # "cefgetfile" => e = -1
       /\ s.tool = "cefgetfile" /\ j.put = "cefputfile" /\ f.chunk + 1 = j.size => e = j.size
       /\ s.end # -1 => e = s.end
  <2>1. s.end = -1 \/ (s.end = j.size /\ r < s.end /\ s.end <= ChunkMax + 1) BY <1>6, <1>7 DEF EndKnown
  <2>2. s.tool # "cefgetfile" => s.end = -1 BY <1>7 DEF EndKnown
  <2>3. CASE s.tool = "cefgetfile" /\ f.end >= 0
    <3>1. j.put = "cefputfile" /\ f.chunk + 1 = j.size /\ f.end = f.chunk BY <2>3 DEF Genuine
    <3>2. e = j.size BY <1>1, <2>3, <3>1
    <3>3. j.size \in Nat /\ j.size > 0 /\ j.size <= ChunkMax + 1 BY <1>8, <3>1, LimitIs DEF JobIs
    <3>4. r < e
      <4>1. SUFFICES ASSUME r >= j.size PROVE FALSE BY <1>7, <3>2, <3>3
      <4>2. j.size - 1 < r BY <1>7, <3>3, <4>1
      <4>3. s.end = j.size BY <1>6, <1>7, <2>3, <3>1, <3>3, <4>2 DEF EndKnown, Arrived
      <4>4. QED BY <1>7, <2>1, <3>3, <4>1, <4>3
    <3>5. QED BY <2>1, <2>3, <3>2, <3>3, <3>4
  <2>4. CASE ~(s.tool = "cefgetfile" /\ f.end >= 0)
    <3>1. e = s.end BY <1>1, <2>4
    <3>2. ASSUME s.tool = "cefgetfile", j.put = "cefputfile", f.chunk + 1 = j.size PROVE FALSE
      <4>1. f.end = f.chunk BY <3>2 DEF Genuine
      <4>2. QED BY <1>8, <2>4, <3>2, <4>1
    <3>3. QED BY <2>1, <2>2, <3>1, <3>2
  <2>5. QED BY <2>3, <2>4
<1>12. ASSUME s.tool = "cefgetfile", j.put = "cefputfile", j.size > 0, Arrived(s.win, r, j.size - 1) PROVE e = j.size
  <2>1. s.end = j.size BY <1>6, <1>7, <1>12 DEF EndKnown
  <2>2. j.size \in Nat BY DEF JobIs
  <2>3. QED BY <1>11, <2>1, <2>2
<1>13. CASE ~T!Fits(s, f) \/ s.win[i].got # -1
  <2>1. /\ DOMAIN t = GetFields /\ t.end = e /\ t.write \in BOOLEAN /\ t.win = s.win /\ t.retry = s.retry
        /\ t.recv = s.recv /\ t.file = s.file /\ t.running = s.running /\ t.tool = s.tool
    BY <1>3, <1>4, <1>5, <1>7, <1>13 DEF GetFields
  <2>2. Same(s, t) /\ t.frame = s.frame /\ t.ng = s.ng BY <1>3, <1>4, <1>5, <1>13 DEF GetFields, Same
  <2>3. EndKnown(t, j) BY <1>6, <1>11, <1>12, <2>1 DEF EndKnown
  <2>4. QED BY <1>6, <1>7, <2>1, <2>2, <2>3 DEF Follows
<1>14. CASE T!Fits(s, f) /\ s.win[i].got = -1
  <2>1. t = [s EXCEPT !.end = e, !.write = TRUE, !.win = w, !.retry = 0] BY <1>5, <1>14
  <2>2. /\ DOMAIN t = GetFields /\ t.end = e /\ t.write = TRUE /\ t.win = w /\ t.retry = 0
        /\ t.recv = s.recv /\ t.file = s.file /\ t.running = s.running /\ t.tool = s.tool
    BY <1>4, <2>1 DEF GetFields
  <2>3. Same(s, t) /\ t.frame = s.frame /\ t.ng = s.ng BY <1>4, <2>1 DEF GetFields, Same
  <2>4. Kind(w, r, upto) /\ \A d : Arrived(w, r, d) => d = f.chunk \/ Arrived(s.win, r, d)
    <3>1. i \in DOMAIN s.win /\ i = f.chunk - r + 1 BY <1>2, <1>9, <1>10, <1>14
    <3>2. QED BY <1>3, <1>7, <1>8, <3>1, PlacedKind
  <2>5. EndKnown(t, j)
    <3>1. ASSUME s.tool = "cefgetfile", j.put = "cefputfile", j.size > 0, Arrived(w, r, j.size - 1) PROVE e = j.size
      <4>1. CASE Arrived(s.win, r, j.size - 1) BY <1>12, <3>1, <4>1
      <4>2. CASE j.size - 1 = f.chunk
        <5>1. f.chunk + 1 = j.size BY <1>8, <4>2 DEF JobIs
        <5>2. QED BY <1>11, <3>1, <5>1
      <4>3. QED BY <2>4, <3>1, <4>1, <4>2
    <3>2. QED BY <1>6, <1>11, <2>2, <3>1 DEF EndKnown
  <2>6. 0 \in 0 .. MaxRetry BY LimitIs
  <2>7. QED BY <1>6, <1>7, <2>2, <2>3, <2>4, <2>5, <2>6 DEF Follows
<1>15. QED BY <1>13, <1>14

\* The size that a file is to have, and a tool that came to its end of itself
Wanted(j) == IF j.size <= ChunkMax + 1 THEN j.size ELSE ChunkMax + 1
Stopped(s, upto, j) ==
  /\ DOMAIN s = GetFields /\ s.running = FALSE /\ s.write \in BOOLEAN /\ s.retry \in 0 .. MaxRetry
  /\ s.recv \in Nat /\ s.file = Begun(s.recv) /\ Kind(s.win, s.recv, upto)
  /\ s.tool = "cefgetfile" => s.recv = Wanted(j)

LEMMA BegunMore ==
  ASSUME NEW r \in Nat, NEW n \in Nat, NEW p, DOMAIN p = 1 .. n, \A i \in 1 .. n : p[i] = r + i - 1,
         p \in Seq(Int)
  PROVE  Begun(r) \o p = Begun(r + n)
<1>1. PICK b, q, z : b = Begun(r) /\ z = Begun(r + n) /\ q = b \o p OBVIOUS
<1>2. b \in Seq(Int) /\ Len(b) = r /\ \A i \in 1 .. r : b[i] = i - 1 BY <1>1 DEF Begun
<1>3. z \in Seq(Int) /\ Len(z) = r + n /\ \A i \in 1 .. r + n : z[i] = i - 1 BY <1>1 DEF Begun
<1>4. Len(p) = n OBVIOUS
<1>5. q \in Seq(Int) /\ Len(q) = r + n /\ \A i \in 1 .. r + n : q[i] = IF i <= r THEN b[i] ELSE p[i - r]
  <2>1. q \in Seq(Int) /\ Len(q) = r + n
    <3>1. q = b \o p /\ b \in Seq(Int) BY <1>1, <1>2
    <3>2. b \o p \in Seq(Int) /\ Len(b \o p) = Len(b) + Len(p) BY <3>1, ConcatProperties
    <3>3. QED BY <1>2, <1>4, <3>1, <3>2
  <2>2. ASSUME NEW i \in 1 .. r + n PROVE q[i] = IF i <= r THEN b[i] ELSE p[i - r]
    <3>1. i \in 1 .. Len(b) + Len(p) BY <1>2, <1>4
    <3>2. q[i] = IF i <= Len(b) THEN b[i] ELSE p[i - Len(b)] BY <1>1, <1>2, <3>1, ConcatProperties
    <3>3. QED BY <1>2, <3>2
  <2>3. QED BY <2>1, <2>2
<1>6. ASSUME NEW i \in 1 .. r + n PROVE q[i] = z[i]
  <2>1. CASE i <= r BY <1>2, <1>3, <1>5, <2>1
  <2>2. CASE i > r
    <3>1. i - r \in 1 .. n BY <2>2
    <3>2. p[i - r] = r + (i - r) - 1 BY <3>1
    <3>3. QED BY <1>3, <1>5, <2>2, <3>2
  <2>3. QED BY <2>1, <2>2
<1>7. q = z BY <1>3, <1>5, <1>6, SeqEqual
<1>8. QED BY <1>1, <1>7

\* cefgetfile.c:642-700, cefgetstream.c:582-640: what can be written is.
LEMMA WriteFollows ==
  ASSUME NEW j, JobIs(j), NEW upto, Reach(upto, j), NEW s, Follows(s, upto, j), s.write = TRUE,
         NEW n, n = T!Count(s), NEW t, t = T!WriteHead(s, n)
  PROVE  /\ Follows(t, upto, j) \/ Stopped(t, upto, j)
         /\ Same(s, t) /\ t.frame = s.frame /\ t.ng = s.ng /\ t.write = FALSE /\ t.ask \subseteq 0 .. ChunkMax
<1>1. PICK r, k, w, e : r = s.recv /\ k = T!Full(s.win) /\ w = s.win /\ e = s.end OBVIOUS
<1>2. /\ DOMAIN s = GetFields /\ s.retry \in 0 .. MaxRetry /\ s.file = Begun(r) /\ s.running = TRUE
      /\ r \in Nat /\ r <= ChunkMax /\ Kind(w, r, upto) /\ EndKnown(s, j)
  BY <1>1 DEF Follows
<1>3. upto \in Nat /\ upto <= ChunkMax + 1 /\ ChunkMax \in Nat \ {0} /\ j.size \in Nat BY LimitIs DEF Reach, JobIs
<1>4. PICK l : l = Len(w) OBVIOUS
<1>5. w \in Seq(Cell) /\ l \in Nat \ {0} /\ DOMAIN w = 1 .. l BY <1>2, <1>4 DEF Kind
<1>6. k \in 0 .. l /\ \A i \in 1 .. k : w[i].got # -1 BY <1>1, <1>4, <1>5, FullIs
<1>7. \A i \in 1 .. l : /\ w[i].seq = r + i - 1
                        /\ (w[i].got = -1 \/ (w[i].got = w[i].seq /\ w[i].seq < upto))
  BY <1>2, <1>5 DEF Kind
<1>8. ASSUME NEW i \in 1 .. k PROVE w[i].got = r + i - 1 /\ r + i - 1 < upto
  <2>1. k \in Nat /\ k <= l /\ i \in Nat /\ i >= 1 /\ i <= k BY <1>5, <1>6
  <2>2. i \in 1 .. l /\ w[i].got # -1 BY <1>5, <1>6, <2>1
  <2>3. QED BY <1>7, <2>2
<1>9. e = -1 \/ (e = j.size /\ r < e /\ e <= ChunkMax + 1) BY <1>1, <1>2 DEF EndKnown
<1>10. s.tool # "cefgetfile" => e = -1 BY <1>1, <1>2 DEF EndKnown
<1>11. s.tool = "cefgetfile" /\ j.put = "cefputfile" /\ j.size > 0 /\ Arrived(w, r, j.size - 1) => e = j.size
  BY <1>1, <1>2 DEF EndKnown
<1>12. n = IF s.tool = "cefgetfile" /\ e - r \in 1 .. k THEN e - r ELSE k
  BY <1>1 DEF T!Count, T!Complete
<1>13. n \in 0 .. k BY <1>6, <1>12
<1>14. PICK m, p, a, g : /\ m = T!Moved(w, n) /\ p = [i \in 1 .. n |-> w[i].got]
                         /\ a = T!WriteHead(s, n).ask
                         /\ g = (r + n # e /\ \A i \in 1 .. n : w[i].seq # ChunkMax)
  OBVIOUS
<1>15. /\ g => r + n # e /\ \A i \in 1 .. n : w[i].seq # ChunkMax
       /\ ~g => r + n = e \/ \E i \in 1 .. n : w[i].seq = ChunkMax
       /\ g \in BOOLEAN
  BY <1>14, Zenon
<1>16. t = [s EXCEPT !.file = Begun(r) \o p, !.recv = r + n, !.win = m, !.ask = a, !.write = FALSE, !.running = g]
  <2>1. PICK A : t = [s EXCEPT !.file = @ \o [i \in 1 .. n |-> s.win[i].got], !.recv = @ + n, !.win = T!Moved(@, n),
                              !.ask = A, !.write = FALSE,
                              !.running = s.recv + n # s.end /\ \A i \in 1 .. n : s.win[i].seq # ChunkMax]
    BY DEF T!WriteHead
  <2>2. a = A BY <1>2, <1>14, <2>1 DEF GetFields
  <2>3. QED BY <1>1, <1>2, <1>14, <2>1, <2>2 DEF GetFields
<1>17. /\ DOMAIN t = GetFields /\ t.file = Begun(r) \o p /\ t.recv = r + n /\ t.win = m /\ t.ask = a /\ t.write = FALSE
       /\ t.running = g /\ t.retry = s.retry /\ t.end = e /\ t.tool = s.tool /\ t.frame = s.frame /\ t.ng = s.ng
  BY <1>1, <1>2, <1>16 DEF GetFields
<1>18. Same(s, t) BY <1>2, <1>16 DEF GetFields, Same
<1>19. a \subseteq 0 .. ChunkMax
  <2>1. PICK A : /\ \A c \in A : c \in Nat
                 /\ t.ask = {c % (ChunkMax + 1) : c \in A}
    <3>1. PICK x, y : /\ x = T!Last(w).seq + 1 .. T!Last(w).seq + n
                      /\ y = IF s.tool = "cefgetstream" /\ n < Len(w) THEN {w[n + 1].seq} ELSE {}
      OBVIOUS
    <3>2. t.ask = {c % (ChunkMax + 1) : c \in x \cup y} BY <1>1, <1>2, <3>1 DEF GetFields, T!WriteHead
    <3>3. T!Last(w).seq \in Nat
      <4>1. T!Last(w) = w[l] BY <1>4 DEF T!Last
      <4>2. QED BY <1>3, <1>5, <1>7, <1>2, <4>1
    <3>4. \A c \in x : c \in Nat BY <1>6, <1>13, <3>1, <3>3
    <3>5. \A c \in y : c \in Nat
      <4>1. n < Len(w) => n + 1 \in 1 .. l BY <1>4, <1>5, <1>6, <1>13
      <4>2. n < Len(w) => w[n + 1].seq \in Nat BY <1>2, <1>7, <4>1
      <4>3. QED BY <3>1, <4>2
    <3>6. QED BY <3>2, <3>4, <3>5
  <2>2. \A c \in Nat : c % (ChunkMax + 1) \in 0 .. ChunkMax BY <1>3
  <2>3. QED BY <1>17, <2>1, <2>2
<1>20. Kind(m, r + n, upto) /\ \A c : Arrived(m, r + n, c) => c < r + n \/ Arrived(w, r, c)
  <2>1. n \in 0 .. Len(w) BY <1>4, <1>6, <1>13
  <2>2. QED BY <1>2, <1>14, <2>1, MovedKind
<1>21. Begun(r) \o p = Begun(r + n)
  <2>1. DOMAIN p = 1 .. n /\ \A i \in 1 .. n : p[i] = r + i - 1
    <3>1. \A i \in 1 .. n : i \in 1 .. k BY <1>6, <1>13
    <3>2. QED BY <1>8, <1>14, <3>1
  <2>2. p \in Seq(Int)
    <3>1. \A i \in 1 .. n : w[i].got \in Int
      <4>1. \A i \in 1 .. n : i \in 1 .. k BY <1>6, <1>13
      <4>2. \A i \in 1 .. k : r + i - 1 \in Int BY <1>2
      <4>3. QED BY <1>8, <4>1, <4>2
    <3>2. n \in Nat BY <1>13
    <3>3. QED BY <1>14, <3>1, <3>2
  <2>3. n \in Nat BY <1>13
  <2>4. QED BY <1>2, <2>1, <2>2, <2>3, BegunMore
\* A block before the place that is written to has come.
<1>22. \A c \in Nat : c < r + n => Arrived(w, r, c)
  <2>1. ASSUME NEW c \in Nat, c < r + n PROVE Arrived(w, r, c)
    <3>1. CASE c < r BY <3>1 DEF Arrived
    <3>2. CASE c >= r
      <4>1. c - r + 1 \in 1 .. n /\ c - r + 1 \in 1 .. k /\ c - r + 1 \in DOMAIN w /\ c = r + (c - r + 1) - 1
        BY <1>2, <1>5, <1>6, <1>13, <2>1, <3>2
      <4>2. w[c - r + 1].seq = c /\ w[c - r + 1].got # -1 BY <1>5, <1>6, <1>7, <4>1
      <4>3. QED BY <4>1, <4>2 DEF Arrived
    <3>3. QED BY <1>2, <2>1, <3>1, <3>2
  <2>2. QED BY <2>1
<1>23. n > 0 => r + n <= ChunkMax + 1
  <2>1. n > 0 => r + n - 1 < upto BY <1>8, <1>13
  <2>2. QED BY <1>2, <1>3, <1>13, <2>1
<1>24. CASE g
  <2>1. r + n # e /\ r + n <= ChunkMax
    <3>1. CASE n = 0 BY <1>2, <1>3, <1>24, <1>15, <3>1
    <3>2. CASE n > 0
      <4>1. n \in 1 .. n /\ w[n].seq = r + n - 1 BY <1>5, <1>6, <1>7, <1>13, <3>2
      <4>2. r + n - 1 # ChunkMax BY <1>24, <1>15, <4>1
      <4>3. n \in Nat BY <1>13
      <4>4. r + n <= ChunkMax BY <1>2, <1>3, <1>23, <3>2, <4>2, <4>3
      <4>5. QED BY <1>24, <1>15, <4>4
    <3>3. QED BY <1>13, <3>1, <3>2
  <2>2. e = -1 \/ (e = j.size /\ r + n < e /\ e <= ChunkMax + 1)
    <3>1. CASE e # -1
      <4>1. s.tool = "cefgetfile" /\ e = j.size /\ r < e BY <1>9, <1>10, <3>1
      <4>2. e - r \notin 1 .. k BY <1>2, <1>3, <1>12, <2>1, <4>1
      <4>3. n = k /\ e - r > k BY <1>2, <1>3, <1>6, <1>12, <4>1, <4>2
      <4>4. QED BY <1>2, <1>3, <1>6, <1>9, <3>1, <4>1, <4>3
    <3>2. QED BY <3>1
  <2>3. ASSUME s.tool = "cefgetfile", j.put = "cefputfile", j.size > 0, Arrived(m, r + n, j.size - 1)
        PROVE  e = j.size
    <3>1. j.size - 1 \in Nat BY <1>3, <2>3
    <3>2. j.size - 1 < r + n \/ Arrived(w, r, j.size - 1) BY <1>20, <2>3
    <3>3. Arrived(w, r, j.size - 1) BY <1>22, <3>1, <3>2
    <3>4. QED BY <1>11, <2>3, <3>3
  <2>4. EndKnown(t, j) BY <1>10, <1>17, <2>2, <2>3 DEF EndKnown
  <2>5. r + n \in Nat BY <1>2, <1>13
  <2>6. Follows(t, upto, j) BY <1>2, <1>17, <1>20, <1>21, <1>24, <1>15, <2>1, <2>4, <2>5 DEF Follows
  <2>7. QED BY <1>17, <1>18, <1>19, <2>6
<1>25. CASE ~g
  <2>1. ASSUME s.tool = "cefgetfile" PROVE r + n = Wanted(j)
    <3>1. CASE r + n = e BY <1>2, <1>3, <1>9, <1>13, <3>1 DEF Wanted
    <3>2. CASE r + n # e
      <4>1. PICK i \in 1 .. n : w[i].seq = ChunkMax BY <1>25, <1>15, <3>2
      <4>2. r + i - 1 = ChunkMax BY <1>5, <1>6, <1>7, <1>13, <4>1
      <4>3. r + n = ChunkMax + 1 BY <1>2, <1>3, <1>13, <1>23, <4>1, <4>2
      <4>4. j.size >= ChunkMax + 1
        <5>1. SUFFICES ASSUME j.size <= ChunkMax PROVE FALSE BY <1>3
        <5>2. j.blocks \in Nat /\ j.blocks >= upto BY DEF Reach, JobIs
        <5>3. ChunkMax < upto
          <6>1. i \in 1 .. k BY <1>6, <1>13
          <6>2. r + i - 1 < upto BY <1>8, <6>1
          <6>3. QED BY <4>2, <6>2
        <5>4. j.blocks > ChunkMax /\ j.blocks # j.size BY <1>3, <5>1, <5>2, <5>3
        <5>5. j.put = "cefputfile" /\ j.size > 0 BY <1>3, <5>2, <5>4 DEF JobIs
        <5>6. j.size - 1 \in Nat /\ j.size - 1 < r + n BY <1>3, <4>3, <5>1, <5>5
        <5>7. e = j.size BY <1>11, <1>22, <2>1, <5>5, <5>6
        <5>8. e - r \in 1 .. n
          <6>1. r < e BY <1>3, <1>9, <5>7
          <6>2. QED BY <1>2, <1>3, <1>13, <4>3, <5>1, <5>7, <6>1
        <5>9. e - r \in 1 .. k BY <1>6, <1>13, <5>8
        <5>10. n = e - r BY <1>12, <2>1, <5>9
        <5>11. QED BY <1>2, <1>3, <3>2, <5>7, <5>10
      <4>5. QED BY <1>3, <4>3, <4>4 DEF Wanted
    <3>3. QED BY <3>1, <3>2
  <2>2. r + n \in Nat /\ g = FALSE BY <1>2, <1>13, <1>25, <1>15
  <2>3. Stopped(t, upto, j) BY <1>2, <1>17, <1>20, <1>21, <2>1, <2>2 DEF Stopped
  <2>4. QED BY <1>17, <1>18, <1>19, <2>3
<1>26. QED BY <1>24, <1>25

\* A tool that was told that there is no way to the content
GaveUp(s, upto) ==
  /\ DOMAIN s = GetFields /\ s.running = FALSE /\ s.write = FALSE /\ s.retry \in 0 .. MaxRetry
  /\ s.recv \in Nat /\ s.file = Begun(s.recv) /\ Kind(s.win, s.recv, upto)
  /\ s.tool = "cefgetfile" => s.ng = TRUE

\* What taking a frame of a file comes to
Taken(s, t, f, upto, j) ==
  /\ Same(s, t) /\ t.frame = f /\ t.ask = s.ask /\ (t.ng = s.ng \/ t.ng \in BOOLEAN)
  /\ f.what = "return" /\ s.write = FALSE => GaveUp(t, upto)
  /\ f.what # "return" => Genuine(f, upto, j) /\ Follows(t, upto, j)

LEMMA TakeOfFile ==
  ASSUME NEW j, JobIs(j), NEW upto, Reach(upto, j), NEW s, Follows(s, upto, j), s.tool # "cefgetchunk", s.sg = FALSE,
         NEW f, Proper(f, upto, j), NEW t, t = T!Take(s, f)
  PROVE  Taken(s, t, f, upto, j)
<1>1. PICK u : u = [s EXCEPT !.frame = f] OBVIOUS
<1>2. DOMAIN s = GetFields BY DEF Follows
<1>3. /\ DOMAIN u = GetFields /\ u.frame = f /\ u.running = s.running /\ u.write = s.write /\ u.retry = s.retry
      /\ u.recv = s.recv /\ u.file = s.file /\ u.win = s.win /\ u.end = s.end /\ u.tool = s.tool /\ u.ask = s.ask
      /\ u.ng = s.ng
  BY <1>1, <1>2 DEF GetFields
<1>4. Same(s, u) BY <1>1, <1>2 DEF GetFields, Same
<1>5. Follows(u, upto, j) BY <1>3 DEF Follows, EndKnown
<1>6. s.running = TRUE BY DEF Follows
<1>7. CASE f.what = "return"
  <2>1. t = [u EXCEPT !.running = FALSE, !.ng = s.tool = "cefgetfile"] BY <1>1, <1>6, <1>7 DEF T!Take
  <2>2. /\ DOMAIN t = GetFields /\ t.frame = f /\ t.running = FALSE /\ t.write = s.write /\ t.retry = s.retry
        /\ t.recv = s.recv /\ t.file = s.file /\ t.win = s.win /\ t.tool = s.tool /\ t.ask = s.ask
        /\ t.ng <=> s.tool = "cefgetfile"
    BY <1>3, <2>1 DEF GetFields
  <2>3. Same(s, t) BY <1>3, <1>4, <2>1 DEF GetFields, Same
  <2>4. t.ng \in BOOLEAN BY <1>3, <2>1 DEF GetFields
  <2>5. s.write = FALSE => GaveUp(t, upto) BY <2>2, <2>4 DEF GaveUp, Follows
  <2>6. QED BY <1>7, <2>2, <2>3, <2>4, <2>5 DEF Taken
<1>8. CASE f.what # "return"
  <2>1. Genuine(f, upto, j) BY <1>8 DEF Proper
  <2>2. f.what = "object" BY <2>1 DEF Genuine
  <2>3. t = T!TakeChunk(u, f) BY <1>1, <1>6, <2>2 DEF T!Take
  <2>4. Follows(t, upto, j) /\ Same(u, t) /\ t.frame = u.frame /\ t.ng = u.ng BY <1>5, <2>1, <2>3, TakeFollows
  <2>5. t.ask = u.ask BY <1>3, <2>3 DEF T!TakeChunk, GetFields
  <2>6. Same(s, t) BY <1>4, <2>4 DEF Same
  <2>7. QED BY <1>3, <1>8, <2>1, <2>4, <2>5, <2>6 DEF Taken
<1>9. QED BY <1>7, <1>8

-----------------------------------------------------------------------------
(* What holds of the tools in every state.                                 *)

\* The Objects that are out, and the frames that may come
EndOf(c, j) == IF j.put = "cefputfile" /\ c + 1 = j.size THEN c ELSE -1
Outs(upto, j) == {[what |-> "object", chunk |-> c, end |-> EndOf(c, j)] : c \in 0 .. upto - 1}
Frames(upto, j) == Outs(upto, j) \cup {[what |-> "return"]}

Publishes ==
  /\ task \in Jobs /\ DOMAIN put = {"at", "sent"} /\ put.at \in {"off", "refused", "loop", "done"}
  /\ Reach(put.sent, task)
Network ==
  /\ DOMAIN node = {"listens", "store", "asked", "sub"}
  /\ node.store \subseteq Outs(put.sent, task) /\ node.asked \subseteq 0 .. ChunkMax
Way(s) ==
  /\ frames \in Seq(Frames(put.sent, task)) /\ cut \in BOOLEAN
  /\ cut => frames # <<>> /\ s.split = TRUE
Tool(s) ==
  /\ DOMAIN s = GetFields /\ s.retry \in 0 .. MaxRetry /\ s.ask = {}
  /\ s.sg \in BOOLEAN /\ s.split \in BOOLEAN /\ s.ng \in BOOLEAN /\ s.signal \in BOOLEAN /\ s.kept \in BOOLEAN
  /\ s.at \in {"off", "refused", "connect", "loop", "end", "done"}
  /\ \A i \in DOMAIN s.win : s.win[i].got = -1 \/ s.win[i].got = s.win[i].seq
  /\ s.frame.what = "none" \/ Proper(s.frame, put.sent, task)
Unused(s) ==
  /\ node.asked = {} /\ frames = <<>> /\ s.file = <<>> /\ s.recv = 0 /\ s.win = <<>> /\ s.end = -1
  /\ s.frame.what = "none" /\ s.running = TRUE /\ s.write = FALSE
  /\ s.at = "off" => s.tool = task.get
  /\ s.at = "connect" /\ s.tool = "cefgetchunk" => T!Value(task.args, "-c", 0) \in 0 .. ChunkMax
Early(s) == s.at \in {"off", "refused", "connect"} => Unused(s)
\* Of a file
IsFile(s) == s.tool # "cefgetchunk" /\ s.sg = FALSE
Reads(s) == Follows(s, put.sent, task) /\ s.write = FALSE
HasRead(s) ==
  /\ s.recv \in Nat /\ s.file = Begun(s.recv)
  /\ s.tool = "cefgetfile" /\ s.signal = FALSE /\ s.ng = FALSE => s.recv = Wanted(task)
OfFile(s) == IsFile(s) => (s.at = "loop" => Reads(s)) /\ (s.at \in {"end", "done"} => HasRead(s))
KeptIs(s) == s.at = "done" => s.kept # s.ng
\* Of a chunk
Lonely(s) ==
  /\ s.file \in Seq(Nat) /\ Len(s.file) <= 1
  /\ s.at = "loop" => s.file = <<>> /\ s.running = TRUE /\ s.write = FALSE
OfChunk(s) == s.tool = "cefgetchunk" => Lonely(s)
\* Of a stream
Rising(f, split) == \A i, k \in DOMAIN f : i < k => f[i] < f[k] \/ (split = TRUE /\ f[i] = f[k])
Behindhand(s) == \A i \in DOMAIN s.file : s.frame.what = "object" /\ s.file[i] <= s.frame.chunk
Coming(s, w) ==
  /\ \A i \in DOMAIN w : w[i].what = "object" /\ (s.frame.what = "object" => s.frame.chunk < w[i].chunk)
  /\ \A i, k \in DOMAIN w : i < k => w[i].chunk < w[k].chunk
Flows(s) ==
  /\ s.recv \in Nat /\ s.file \in Seq(Nat) /\ Rising(s.file, s.split) /\ Behindhand(s) /\ s.frame.what # "return"
  /\ s.at = "loop" => s.running = TRUE /\ s.write = FALSE
OfStream(s) == s.tool # "cefgetchunk" /\ s.sg = TRUE => node.asked = {} /\ Flows(s) /\ Coming(s, frames)

ToolsInv ==
  /\ Publishes /\ Network /\ Way(get) /\ Tool(get) /\ Early(get)
  /\ OfFile(get) /\ KeptIs(get) /\ OfChunk(get) /\ OfStream(get)

LEMMA OutsAre ==
  ASSUME NEW j, JobIs(j), NEW upto, Reach(upto, j)
  PROVE  /\ \A f \in Outs(upto, j) : Genuine(f, upto, j) /\ f.what = "object"
         /\ \A f \in Frames(upto, j) : Proper(f, upto, j) /\ (f.what = "object" => f \in Outs(upto, j))
<1>1. upto \in Nat /\ j.size \in Nat BY DEF Reach, JobIs
<1>2. ASSUME NEW f \in Outs(upto, j) PROVE Genuine(f, upto, j) /\ f.what = "object"
  <2>1. PICK c \in 0 .. upto - 1 : f = [what |-> "object", chunk |-> c, end |-> EndOf(c, j)] BY <1>2 DEF Outs
  <2>2. f.what = "object" /\ f.chunk = c /\ f.end = EndOf(c, j) /\ c \in Nat /\ c < upto BY <1>1, <2>1
  <2>3. QED BY <2>2 DEF Genuine, EndOf
<1>3. ASSUME NEW f \in Frames(upto, j) PROVE Proper(f, upto, j) /\ (f.what = "object" => f \in Outs(upto, j))
  <2>1. CASE f \in Outs(upto, j) BY <1>2, <2>1 DEF Proper
  <2>2. CASE f = [what |-> "return"] BY <2>2 DEF Proper
  <2>3. QED BY <2>1, <2>2 DEF Frames
<1>4. QED BY <1>2, <1>3

LEMMA OutsMore ==
  ASSUME NEW j, JobIs(j), NEW u \in Nat
  PROVE  /\ Outs(u, j) \subseteq Outs(u + 1, j) /\ Frames(u, j) \subseteq Frames(u + 1, j)
         /\ [what |-> "object", chunk |-> u, end |-> EndOf(u, j)] \in Outs(u + 1, j)
<1>1. 0 .. u - 1 \subseteq 0 .. (u + 1) - 1 /\ u \in 0 .. (u + 1) - 1 OBVIOUS
<1>2. Outs(u, j) \subseteq Outs(u + 1, j) /\ [what |-> "object", chunk |-> u, end |-> EndOf(u, j)] \in Outs(u + 1, j)
  BY <1>1, Zenon DEF Outs
<1>3. QED BY <1>2 DEF Frames

LEMMA FollowsMore ==
  ASSUME NEW j, NEW u \in Nat
  PROVE  /\ \A s : Follows(s, u, j) => Follows(s, u + 1, j)
         /\ \A f : Proper(f, u, j) => Proper(f, u + 1, j)
<1>1. \A f : Proper(f, u, j) => Proper(f, u + 1, j) BY DEF Proper, Genuine
<1>2. ASSUME NEW s, Follows(s, u, j) PROVE Follows(s, u + 1, j)
  <2>1. s.recv \in Nat /\ Kind(s.win, s.recv, u) BY <1>2 DEF Follows
  <2>2. Kind(s.win, s.recv, u + 1)
    <3>1. s.win \in Seq(Cell) /\ s.win # <<>> BY <2>1 DEF Kind
    <3>2. ASSUME NEW i \in DOMAIN s.win
          PROVE  s.win[i].seq = s.recv + i - 1 /\ (s.win[i].got = -1 \/ (s.win[i].got = s.win[i].seq /\ s.win[i].seq < u + 1))
      <4>1. s.win[i].seq = s.recv + i - 1 /\ (s.win[i].got = -1 \/ (s.win[i].got = s.win[i].seq /\ s.win[i].seq < u))
        BY <2>1 DEF Kind
      <4>2. s.recv + i - 1 \in Int BY <2>1, <3>1
      <4>3. QED BY <4>1, <4>2
    <3>3. QED BY <3>1, <3>2 DEF Kind
  <2>3. QED BY <1>2, <2>2 DEF Follows
<1>3. QED BY <1>1, <1>2

\* A tool whose loop is over
Ceased(s, upto, j) ==
  /\ DOMAIN s = GetFields /\ s.running = FALSE /\ s.retry \in 0 .. MaxRetry /\ s.ng \in BOOLEAN
  /\ s.recv \in Nat /\ s.file = Begun(s.recv) /\ Kind(s.win, s.recv, upto)
  /\ s.tool = "cefgetfile" /\ s.ng = FALSE => s.recv = Wanted(j)

\* What a tool that retrieves a file has of the frames that it read, and what it is
\* between two rounds of its main loop, when that is written
Has(s, upto, j) ==
  /\ Follows(s, upto, j) \/ GaveUp(s, upto)
  /\ s.ask = {} /\ s.ng \in BOOLEAN /\ (s.frame.what = "none" \/ Proper(s.frame, upto, j))
Between(r, upto, j) == (Follows(r, upto, j) /\ r.write = FALSE) \/ Ceased(r, upto, j)
Wrote(s, r, upto, j) ==
  /\ Between(r, upto, j)
  /\ Same(s, r) /\ r.frame = s.frame /\ r.ng = s.ng /\ r.ask \subseteq 0 .. ChunkMax
AfterWrite(s) == IF s.write THEN T!WriteHead(s, T!Count(s)) ELSE s

\* The write loop of cefgetfile and cefgetstream: the tool goes on, or it is over.
LEMMA WrittenFollows ==
  ASSUME NEW j, JobIs(j), NEW upto, Reach(upto, j), NEW s, Has(s, upto, j), NEW r, r = AfterWrite(s)
  PROVE  Wrote(s, r, upto, j)
<1>1. Same(s, s) /\ s.ask = {} /\ s.ng \in BOOLEAN BY DEF Same, Has
<1>2. CASE GaveUp(s, upto)
  <2>1. s.write = FALSE /\ Ceased(s, upto, j) BY <1>1, <1>2 DEF GaveUp, Ceased
  <2>2. r = s BY <2>1 DEF AfterWrite
  <2>3. QED BY <1>1, <2>1, <2>2 DEF Wrote, Between
<1>3. CASE Follows(s, upto, j)
  <2>1. s.write \in BOOLEAN BY <1>3 DEF Follows
  <2>2. CASE s.write = FALSE
    <3>1. r = s BY <2>2 DEF AfterWrite
    <3>2. QED BY <1>1, <1>3, <2>2, <3>1 DEF Wrote, Between
  <2>3. CASE s.write = TRUE
    <3>1. r = T!WriteHead(s, T!Count(s)) BY <2>3 DEF AfterWrite
    <3>2. /\ Follows(r, upto, j) \/ Stopped(r, upto, j)
          /\ Same(s, r) /\ r.frame = s.frame /\ r.ng = s.ng /\ r.write = FALSE /\ r.ask \subseteq 0 .. ChunkMax
      BY <1>3, <2>3, <3>1, WriteFollows
    <3>3. Stopped(r, upto, j) => Ceased(r, upto, j) BY <1>1, <3>2 DEF Stopped, Ceased
    <3>4. QED BY <3>2, <3>3 DEF Wrote, Between
  <2>4. QED BY <2>1, <2>2, <2>3
<1>4. QED BY <1>2, <1>3 DEF Has

\* The main loop comes round, if the tool still runs.
Rounds(r) == [r EXCEPT !.at = IF r.running THEN "loop" ELSE "end", !.ask = {}, !.split = @ \/ cut']

LEMMA KindTyped ==
  ASSUME NEW win, NEW r, NEW upto, Kind(win, r, upto)
  PROVE  \A i \in DOMAIN win : win[i].got = -1 \/ win[i].got = win[i].seq
BY DEF Kind

LEMMA FollowsSome ==
  ASSUME NEW s, NEW t, NEW upto, NEW j, Follows(s, upto, j), DOMAIN t = GetFields, t.running = s.running,
         t.write = s.write, t.retry = s.retry, t.recv = s.recv, t.file = s.file, t.win = s.win, t.end = s.end,
         t.tool = s.tool
  PROVE  Follows(t, upto, j)
BY DEF Follows, EndKnown

\* What a file's next round finds is what the invariant says.
LEMMA RoundOfFile ==
  ASSUME JobIs(task), NEW r, Between(r, put.sent, task), IsFile(r), r.frame.what = "none" \/ Proper(r.frame, put.sent, task),
         r.sg \in BOOLEAN, r.split \in BOOLEAN, r.ng \in BOOLEAN, r.signal \in BOOLEAN, r.kept \in BOOLEAN, cut' \in BOOLEAN,
         NEW t, t = Rounds(r)
  PROVE  /\ Tool(t) /\ OfFile(t) /\ IsFile(t) /\ t.at \in {"loop", "end"}
         /\ t.split = (r.split \/ cut')
<1>1. DOMAIN r = GetFields /\ r.running \in BOOLEAN BY DEF Between, Follows, Ceased
<1>2. /\ DOMAIN t = GetFields /\ t.at = (IF r.running THEN "loop" ELSE "end") /\ t.ask = {} /\ t.split = (r.split \/ cut')
      /\ t.tool = r.tool /\ t.sg = r.sg /\ t.tries = r.tries /\ t.win = r.win /\ t.frame = r.frame /\ t.file = r.file
      /\ t.recv = r.recv /\ t.end = r.end /\ t.running = r.running /\ t.write = r.write /\ t.ng = r.ng
      /\ t.retry = r.retry /\ t.kept = r.kept /\ t.signal = r.signal
  BY <1>1 DEF Rounds, GetFields
<1>3. t.at \in {"loop", "end"} /\ t.split \in BOOLEAN BY <1>1, <1>2
<1>4. Kind(r.win, r.recv, put.sent) /\ r.retry \in 0 .. MaxRetry BY DEF Between, Follows, Ceased
<1>5. \A i \in DOMAIN t.win : t.win[i].got = -1 \/ t.win[i].got = t.win[i].seq
  <2>1. PICK w : w = r.win OBVIOUS
  <2>2. \A i \in DOMAIN w : w[i].got = -1 \/ w[i].got = w[i].seq BY <1>4, <2>1, KindTyped
  <2>3. QED BY <1>2, <2>1, <2>2
<1>6. Tool(t) BY <1>2, <1>3, <1>4, <1>5 DEF Tool
<1>7. CASE Follows(r, put.sent, task) /\ r.write = FALSE
  <2>1. r.running = TRUE BY <1>7 DEF Follows
  <2>2. t.at = "loop" BY <1>2, <2>1
  <2>3. Follows(t, put.sent, task) BY <1>2, <1>7, FollowsSome
  <2>4. QED BY <1>2, <1>3, <1>6, <1>7, <2>2, <2>3 DEF OfFile, Reads, IsFile
<1>8. CASE Ceased(r, put.sent, task)
  <2>1. t.at = "end" BY <1>2, <1>8 DEF Ceased
  <2>2. HasRead(t) BY <1>2, <1>8 DEF Ceased, HasRead
  <2>3. QED BY <1>2, <1>3, <1>6, <2>1, <2>2 DEF OfFile, IsFile
<1>9. QED BY <1>7, <1>8 DEF Between

\* A frame that is taken again
Took(s, t, upto, j) == Has(t, upto, j) /\ Same(s, t) /\ t.frame = s.frame
ToldOff(s, upto, j) == s.frame.what = "return" /\ Follows(s, upto, j) => s.write = FALSE
LEMMA AgainOfFile ==
  ASSUME NEW j, JobIs(j), NEW upto, Reach(upto, j), NEW s, Has(s, upto, j), IsFile(s), ToldOff(s, upto, j),
         NEW t, t = T!TakeAgain(s)
  PROVE  Took(s, t, upto, j)
<1>1. Same(s, s) BY DEF Same
<1>2. CASE s.frame.what = "none"
  <2>1. t = s BY <1>2 DEF T!TakeAgain
  <2>2. QED BY <1>1, <2>1 DEF Took
<1>3. CASE s.frame.what # "none"
  <2>1. PICK f : f = s.frame OBVIOUS
  <2>2. t = T!Take(s, f) /\ Proper(f, upto, j) BY <1>3, <2>1 DEF T!TakeAgain, Has
  <2>3. CASE GaveUp(s, upto)
    <3>1. t = s BY <2>2, <2>3 DEF GaveUp, T!Take
    <3>2. QED BY <1>1, <3>1 DEF Took
  <2>4. CASE Follows(s, upto, j)
    <3>1. s.tool # "cefgetchunk" /\ s.sg = FALSE BY DEF IsFile
    <3>2. Taken(s, t, f, upto, j) BY <2>2, <2>4, <3>1, TakeOfFile
    <3>3. QED BY <1>3, <2>1, <2>2, <2>4, <3>2 DEF Taken, Took, Has, ToldOff
  <2>5. QED BY <2>3, <2>4 DEF Has
<1>4. QED BY <1>2, <1>3

\* What a read leaves of the frames that are under way
LEMMA ReadLeaves ==
  ASSUME ToolsInv, NEW part \in BOOLEAN,
         T!ReadFrame(part) \/ \E n \in 0 .. Len(frames) : T!ReadPart(n, part)
  PROVE  /\ get.at = "loop" /\ UNCHANGED <<task, put>> /\ frames' \in Seq(Frames(put.sent, task))
         /\ cut' = part /\ (cut' => frames' # <<>>)
<1>1. frames \in Seq(Frames(put.sent, task)) BY DEF ToolsInv, Way
<1>2. CASE T!ReadFrame(part)
  <2>1. /\ get.at = "loop" /\ frames # <<>> /\ (part => Len(frames) > 1) /\ frames' = Tail(frames) /\ cut' = part
        /\ UNCHANGED <<task, put>>
    BY <1>2 DEF T!ReadFrame
  <2>2. Tail(frames) \in Seq(Frames(put.sent, task)) /\ Len(Tail(frames)) = Len(frames) - 1 BY <1>1, <2>1
  <2>3. part => Tail(frames) # <<>>
    <3>1. PICK q, l : q = Tail(frames) /\ l = Len(frames) OBVIOUS
    <3>2. l \in Nat /\ Len(q) = l - 1 /\ (part => l > 1) BY <1>1, <2>1, <2>2, <3>1
    <3>3. part => Len(q) # 0 BY <3>2
    <3>4. QED BY <3>1, <3>3
  <2>4. QED BY <2>1, <2>2, <2>3
<1>3. CASE \E n \in 0 .. Len(frames) : T!ReadPart(n, part)
  <2>1. PICK n \in 0 .. Len(frames) : T!ReadPart(n, part) BY <1>3
  <2>2. /\ get.at = "loop" /\ n + (IF part THEN 1 ELSE 0) \in 1 .. Len(frames)
        /\ frames' = SubSeq(frames, n + 1, Len(frames)) /\ cut' = part /\ UNCHANGED <<task, put>>
    BY <2>1 DEF T!ReadPart
  <2>3. PICK l, q : l = Len(frames) /\ q = SubSeq(frames, n + 1, l) OBVIOUS
  <2>4. l \in Nat /\ n \in Nat /\ n <= l /\ n + 1 \in 1 .. l + 1 BY <1>1, <2>3
  <2>5. /\ q \in Seq(Frames(put.sent, task))
        /\ Len(q) = IF n + 1 <= l THEN l - (n + 1) + 1 ELSE 0
    BY <1>1, <2>3, <2>4, SubSeqProperties
  <2>6. part => q # <<>>
    <3>1. part => n + 1 <= l BY <2>2, <2>3
    <3>2. part => Len(q) # 0 BY <2>4, <2>5, <3>1
    <3>3. QED BY <3>2
  <2>7. QED BY <2>2, <2>3, <2>5, <2>6
<1>4. QED BY <1>2, <1>3

\* What a tool has of its frames becomes its next state.
LEMMA AfterIs ==
  ASSUME ToolsInv, NEW s, T!AfterFrames(s), NEW r, r = AfterWrite(s)
  PROVE  get' = Rounds(r) /\ node' = [node EXCEPT !.asked = @ \cup r.ask]
BY DEF T!AfterFrames, Rounds, AfterWrite

LEMMA StillNetwork ==
  ASSUME ToolsInv, UNCHANGED <<task, put>>, NEW a, a \subseteq 0 .. ChunkMax, node' = [node EXCEPT !.asked = @ \cup a]
  PROVE  Publishes' /\ Network' /\ node'.asked = node.asked \cup a
<1>1. DOMAIN node = {"listens", "store", "asked", "sub"} /\ Network BY DEF ToolsInv, Network
<1>2. DOMAIN node' = DOMAIN node /\ node'.asked = node.asked \cup a /\ node'.store = node.store BY <1>1
<1>3. Publishes' BY DEF ToolsInv, Publishes
<1>4. Network' BY <1>1, <1>2 DEF Network
<1>5. QED BY <1>2, <1>3, <1>4

LEMMA JobOf ==
  ASSUME ToolsInv
  PROVE  JobIs(task) /\ Reach(put.sent, task) /\ JobAssumption(task)
<1>1. task \in Jobs /\ Reach(put.sent, task) BY DEF ToolsInv, Publishes
<1>2. JobAssumption(task) BY <1>1, ClientAssumption DEF ClientAssumption
<1>3. JobIs(task) BY <1>2 DEF JobIs, JobAssumption
<1>4. QED BY <1>1, <1>2, <1>3

LEMMA ReadHas ==
  ASSUME ToolsInv, get.at = "loop", IsFile(get), NEW part \in BOOLEAN,
         T!ReadFrame(part) \/ \E n \in 0 .. Len(frames) : T!ReadPart(n, part)
  PROVE  \E s : T!AfterFrames(s) /\ Has(s, put.sent, task) /\ Same(get, s)
<1>1. JobIs(task) /\ Reach(put.sent, task) BY JobOf
<1>2. Follows(get, put.sent, task) /\ get.write = FALSE BY DEF ToolsInv, OfFile, Reads
<1>3. Has(get, put.sent, task) BY <1>2 DEF ToolsInv, Tool, Has
<1>4. CASE T!ReadFrame(part)
  <2>1. PICK f, a, s : f = Head(frames) /\ a = T!Take(get, f) /\ s = T!Behind(a, part) OBVIOUS
  <2>2. frames # <<>> /\ T!AfterFrames(s) BY <1>4, <2>1 DEF T!ReadFrame
  <2>3. Proper(f, put.sent, task)
    <3>1. frames \in Seq(Frames(put.sent, task)) BY DEF ToolsInv, Way
    <3>2. f \in Frames(put.sent, task) BY <2>1, <2>2, <3>1
    <3>3. QED BY <1>1, <3>2, OutsAre
  <2>4. Taken(get, a, f, put.sent, task) BY <1>1, <1>2, <2>1, <2>3, TakeOfFile DEF IsFile
  <2>5. Has(a, put.sent, task) /\ Same(get, a) /\ a.frame = f /\ (f.what = "return" => GaveUp(a, put.sent))
    BY <1>2, <1>3, <2>3, <2>4 DEF Taken, Has
  <2>6. CASE part = FALSE
    <3>1. s = a BY <2>1, <2>6 DEF T!Behind
    <3>2. QED BY <2>2, <2>5, <3>1
  <2>7. CASE part = TRUE
    <3>1. s = T!TakeAgain(a) BY <2>1, <2>7 DEF T!Behind
    <3>2. IsFile(a) BY <2>5 DEF Same, IsFile
    <3>3. ToldOff(a, put.sent, task) BY <2>5 DEF GaveUp, ToldOff
    <3>4. Took(a, s, put.sent, task) BY <1>1, <2>5, <3>1, <3>2, <3>3, AgainOfFile
    <3>5. Has(s, put.sent, task) /\ Same(get, s) BY <2>5, <3>4 DEF Took, Same
    <3>6. QED BY <2>2, <3>5
  <2>8. QED BY <2>6, <2>7
<1>5. CASE \E n \in 0 .. Len(frames) : T!ReadPart(n, part)
  <2>1. PICK s : s = T!TakeAgain(get) OBVIOUS
  <2>2. T!AfterFrames(s) BY <1>5, <2>1 DEF T!ReadPart
  <2>3. ToldOff(get, put.sent, task) BY <1>2 DEF ToldOff
  <2>4. Took(get, s, put.sent, task) BY <1>1, <1>3, <2>1, <2>3, AgainOfFile
  <2>5. QED BY <2>2, <2>4 DEF Took
<1>6. QED BY <1>4, <1>5

LEMMA ReadOfFile ==
  ASSUME ToolsInv, get.at = "loop", IsFile(get), NEW part \in BOOLEAN,
         T!ReadFrame(part) \/ \E n \in 0 .. Len(frames) : T!ReadPart(n, part)
  PROVE  ToolsInv'
<1>1. JobIs(task) /\ Reach(put.sent, task) BY JobOf
<1>2. /\ UNCHANGED <<task, put>> /\ frames' \in Seq(Frames(put.sent, task))
      /\ cut' = part /\ (cut' => frames' # <<>>)
  BY ReadLeaves
<1>3. PICK s : T!AfterFrames(s) /\ Has(s, put.sent, task) /\ Same(get, s) BY ReadHas
<1>4. PICK r : r = AfterWrite(s) OBVIOUS
<1>5. get' = Rounds(r) /\ node' = [node EXCEPT !.asked = @ \cup r.ask] BY <1>3, <1>4, AfterIs
<1>6. Wrote(s, r, put.sent, task) BY <1>1, <1>3, <1>4, WrittenFollows
<1>7. Publishes' /\ Network' BY <1>2, <1>5, <1>6, StillNetwork DEF Wrote
<1>8. /\ IsFile(r) /\ r.sg \in BOOLEAN /\ r.split \in BOOLEAN /\ r.ng \in BOOLEAN /\ r.signal \in BOOLEAN /\ r.kept \in BOOLEAN
      /\ r.split = get.split /\ (r.frame.what = "none" \/ Proper(r.frame, put.sent, task))
  BY <1>3, <1>6 DEF Has, Wrote, Same, IsFile, ToolsInv, Tool
<1>9. PICK t : t = Rounds(r) OBVIOUS
<1>10. Tool(t) /\ OfFile(t) /\ IsFile(t) /\ t.at \in {"loop", "end"} /\ t.split = (r.split \/ cut')
  BY <1>1, <1>2, <1>6, <1>8, <1>9, RoundOfFile DEF Wrote
<1>11. get' = t BY <1>5, <1>9
<1>12. Tool(get)' BY <1>2, <1>10, <1>11 DEF Tool
<1>13. OfFile(get)' BY <1>2, <1>10, <1>11 DEF OfFile, Reads, HasRead
<1>14. Early(get)' /\ KeptIs(get)' BY <1>10, <1>11 DEF Early, KeptIs
<1>15. OfChunk(get)' /\ OfStream(get)' BY <1>10, <1>11 DEF OfChunk, OfStream, IsFile
<1>16. Way(get)'
  <2>1. cut' => t.split = TRUE BY <1>2, <1>8, <1>10
  <2>2. QED BY <1>2, <1>11, <2>1 DEF Way
<1>17. QED BY <1>7, <1>12, <1>13, <1>14, <1>15, <1>16 DEF ToolsInv

-----------------------------------------------------------------------------
(* Chunks and streams: there is no window.                                 *)

\* A tool in the course of a read
Plain(s, upto, j) ==
  /\ DOMAIN s = GetFields /\ s.retry \in 0 .. MaxRetry /\ s.ask = {} /\ s.running \in BOOLEAN /\ s.write = FALSE
  /\ s.ng \in BOOLEAN /\ (s.frame.what = "none" \/ Proper(s.frame, upto, j))
  /\ \A i \in DOMAIN s.win : s.win[i].got = -1 \/ s.win[i].got = s.win[i].seq
Fields(s, t) ==
  /\ DOMAIN t = GetFields /\ t.ask = {} /\ t.at = (IF s.running THEN "loop" ELSE "end") /\ t.split = (s.split \/ cut')
  /\ t.tool = s.tool /\ t.sg = s.sg /\ t.win = s.win /\ t.frame = s.frame /\ t.file = s.file
  /\ t.recv = s.recv /\ t.running = s.running /\ t.write = s.write /\ t.ng = s.ng
  /\ t.retry = s.retry /\ t.kept = s.kept /\ t.signal = s.signal

LEMMA RoundPlain ==
  ASSUME NEW s, DOMAIN s = GetFields, NEW t, t = Rounds(s)
  PROVE  Fields(s, t)
BY DEF Rounds, Fields, GetFields

LEMMA RoundOfRest ==
  ASSUME ToolsInv, UNCHANGED <<task, put>>, cut' \in BOOLEAN, NEW s, Plain(s, put.sent, task), Same(get, s), T!AfterFrames(s)
  PROVE  Fields(s, get') /\ Tool(get)' /\ Publishes' /\ Network' /\ node'.asked = node.asked
<1>1. PICK r : r = AfterWrite(s) OBVIOUS
<1>2. r = s BY <1>1 DEF AfterWrite, Plain
<1>3. get' = Rounds(s) /\ node' = [node EXCEPT !.asked = @ \cup s.ask] BY <1>1, <1>2, AfterIs
<1>4. DOMAIN s = GetFields /\ s.ask = {} BY DEF Plain
<1>5. Fields(s, get') BY <1>3, <1>4, RoundPlain
<1>6. s.ask \subseteq 0 .. ChunkMax BY <1>4
<1>7. Publishes' /\ Network' /\ node'.asked = node.asked \cup s.ask BY <1>3, <1>6, StillNetwork
<1>8. s.sg \in BOOLEAN /\ s.split \in BOOLEAN /\ s.signal \in BOOLEAN /\ s.kept \in BOOLEAN BY DEF Same, ToolsInv, Tool
<1>9. PICK t : t = get' OBVIOUS
<1>10. t.at \in {"loop", "end"} /\ t.split \in BOOLEAN BY <1>5, <1>8, <1>9 DEF Fields, Plain
<1>11. Tool(t) BY <1>5, <1>8, <1>9, <1>10 DEF Fields, Plain, Tool
<1>12. Tool(get)' BY <1>9, <1>11 DEF Tool
<1>13. QED BY <1>4, <1>5, <1>7, <1>12

\* What a tool has of a chunk: the first frame is its answer.
ChunkHas(s, upto, j) ==
  /\ Plain(s, upto, j) /\ s.tool = "cefgetchunk"
  /\ s.file \in Seq(Nat) /\ Len(s.file) <= 1 /\ (s.running = TRUE => s.file = <<>>)

LEMMA TakeOfChunk ==
  ASSUME NEW j, JobIs(j), NEW upto, Reach(upto, j), NEW s, ChunkHas(s, upto, j), NEW f, Proper(f, upto, j), NEW t, t = T!Take(s, f)
  PROVE  ChunkHas(t, upto, j) /\ Same(s, t)
<1>1. Same(s, s) BY DEF Same
<1>2. DOMAIN s = GetFields /\ s.running \in BOOLEAN /\ s.tool = "cefgetchunk" BY DEF ChunkHas, Plain
<1>3. CASE s.running = FALSE
  <2>1. t = s BY <1>3 DEF T!Take
  <2>2. QED BY <1>1, <2>1
<1>4. CASE s.running = TRUE /\ f.what = "return"
  <2>1. t = [[s EXCEPT !.frame = f] EXCEPT !.running = FALSE, !.ng = s.tool = "cefgetfile"] BY <1>4 DEF T!Take
  <2>2. t = [s EXCEPT !.frame = f, !.running = FALSE, !.ng = FALSE] BY <1>2, <2>1
  <2>3. /\ DOMAIN t = GetFields /\ t.frame = f /\ t.running = FALSE /\ t.ng = FALSE /\ t.retry = s.retry /\ t.ask = s.ask
        /\ t.write = s.write /\ t.win = s.win /\ t.tool = s.tool /\ t.file = s.file
    BY <1>2, <2>2 DEF GetFields
  <2>4. Same(s, t) BY <1>2, <2>2 DEF GetFields, Same
  <2>5. QED BY <2>3, <2>4 DEF ChunkHas, Plain
<1>5. CASE s.running = TRUE /\ f.what # "return"
  <2>1. f.what = "object" /\ f.chunk \in Nat BY <1>5 DEF Proper, Genuine
  <2>2. PICK u : u = [s EXCEPT !.frame = f] OBVIOUS
  <2>3. t = T!TakeOne(u, f) BY <1>2, <1>5, <2>1, <2>2 DEF T!Take
  <2>4. PICK x : x = IF f.chunk = T!Value(task.args, "-c", 0) THEN Append(s.file, f.chunk) ELSE s.file OBVIOUS
  <2>5. DOMAIN u = GetFields /\ u.file = s.file BY <1>2, <2>2 DEF GetFields
  <2>6. t = [u EXCEPT !.running = FALSE, !.recv = 1, !.file = x] BY <2>3, <2>4, <2>5 DEF T!TakeOne, GetFields
  <2>7. /\ DOMAIN t = GetFields /\ t.frame = f /\ t.running = FALSE /\ t.ng = s.ng /\ t.retry = s.retry /\ t.ask = s.ask
        /\ t.write = s.write /\ t.win = s.win /\ t.tool = s.tool /\ t.file = x
    BY <1>2, <2>2, <2>6 DEF GetFields
  <2>8. Same(s, t) BY <1>2, <2>2, <2>6 DEF GetFields, Same
  <2>9. x \in Seq(Nat) /\ Len(x) <= 1
    <3>1. s.file = <<>> BY <1>5 DEF ChunkHas
    <3>2. QED BY <2>1, <2>4, <3>1
  <2>10. QED BY <2>7, <2>8, <2>9 DEF ChunkHas, Plain
<1>6. QED BY <1>2, <1>3, <1>4, <1>5

LEMMA AgainOfChunk ==
  ASSUME NEW j, JobIs(j), NEW upto, Reach(upto, j), NEW s, ChunkHas(s, upto, j), NEW t, t = T!TakeAgain(s)
  PROVE  ChunkHas(t, upto, j) /\ Same(s, t)
<1>1. Same(s, s) BY DEF Same
<1>2. CASE s.frame.what = "none" BY <1>1, <1>2 DEF T!TakeAgain
<1>3. CASE s.frame.what # "none"
  <2>1. PICK f : f = s.frame OBVIOUS
  <2>2. t = T!Take(s, f) /\ Proper(f, upto, j) BY <1>3, <2>1 DEF T!TakeAgain, ChunkHas, Plain
  <2>3. QED BY <2>2, TakeOfChunk
<1>4. QED BY <1>2, <1>3

LEMMA HeadIs ==
  ASSUME ToolsInv, frames # <<>>
  PROVE  Head(frames) \in Frames(put.sent, task) /\ Proper(Head(frames), put.sent, task)
<1>1. frames \in Seq(Frames(put.sent, task)) BY DEF ToolsInv, Way
<1>2. PICK f : f = Head(frames) OBVIOUS
<1>3. f \in Frames(put.sent, task) BY <1>1, <1>2
<1>4. Proper(f, put.sent, task) BY <1>3, JobOf, OutsAre
<1>5. QED BY <1>2, <1>3, <1>4

LEMMA ReadOfChunk ==
  ASSUME ToolsInv, get.at = "loop", get.tool = "cefgetchunk", NEW part \in BOOLEAN,
         T!ReadFrame(part) \/ \E n \in 0 .. Len(frames) : T!ReadPart(n, part)
  PROVE  ToolsInv'
<1>1. JobIs(task) /\ Reach(put.sent, task) BY JobOf
<1>2. /\ UNCHANGED <<task, put>> /\ frames' \in Seq(Frames(put.sent, task))
      /\ cut' = part /\ (cut' => frames' # <<>>)
  BY ReadLeaves
<1>3. ChunkHas(get, put.sent, task) BY DEF ToolsInv, Tool, OfChunk, Lonely, ChunkHas, Plain
<1>4. \E s : T!AfterFrames(s) /\ ChunkHas(s, put.sent, task) /\ Same(get, s)
  <2>1. CASE T!ReadFrame(part)
    <3>1. PICK f, a, s : f = Head(frames) /\ a = T!Take(get, f) /\ s = T!Behind(a, part) OBVIOUS
    <3>2. frames # <<>> /\ T!AfterFrames(s) BY <2>1, <3>1 DEF T!ReadFrame
    <3>3. Proper(f, put.sent, task) BY <3>1, <3>2, HeadIs
    <3>4. ChunkHas(a, put.sent, task) /\ Same(get, a) BY <1>1, <1>3, <3>1, <3>3, TakeOfChunk
    <3>5. CASE part = FALSE
      <4>1. s = a BY <3>1, <3>5 DEF T!Behind
      <4>2. QED BY <3>2, <3>4, <4>1
    <3>6. CASE part = TRUE
      <4>1. s = T!TakeAgain(a) BY <3>1, <3>6 DEF T!Behind
      <4>2. ChunkHas(s, put.sent, task) /\ Same(a, s) BY <1>1, <3>4, <4>1, AgainOfChunk
      <4>3. Same(get, s) BY <3>4, <4>2 DEF Same
      <4>4. QED BY <3>2, <4>2, <4>3
    <3>7. QED BY <3>5, <3>6
  <2>2. CASE \E n \in 0 .. Len(frames) : T!ReadPart(n, part)
    <3>1. PICK s : s = T!TakeAgain(get) OBVIOUS
    <3>2. T!AfterFrames(s) BY <2>2, <3>1 DEF T!ReadPart
    <3>3. ChunkHas(s, put.sent, task) /\ Same(get, s) BY <1>1, <1>3, <3>1, AgainOfChunk
    <3>4. QED BY <3>2, <3>3
  <2>3. QED BY <2>1, <2>2
<1>5. PICK s : T!AfterFrames(s) /\ ChunkHas(s, put.sent, task) /\ Same(get, s) BY <1>4
<1>6. Fields(s, get') /\ Tool(get)' /\ Publishes' /\ Network'
  BY <1>2, <1>5, RoundOfRest DEF ChunkHas
<1>7. PICK t : t = get' OBVIOUS
<1>8. t.tool = "cefgetchunk" /\ t.at \in {"loop", "end"} /\ (t.split = (s.split \/ cut')) /\ s.split = get.split
  BY <1>5, <1>6, <1>7 DEF Fields, ChunkHas, Plain, Same
<1>9. OfChunk(t) BY <1>5, <1>6, <1>7 DEF Fields, ChunkHas, Plain, OfChunk, Lonely
<1>10. OfChunk(get)' BY <1>7, <1>9 DEF OfChunk, Lonely
<1>11. Early(get)' /\ KeptIs(get)' /\ OfFile(get)' /\ OfStream(get)' BY <1>7, <1>8 DEF Early, KeptIs, OfFile, IsFile, OfStream
<1>12. Way(get)'
  <2>1. cut' => t.split = TRUE BY <1>2, <1>8 DEF ToolsInv, Tool
  <2>2. QED BY <1>2, <1>7, <2>1 DEF Way
<1>13. QED BY <1>6, <1>10, <1>11, <1>12 DEF ToolsInv

\* What a tool has of a stream; p: a read ended within a frame.
FlowHas(s, p, upto, j) ==
  /\ Plain(s, upto, j) /\ s.running = TRUE /\ s.tool # "cefgetchunk" /\ s.sg = TRUE
  /\ s.recv \in Nat /\ s.file \in Seq(Nat) /\ Rising(s.file, p) /\ Behindhand(s) /\ s.frame.what # "return"
Later(s, p, f) == s.frame.what = "object" => s.frame.chunk < f.chunk \/ (p = TRUE /\ s.frame.chunk <= f.chunk)

Below(x, p, c) == \A i \in DOMAIN x : x[i] < c \/ (p = TRUE /\ x[i] = c)
RisesTo(x, y, p, c) == y \in Seq(Nat) /\ Rising(y, p) /\ \A i \in DOMAIN y : (i \in DOMAIN x /\ y[i] = x[i]) \/ y[i] = c

LEMMA RisingMore ==
  ASSUME NEW x, x \in Seq(Nat), NEW p, Rising(x, p), NEW c \in Nat, Below(x, p, c), NEW y, y = Append(x, c)
  PROVE  RisesTo(x, y, p, c)
<1>1. PICK l : l = Len(x) OBVIOUS
<1>2. l \in Nat /\ DOMAIN x = 1 .. l BY <1>1
<1>3. y \in Seq(Nat) /\ Len(y) = l + 1 /\ DOMAIN y = 1 .. l + 1 BY <1>1
<1>4. y[l + 1] = c /\ \A i \in 1 .. l : y[i] = x[i] BY <1>1, <1>2
<1>5. ASSUME NEW i \in DOMAIN y, NEW k \in DOMAIN y, i < k
      PROVE  y[i] < y[k] \/ (p = TRUE /\ y[i] = y[k])
  <2>1. i \in 1 .. l BY <1>2, <1>3, <1>5
  <2>2. CASE k = l + 1 BY <1>2, <1>4, <2>1, <2>2 DEF Below
  <2>3. CASE k # l + 1
    <3>1. k \in 1 .. l BY <1>2, <1>3, <2>3
    <3>2. x[i] < x[k] \/ (p = TRUE /\ x[i] = x[k]) BY <1>2, <1>5, <2>1, <3>1 DEF Rising
    <3>3. QED BY <1>4, <2>1, <3>1, <3>2
  <2>4. QED BY <2>2, <2>3
<1>6. ASSUME NEW i \in DOMAIN y PROVE (i \in DOMAIN x /\ y[i] = x[i]) \/ y[i] = c
  <2>1. CASE i = l + 1 BY <1>4, <2>1
  <2>2. CASE i # l + 1
    <3>1. i \in 1 .. l BY <1>2, <1>3, <2>2
    <3>2. QED BY <1>2, <1>4, <3>1
  <2>3. QED BY <2>1, <2>2
<1>7. Rising(y, p) BY <1>5 DEF Rising
<1>8. QED BY <1>3, <1>6, <1>7 DEF RisesTo

LEMMA TakeOfStream ==
  ASSUME NEW j, JobIs(j), NEW upto, Reach(upto, j), NEW p, NEW s, FlowHas(s, p, upto, j),
         NEW f, Genuine(f, upto, j), Later(s, p, f), NEW t, t = T!Take(s, f)
  PROVE  FlowHas(t, p, upto, j) /\ Same(s, t) /\ t.frame = f
<1>1. PICK u : u = [s EXCEPT !.frame = f] OBVIOUS
<1>2. DOMAIN s = GetFields /\ s.running = TRUE /\ s.tool # "cefgetchunk" /\ s.sg = TRUE BY DEF FlowHas, Plain
<1>3. f.what = "object" /\ f.chunk \in Nat BY DEF Genuine
<1>4. t = T!TakeStream(u, f)
  <2>1. s.running /\ s.sg /\ f.what # "return" BY <1>2, <1>3
  <2>2. QED BY <1>1, <1>2, <1>3, <2>1 DEF T!Take
<1>5. DOMAIN u = GetFields /\ u.file = s.file /\ u.recv = s.recv BY <1>1, <1>2 DEF GetFields
<1>6. PICK x : t = [u EXCEPT !.recv = s.recv + 1, !.file = x] /\ (x = s.file \/ x = Append(s.file, f.chunk))
  <2>1. PICK b : t = [u EXCEPT !.recv = s.recv + 1, !.file = IF b THEN Append(@, f.chunk) ELSE @]
    BY <1>4, <1>5 DEF T!TakeStream
  <2>2. t = [u EXCEPT !.recv = s.recv + 1, !.file = IF b THEN Append(s.file, f.chunk) ELSE s.file]
    BY <1>5, <2>1 DEF GetFields
  <2>3. PICK x : x = IF b THEN Append(s.file, f.chunk) ELSE s.file OBVIOUS
  <2>4. x = s.file \/ x = Append(s.file, f.chunk) BY <2>3
  <2>5. QED BY <2>2, <2>3, <2>4
<1>7. /\ DOMAIN t = GetFields /\ t.frame = f /\ t.running = s.running /\ t.ng = s.ng /\ t.retry = s.retry /\ t.ask = s.ask
      /\ t.write = s.write /\ t.win = s.win /\ t.tool = s.tool /\ t.sg = s.sg /\ t.file = x /\ t.recv = s.recv + 1
  BY <1>1, <1>2, <1>6 DEF GetFields
<1>8. Same(s, t) BY <1>1, <1>2, <1>6 DEF GetFields, Same
<1>9. PICK y : y = s.file OBVIOUS
<1>10. y \in Seq(Nat) /\ Rising(y, p) BY <1>9 DEF FlowHas
<1>11. Below(y, p, f.chunk)
  <2>1. ASSUME NEW i \in DOMAIN y PROVE y[i] < f.chunk \/ (p = TRUE /\ y[i] = f.chunk)
    <3>1. s.frame.what = "object" /\ y[i] <= s.frame.chunk BY <1>9 DEF FlowHas, Behindhand
    <3>2. s.frame.chunk < f.chunk \/ (p = TRUE /\ s.frame.chunk <= f.chunk) BY <3>1 DEF Later
    <3>3. y[i] \in Nat BY <1>10
    <3>4. s.frame.chunk \in Nat BY <3>1 DEF FlowHas, Plain, Proper, Genuine
    <3>5. QED BY <1>3, <3>1, <3>2, <3>3, <3>4
  <2>2. QED BY <2>1 DEF Below
<1>12. x \in Seq(Nat) /\ Rising(x, p) /\ \A i \in DOMAIN x : x[i] <= f.chunk
  <2>1. \A i \in DOMAIN y : y[i] \in Nat BY <1>10
  <2>2. \A i \in DOMAIN y : y[i] <= f.chunk BY <1>3, <1>11, <2>1 DEF Below
  <2>3. CASE x = s.file BY <1>9, <1>10, <2>2, <2>3
  <2>4. CASE x = Append(s.file, f.chunk)
    <3>1. RisesTo(y, x, p, f.chunk) BY <1>3, <1>9, <1>10, <1>11, <2>4, RisingMore
    <3>2. QED BY <1>3, <2>2, <3>1 DEF RisesTo
  <2>5. QED BY <1>6, <2>3, <2>4
<1>13. Plain(t, upto, j) BY <1>7 DEF FlowHas, Plain, Proper
<1>14. Behindhand(t) BY <1>3, <1>7, <1>12 DEF Behindhand
<1>15. t.recv \in Nat BY <1>7 DEF FlowHas
<1>16. QED BY <1>2, <1>3, <1>7, <1>8, <1>12, <1>13, <1>14, <1>15 DEF FlowHas

LEMMA AgainOfStream ==
  ASSUME NEW j, JobIs(j), NEW upto, Reach(upto, j), NEW p, NEW s, FlowHas(s, p, upto, j), Later(s, p, s.frame),
         NEW t, t = T!TakeAgain(s)
  PROVE  FlowHas(t, p, upto, j) /\ Same(s, t) /\ t.frame = s.frame
<1>1. Same(s, s) BY DEF Same
<1>2. CASE s.frame.what = "none" BY <1>1, <1>2 DEF T!TakeAgain
<1>3. CASE s.frame.what # "none"
  <2>1. PICK f : f = s.frame OBVIOUS
  <2>2. t = T!Take(s, f) BY <1>3, <2>1 DEF T!TakeAgain
  <2>3. Genuine(f, upto, j) BY <1>3, <2>1 DEF FlowHas, Plain, Proper
  <2>4. Later(s, p, f) BY <2>1
  <2>5. FlowHas(t, p, upto, j) /\ Same(s, t) /\ t.frame = f BY <2>2, <2>3, <2>4, TakeOfStream
  <2>6. QED BY <2>1, <2>5
<1>4. QED BY <1>2, <1>3

\* What is still to come is later than what was taken.
LEMMA ComingOn ==
  ASSUME NEW S, NEW w, w \in Seq(S), NEW s, NEW t, Coming(s, w), NEW n \in Nat, n <= Len(w), NEW v, v = SubSeq(w, n + 1, Len(w)),
         t.frame = s.frame \/ (n = 1 /\ t.frame = w[1])
  PROVE  Coming(t, v)
<1>1. PICK l : l = Len(w) OBVIOUS
<1>2. l \in Nat /\ DOMAIN w = 1 .. l /\ n <= l BY <1>1
<1>3. /\ v \in Seq(S) /\ Len(v) = (IF n + 1 <= l THEN l - (n + 1) + 1 ELSE 0)
      /\ \A i \in 1 .. l - (n + 1) + 1 : v[i] = w[n + 1 + i - 1]
  <2>1. n + 1 \in 1 .. Len(w) + 1 /\ Len(w) \in Nat BY <1>1, <1>2
  <2>2. QED BY <1>1, <1>2, <2>1, SubSeqProperties
<1>4. DOMAIN v = 1 .. l - n /\ \A i \in 1 .. l - n : v[i] = w[n + i] /\ n + i \in 1 .. l
  <2>1. Len(v) = l - n BY <1>2, <1>3
  <2>2. \A i \in 1 .. l - n : n + 1 + i - 1 = n + i /\ n + i \in 1 .. l /\ i \in 1 .. l - (n + 1) + 1 BY <1>2
  <2>3. DOMAIN v = 1 .. l - n BY <1>3, <2>1
  <2>4. \A i \in 1 .. l - n : v[i] = w[n + i] BY <1>3, <2>2
  <2>5. QED BY <2>2, <2>3, <2>4
<1>5. \A i \in DOMAIN w : w[i].what = "object" /\ (s.frame.what = "object" => s.frame.chunk < w[i].chunk) BY DEF Coming
<1>6. \A i, k \in DOMAIN w : i < k => w[i].chunk < w[k].chunk BY DEF Coming
<1>7. ASSUME NEW i \in DOMAIN v, t.frame.what = "object" PROVE t.frame.chunk < v[i].chunk
  <2>1. v[i] = w[n + i] /\ n + i \in 1 .. l BY <1>4
  <2>2. CASE t.frame = s.frame BY <1>2, <1>5, <1>7, <2>1, <2>2
  <2>3. CASE n = 1 /\ t.frame = w[1]
    <3>1. 1 \in DOMAIN w /\ n + i \in DOMAIN w /\ 1 < n + i BY <1>2, <1>4, <2>1, <2>3
    <3>2. w[1].chunk < w[n + i].chunk BY <1>6, <3>1
    <3>3. QED BY <2>1, <2>3, <3>2
  <2>4. QED BY <2>2, <2>3
<1>8. \A i \in DOMAIN v : v[i].what = "object" BY <1>2, <1>4, <1>5
<1>9. ASSUME NEW i \in DOMAIN v, NEW k \in DOMAIN v, i < k PROVE v[i].chunk < v[k].chunk
  <2>1. v[i] = w[n + i] /\ n + i \in DOMAIN w /\ v[k] = w[n + k] /\ n + k \in DOMAIN w BY <1>2, <1>4
  <2>2. n + i < n + k BY <1>2, <1>4, <1>9
  <2>3. w[n + i].chunk < w[n + k].chunk BY <1>6, <2>1, <2>2
  <2>4. QED BY <2>1, <2>3
<1>10. QED BY <1>7, <1>8, <1>9 DEF Coming

LEMMA RisingBy ==
  ASSUME NEW f, NEW p, Rising(f, p), NEW q, p = TRUE => q = TRUE
  PROVE  Rising(f, q)
BY DEF Rising

\* The frames that come of a stream are its Objects, and the next is later than the last.
LEMMA HeadOfStream ==
  ASSUME ToolsInv, frames # <<>>, Coming(get, frames), NEW p
  PROVE  Genuine(Head(frames), put.sent, task) /\ Later(get, p, Head(frames))
<1>1. PICK f : f = Head(frames) OBVIOUS
<1>2. Proper(f, put.sent, task) BY <1>1, HeadIs
<1>3. frames \in Seq(Frames(put.sent, task)) BY DEF ToolsInv, Way
<1>4. 1 \in DOMAIN frames /\ frames[1] = f BY <1>1, <1>3
<1>5. f.what = "object" /\ (get.frame.what = "object" => get.frame.chunk < f.chunk) BY <1>4 DEF Coming
<1>6. QED BY <1>1, <1>2, <1>5 DEF Proper, Later

LEMMA LaterSame ==
  ASSUME NEW s, NEW p, p = TRUE, s.frame.what = "object" => s.frame.chunk \in Nat
  PROVE  Later(s, p, s.frame)
BY DEF Later

LEMMA ReadStream ==
  ASSUME ToolsInv, get.at = "loop", get.tool # "cefgetchunk", get.sg = TRUE, NEW part \in BOOLEAN, cut' = part,
         T!ReadFrame(part) \/ \E n \in 0 .. Len(frames) : T!ReadPart(n, part), NEW p, p = (get.split \/ cut')
  PROVE  \E s : T!AfterFrames(s) /\ FlowHas(s, p, put.sent, task) /\ Same(get, s) /\ Coming(s, frames')
<1>1. JobIs(task) /\ Reach(put.sent, task) BY JobOf
<1>2. Flows(get) /\ Coming(get, frames) /\ get.split \in BOOLEAN BY DEF ToolsInv, OfStream, Tool
<1>3. FlowHas(get, p, put.sent, task)
  <2>1. get.split = TRUE => p = TRUE BY <1>2
  <2>2. Rising(get.file, p) BY <1>2, <2>1, RisingBy DEF Flows
  <2>3. QED BY <1>2, <2>2 DEF FlowHas, Flows, Plain, ToolsInv, Tool
<1>4. part = TRUE => p = TRUE BY <1>2
<1>5. frames \in Seq(Frames(put.sent, task)) BY DEF ToolsInv, Way
<1>6. CASE T!ReadFrame(part)
  <2>1. PICK f, a, s : f = Head(frames) /\ a = T!Take(get, f) /\ s = T!Behind(a, part) OBVIOUS
  <2>2. frames # <<>> /\ T!AfterFrames(s) /\ frames' = Tail(frames) BY <1>6, <2>1 DEF T!ReadFrame
  <2>3. Genuine(f, put.sent, task) /\ Later(get, p, f) BY <1>2, <2>1, <2>2, HeadOfStream
  <2>4. FlowHas(a, p, put.sent, task) /\ Same(get, a) /\ a.frame = f BY <1>1, <1>3, <2>1, <2>3, TakeOfStream
  <2>5. FlowHas(s, p, put.sent, task) /\ Same(get, s) /\ s.frame = f
    <3>1. CASE part = FALSE
      <4>1. s = a BY <2>1, <3>1 DEF T!Behind
      <4>2. QED BY <2>4, <4>1
    <3>2. CASE part = TRUE
      <4>1. s = T!TakeAgain(a) BY <2>1, <3>2 DEF T!Behind
      <4>2. Later(a, p, a.frame) BY <1>4, <2>3, <2>4, <3>2, LaterSame DEF Genuine
      <4>3. FlowHas(s, p, put.sent, task) /\ Same(a, s) /\ s.frame = a.frame BY <1>1, <2>4, <4>1, <4>2, AgainOfStream
      <4>4. QED BY <2>4, <4>3 DEF Same
    <3>3. QED BY <3>1, <3>2
  <2>6. Coming(s, frames')
    <3>1. frames' = SubSeq(frames, 1 + 1, Len(frames)) BY <1>5, <2>2, TailIsSubSeq
    <3>2. 1 <= Len(frames) /\ s.frame = frames[1] BY <1>5, <2>1, <2>2, <2>5
    <3>3. PICK v : v = frames' OBVIOUS
    <3>4. Coming(s, v) BY <1>2, <1>5, <3>1, <3>2, <3>3, ComingOn
    <3>5. QED BY <3>3, <3>4
  <2>7. QED BY <2>2, <2>5, <2>6
<1>7. CASE \E n \in 0 .. Len(frames) : T!ReadPart(n, part)
  <2>1. PICK n \in 0 .. Len(frames) : T!ReadPart(n, part) BY <1>7
  <2>2. PICK s : s = T!TakeAgain(get) OBVIOUS
  <2>3. T!AfterFrames(s) /\ frames' = SubSeq(frames, n + 1, Len(frames)) /\ (cut = TRUE \/ part = TRUE)
    BY <2>1, <2>2 DEF T!ReadPart, ToolsInv, Way
  <2>4. p = TRUE BY <1>2, <1>4, <2>3 DEF ToolsInv, Way
  <2>5. get.frame.what = "object" => get.frame.chunk \in Nat BY DEF ToolsInv, Tool, Proper, Genuine
  <2>6. Later(get, p, get.frame) BY <2>4, <2>5, LaterSame
  <2>7. FlowHas(s, p, put.sent, task) /\ Same(get, s) /\ s.frame = get.frame BY <1>1, <1>3, <2>2, <2>6, AgainOfStream
  <2>8. Coming(s, frames')
    <3>1. n \in Nat /\ n <= Len(frames) BY <1>5
    <3>2. PICK v : v = frames' OBVIOUS
    <3>3. Coming(s, v) BY <1>2, <1>5, <2>3, <2>7, <3>1, <3>2, ComingOn
    <3>4. QED BY <3>2, <3>3
  <2>9. QED BY <2>3, <2>7, <2>8
<1>8. QED BY <1>6, <1>7

LEMMA ReadOfStream ==
  ASSUME ToolsInv, get.at = "loop", get.tool # "cefgetchunk", get.sg = TRUE, NEW part \in BOOLEAN,
         T!ReadFrame(part) \/ \E n \in 0 .. Len(frames) : T!ReadPart(n, part)
  PROVE  ToolsInv'
<1>1. /\ UNCHANGED <<task, put>> /\ frames' \in Seq(Frames(put.sent, task))
      /\ cut' = part /\ (cut' => frames' # <<>>)
  BY ReadLeaves
<1>2. PICK p : p = (get.split \/ cut') OBVIOUS
<1>3. PICK s : T!AfterFrames(s) /\ FlowHas(s, p, put.sent, task) /\ Same(get, s) /\ Coming(s, frames')
  BY <1>1, <1>2, ReadStream
<1>4. Fields(s, get') /\ Tool(get)' /\ Publishes' /\ Network' /\ node'.asked = node.asked
  BY <1>1, <1>3, RoundOfRest DEF FlowHas
<1>5. PICK t : t = get' OBVIOUS
<1>6. t.tool # "cefgetchunk" /\ t.sg = TRUE /\ t.at \in {"loop", "end"} /\ (t.split = (s.split \/ cut')) /\ s.split = get.split
  BY <1>3, <1>4, <1>5 DEF Fields, FlowHas, Plain, Same
<1>7. t.split = p BY <1>2, <1>6
<1>8. Flows(t) BY <1>3, <1>4, <1>5, <1>7 DEF Fields, FlowHas, Plain, Flows, Behindhand
<1>9. Coming(t, frames') BY <1>3, <1>4, <1>5 DEF Fields, Coming
<1>10. node.asked = {} BY DEF ToolsInv, OfStream
<1>11. OfStream(get)' BY <1>4, <1>5, <1>8, <1>9, <1>10 DEF OfStream, Flows, Coming, Behindhand
<1>12. Early(get)' /\ KeptIs(get)' /\ OfFile(get)' /\ OfChunk(get)' BY <1>5, <1>6 DEF Early, KeptIs, OfFile, IsFile, OfChunk
<1>13. Way(get)'
  <2>1. cut' => t.split = TRUE BY <1>1, <1>6 DEF ToolsInv, Tool
  <2>2. QED BY <1>1, <1>5, <2>1 DEF Way
<1>14. QED BY <1>4, <1>11, <1>12, <1>13 DEF ToolsInv

-----------------------------------------------------------------------------
(* The steps of the tools.                                                 *)

\* What a step that only sets get.at, and perhaps a flag, leaves alone
Kept1(s, t, x) ==
  /\ DOMAIN t = GetFields /\ t.at = x /\ t.ask = s.ask /\ t.split = s.split /\ t.tool = s.tool /\ t.sg = s.sg
  /\ t.win = s.win /\ t.frame = s.frame /\ t.file = s.file /\ t.recv = s.recv /\ t.end = s.end /\ t.running = s.running
  /\ t.write = s.write
LEMMA AtIs ==
  ASSUME NEW s, DOMAIN s = GetFields, NEW x, NEW t, t = [s EXCEPT !.at = x]
  PROVE  Kept1(s, t, x) /\ t.retry = s.retry /\ t.ng = s.ng /\ t.signal = s.signal /\ t.kept = s.kept
BY DEF Kept1, GetFields

\* cefgetchunk.c: option -c was given, and with a number.
LEMMA ChunkGiven ==
  ASSUME NEW j, JobAssumption(j), ~T!GetRefused("cefgetchunk", j.args)
  PROVE  T!Value(j.args, "-c", 0) \in 0 .. ChunkMax
<1>1. PICK a : a = j.args OBVIOUS
<1>2. ~T!GetChunkRefused(a) BY <1>1 DEF T!GetRefused
<1>3. T!Given(a, "-c") /\ ~T!Wrong(a, T!GetChunkOptions, {"uri"}, LAMBDA b : FALSE) BY <1>2 DEF T!GetChunkRefused
<1>4. \A i \in DOMAIN a : ~(a[i].val = T!Missing /\ a[i].opt \in T!GetChunkOptions) BY <1>3 DEF T!Wrong
<1>5. PICK k : k = CHOOSE i \in DOMAIN a : a[i].opt = "-c" OBVIOUS
<1>6. \E i \in DOMAIN a : a[i].opt = "-c" BY <1>3 DEF T!Given
<1>7. k \in DOMAIN a /\ a[k].opt = "-c" BY <1>5, <1>6
<1>8. T!Value(a, "-c", 0) = a[k].val BY <1>3, <1>5 DEF T!Value
<1>9. a[k].val # -2 BY <1>4, <1>7 DEF T!Missing, T!GetChunkOptions
<1>10. a[k].val <= ChunkMax /\ a[k].val \in Nat \cup {-2}
  <2>1. \A i \in DOMAIN a : a[i].val <= ChunkMax /\ (a[i].opt = "-c" => a[i].val \in Nat \cup {-2})
    BY <1>1 DEF JobAssumption
  <2>2. QED BY <1>7, <2>1
<1>11. a[k].val \in 0 .. ChunkMax BY <1>9, <1>10, LimitIs
<1>12. QED BY <1>1, <1>8, <1>11

\* Before the first frame nothing is written, whatever is retrieved.
LEMMA UnusedIs ==
  ASSUME ToolsInv, NEW t, t.at \in {"off", "refused", "connect"}, t.file = <<>>, t.recv = 0, t.split = get.split,
         t.tool = get.tool, t.sg = get.sg, t.frame = get.frame, get.at \in {"off", "refused", "connect"}
  PROVE  OfFile(t) /\ KeptIs(t) /\ OfChunk(t) /\ OfStream(t)
<1>1. frames = <<>> /\ node.asked = {} /\ t.frame.what = "none" BY DEF ToolsInv, Early, Unused
<1>2. t.file \in Seq(Nat) /\ Len(t.file) <= 1 /\ DOMAIN t.file = {} OBVIOUS
<1>3. Flows(t) /\ Coming(t, frames)
  <2>1. Rising(t.file, t.split) /\ Behindhand(t) BY <1>2 DEF Rising, Behindhand
  <2>2. DOMAIN frames = {} BY <1>1
  <2>3. Coming(t, frames) BY <2>2 DEF Coming
  <2>4. QED BY <1>1, <1>2, <2>1, <2>3 DEF Flows
<1>4. QED BY <1>1, <1>2, <1>3 DEF OfFile, KeptIs, OfChunk, Lonely, OfStream

\* The tool stays before its loop.
LEMMA StaysEarly ==
  ASSUME ToolsInv, get.at \in {"off", "connect"}, UNCHANGED <<task, put, node, frames, cut>>,
         NEW x \in {"refused", "connect"}, Kept1(get, get', x), get'.retry = get.retry, get'.ng = get.ng,
         get'.signal = get.signal, get'.kept = get.kept,
         x = "connect" /\ get.tool = "cefgetchunk" => T!Value(task.args, "-c", 0) \in 0 .. ChunkMax
  PROVE  ToolsInv'
<1>1. PICK t : t = get' OBVIOUS
<1>2. Unused(get) BY DEF ToolsInv, Early
<1>3. Tool(get)'
  <2>1. Tool(t) BY <1>1 DEF ToolsInv, Tool, Kept1
  <2>2. QED BY <1>1, <2>1 DEF Tool
<1>4. Early(get)'
  <2>1. Unused(t) BY <1>1, <1>2 DEF Unused, Kept1
  <2>2. QED BY <1>1, <2>1 DEF Early, Unused
<1>5. OfFile(t) /\ KeptIs(t) /\ OfChunk(t) /\ OfStream(t) BY <1>1, <1>2, UnusedIs DEF Unused, Kept1
<1>6. OfFile(get)' /\ KeptIs(get)' /\ OfChunk(get)' /\ OfStream(get)'
  BY <1>1, <1>5 DEF OfFile, Reads, HasRead, KeptIs, OfChunk, Lonely, OfStream, Flows, Coming, Behindhand
<1>7. Publishes' /\ Network' BY DEF ToolsInv, Publishes, Network
<1>8. Way(get)' BY <1>1 DEF ToolsInv, Way, Kept1
<1>9. QED BY <1>3, <1>4, <1>6, <1>7, <1>8 DEF ToolsInv

LEMMA KeepsGetStart ==
  ASSUME ToolsInv, T!GetStart
  PROVE  ToolsInv'
<1>1. PICK x : x = IF T!GetRefused(task.get, task.args) \/ T!ConfRefused(task.conf) THEN "refused" ELSE "connect" OBVIOUS
<1>2. get.at = "off" /\ get' = [get EXCEPT !.at = x] /\ UNCHANGED <<task, put, node, frames, cut>> BY <1>1 DEF T!GetStart
<1>3. DOMAIN get = GetFields BY DEF ToolsInv, Tool
<1>4. PICK t : t = get' OBVIOUS
<1>5. Kept1(get, t, x) /\ t.retry = get.retry /\ t.ng = get.ng /\ t.signal = get.signal /\ t.kept = get.kept
  BY <1>2, <1>3, <1>4, AtIs
<1>6. ASSUME x = "connect", get.tool = "cefgetchunk" PROVE T!Value(task.args, "-c", 0) \in 0 .. ChunkMax
  <2>1. get.tool = task.get BY <1>2 DEF ToolsInv, Early, Unused
  <2>2. ~T!GetRefused("cefgetchunk", task.args) BY <1>1, <1>6, <2>1
  <2>3. QED BY <2>2, JobOf, ChunkGiven
<1>7. x \in {"refused", "connect"} BY <1>1
<1>8. QED BY <1>2, <1>4, <1>5, <1>6, <1>7, StaysEarly

\* The window that is asked for at once has a place, and no more than chunks can be numbered.
LEMMA MaxSeqIs ==
  ASSUME NEW j, JobAssumption(j)
  PROVE  T!MaxSeq(j.args) \in Nat /\ T!MaxSeq(j.args) <= ChunkMax
<1>1. PICK a, v : a = j.args /\ v = T!Value(a, "-m", 1) OBVIOUS
<1>2. ChunkMax \in Nat \ {0} BY LimitIs
<1>3. CASE T!Given(a, "-m")
  <2>1. PICK k : k = CHOOSE i \in DOMAIN a : a[i].opt = "-m" OBVIOUS
  <2>2. \E i \in DOMAIN a : a[i].opt = "-m" BY <1>3 DEF T!Given
  <2>3. k \in DOMAIN a BY <2>1, <2>2
  <2>4. v = a[k].val BY <1>1, <1>3, <2>1 DEF T!Value
  <2>5. \A i \in DOMAIN a : a[i].val \in Int /\ a[i].val <= ChunkMax BY <1>1 DEF JobAssumption
  <2>6. v \in Int /\ v <= ChunkMax BY <2>3, <2>4, <2>5
  <2>7. PICK m : m = T!Max({v, 1}) OBVIOUS
  <2>8. m = IF v >= 1 THEN v ELSE 1 BY <2>6, <2>7, MoreOfTwo
  <2>9. T!MaxSeq(a) = m - 1 BY <1>1, <1>3, <2>7 DEF T!MaxSeq
  <2>10. QED BY <1>1, <1>2, <2>6, <2>8, <2>9
<1>4. CASE ~T!Given(a, "-m")
  <2>1. T!MaxSeq(a) = ChunkMax - 1 BY <1>4 DEF T!MaxSeq
  <2>2. QED BY <1>1, <1>2, <2>1
<1>5. QED BY <1>3, <1>4

LEMMA PipeLineIs ==
  ASSUME NEW j, JobAssumption(j)
  PROVE  T!PipeLine(j.args) \in Nat \ {0} /\ T!PipeLine(j.args) <= ChunkMax
<1>1. PICK a, g, m : a = j.args /\ g = T!Value(a, "-s", DefPipeLine) /\ m = T!MaxSeq(a) OBVIOUS
<1>2. m \in Nat BY <1>1, MaxSeqIs
<1>3. /\ DefPipeLine \in Nat \ {0} /\ MaxPipeLine \in Nat \ {0} /\ ChunkMax \in Nat \ {0}
      /\ DefPipeLine <= MaxPipeLine /\ MaxPipeLine <= ChunkMax
  BY ClientAssumption DEF ClientAssumption
<1>4. g \in Int
  <2>1. CASE T!Given(a, "-s")
    <3>1. PICK k : k = CHOOSE i \in DOMAIN a : a[i].opt = "-s" OBVIOUS
    <3>2. \E i \in DOMAIN a : a[i].opt = "-s" BY <2>1 DEF T!Given
    <3>3. k \in DOMAIN a BY <3>1, <3>2
    <3>4. g = a[k].val BY <1>1, <2>1, <3>1 DEF T!Value
    <3>5. \A i \in DOMAIN a : a[i].val \in Int BY <1>1 DEF JobAssumption
    <3>6. QED BY <3>3, <3>4, <3>5
  <2>2. CASE ~T!Given(a, "-s") BY <1>1, <1>3, <2>2 DEF T!Value
  <2>3. QED BY <2>1, <2>2
<1>5. PICK h : h = T!Min({g, MaxPipeLine}) OBVIOUS
<1>6. h = IF g <= MaxPipeLine THEN g ELSE MaxPipeLine BY <1>3, <1>4, <1>5, LessOfTwo
<1>7. PICK p : p = IF g < 1 THEN DefPipeLine ELSE h OBVIOUS
<1>8. p \in Nat \ {0} /\ p <= MaxPipeLine BY <1>3, <1>4, <1>6, <1>7
<1>9. T!PipeLine(a) = T!Min({p, m + 1}) BY <1>1, <1>5, <1>7 DEF T!PipeLine
<1>10. PICK q : q = T!Min({p, m + 1}) OBVIOUS
<1>11. q = IF p <= m + 1 THEN p ELSE m + 1
  <2>1. p \in Int /\ m + 1 \in Int BY <1>2, <1>8
  <2>2. QED BY <1>10, <2>1, LessOfTwo
<1>12. QED BY <1>1, <1>2, <1>3, <1>8, <1>9, <1>10, <1>11

\* The window as it is asked for
LEMMA WindowIs ==
  ASSUME NEW p \in Nat \ {0}, NEW upto, NEW win, win = T!Window(p)
  PROVE  Kind(win, 0, upto) /\ \A c \in Nat : ~Arrived(win, 0, c)
<1>1. DOMAIN win = 1 .. p /\ \A i \in 1 .. p : win[i] = [seq |-> i - 1, got |-> -1] BY NoneIs DEF T!Window
<1>2. \A i \in 1 .. p : win[i] \in Cell /\ win[i].seq = 0 + i - 1 /\ win[i].got = -1
  <2>1. ASSUME NEW i \in 1 .. p PROVE win[i] \in Cell /\ win[i].seq = 0 + i - 1 /\ win[i].got = -1
    <3>1. i - 1 \in Nat /\ i - 1 = 0 + i - 1 /\ -1 \in Int OBVIOUS
    <3>2. win[i] = [seq |-> i - 1, got |-> -1] BY <1>1
    <3>3. QED BY <3>1, <3>2 DEF Cell
  <2>2. QED BY <2>1
<1>3. win \in Seq(Cell)
  <2>1. PICK q : q = [i \in 1 .. p |-> win[i]] OBVIOUS
  <2>2. q \in [1 .. p -> Cell] BY <1>2, <2>1
  <2>3. q \in Seq(Cell) BY <2>2
  <2>4. win = [i \in 1 .. p |-> [seq |-> i - 1, got |-> T!None]] BY DEF T!Window
  <2>5. win = q BY <1>1, <2>1, <2>4
  <2>6. QED BY <2>3, <2>5
<1>4. win # <<>> BY <1>1
<1>5. Kind(win, 0, upto) BY <1>1, <1>2, <1>3, <1>4 DEF Kind
<1>6. \A c \in Nat : ~Arrived(win, 0, c) BY <1>1, <1>2 DEF Arrived
<1>7. QED BY <1>5, <1>6

\* cef_client_connect succeeds: what is asked for, and the state that the loop begins in
Connects ==
  /\ get.at = "connect" /\ UNCHANGED <<task, put, frames, cut>>
  /\ get' = [get EXCEPT !.at = "loop", !.win = IF T!Regular THEN T!Window(T!PipeLine(task.args)) ELSE <<>>]
  /\ node' = [node EXCEPT !.asked = @ \cup T!First, !.sub = get.sg /\ get.tool # "cefgetchunk"]

LEMMA FirstIs ==
  ASSUME ToolsInv, get.at = "connect"
  PROVE  T!First \subseteq 0 .. ChunkMax /\ (get.tool # "cefgetchunk" /\ get.sg = TRUE => T!First = {})
<1>4. get.sg \in BOOLEAN BY DEF ToolsInv, Tool
<1>1. CASE get.tool = "cefgetchunk"
  <2>1. T!Value(task.args, "-c", 0) \in 0 .. ChunkMax BY <1>1 DEF ToolsInv, Early, Unused
  <2>2. CASE get.sg = FALSE
    <3>1. T!First = {T!Value(task.args, "-c", 0)} BY <1>1, <2>2 DEF T!First
    <3>2. QED BY <1>1, <2>1, <3>1
  <2>3. CASE get.sg = TRUE
    <3>1. T!First = {T!Value(task.args, "-c", 0)} \/ T!First = {} BY <1>1, <2>3 DEF T!First
    <3>2. QED BY <1>1, <2>1, <3>1
  <2>4. QED BY <1>4, <2>2, <2>3
<1>2. CASE get.tool # "cefgetchunk" /\ get.sg = TRUE
  <2>1. T!First = {} BY <1>2 DEF T!First
  <2>2. QED BY <2>1
<1>3. CASE get.tool # "cefgetchunk" /\ get.sg = FALSE
  <2>1. PICK p : p = T!PipeLine(task.args) OBVIOUS
  <2>2. p \in Nat \ {0} /\ p <= ChunkMax BY <2>1, JobOf, PipeLineIs
  <2>3. T!First = 0 .. p - 1 BY <1>3, <2>1 DEF T!First
  <2>4. ChunkMax \in Nat BY LimitIs
  <2>5. QED BY <1>3, <2>2, <2>3, <2>4
<1>5. QED BY <1>1, <1>2, <1>3, <1>4

LEMMA ConnectIs ==
  ASSUME T!Connect
  PROVE  \/ get.at = "connect" /\ get' = [get EXCEPT !.at = "refused"] /\ UNCHANGED <<task, put, node, frames, cut>>
         \/ get.at = "connect" /\ get' = [get EXCEPT !.tries = @ + 1] /\ UNCHANGED <<task, put, node, frames, cut>>
         \/ Connects
<1>1. get.at = "connect" /\ UNCHANGED <<task, put, frames, cut>> BY DEF T!Connect
<1>2. CASE T!Socket(task.conf, task.args) # task.socket
  <2>1. get' = [get EXCEPT !.at = "refused"] /\ UNCHANGED node BY <1>2 DEF T!Connect
  <2>2. QED BY <1>1, <2>1
<1>3. CASE T!Socket(task.conf, task.args) = task.socket /\ ~node.listens
  <2>1. UNCHANGED node /\ get' = IF get.tries + 1 = ConnectRetries THEN [get EXCEPT !.at = "refused"] ELSE [get EXCEPT !.tries = @ + 1]
    BY <1>3 DEF T!Connect
  <2>2. QED BY <1>1, <2>1
<1>4. CASE T!Socket(task.conf, task.args) = task.socket /\ ~(T!Socket(task.conf, task.args) = task.socket /\ ~node.listens)
  <2>1. /\ get' = [get EXCEPT !.at = "loop", !.win = IF T!Regular THEN T!Window(T!PipeLine(task.args)) ELSE <<>>]
        /\ node' = [node EXCEPT !.asked = @ \cup T!First, !.sub = get.sg /\ get.tool # "cefgetchunk"]
    BY <1>4 DEF T!Connect
  <2>2. QED BY <1>1, <2>1 DEF Connects
<1>5. QED BY <1>2, <1>3, <1>4

LEMMA KeepsConnects ==
  ASSUME ToolsInv, Connects
  PROVE  ToolsInv'
<1>1. /\ get.at = "connect" /\ UNCHANGED <<task, put, frames, cut>>
      /\ node' = [node EXCEPT !.asked = @ \cup T!First, !.sub = get.sg /\ get.tool # "cefgetchunk"]
  BY DEF Connects
<1>2. Unused(get) /\ Tool(get) BY <1>1 DEF ToolsInv, Early
<1>3. DOMAIN get = GetFields /\ get.sg \in BOOLEAN BY <1>2 DEF Tool
<1>4. T!First \subseteq 0 .. ChunkMax /\ (get.tool # "cefgetchunk" /\ get.sg = TRUE => T!First = {}) BY <1>1, FirstIs
<1>5. DOMAIN node = {"listens", "store", "asked", "sub"} BY DEF ToolsInv, Network
<1>6. DOMAIN node' = DOMAIN node /\ node'.asked = node.asked \cup T!First /\ node'.store = node.store BY <1>1, <1>5
<1>7. Publishes' BY <1>1 DEF ToolsInv, Publishes
<1>8. Network' BY <1>1, <1>4, <1>5, <1>6 DEF ToolsInv, Network
<1>9. PICK t, w : t = get' /\ w = IF T!Regular THEN T!Window(T!PipeLine(task.args)) ELSE <<>> OBVIOUS
<1>10. t = [get EXCEPT !.at = "loop", !.win = w] BY <1>9 DEF Connects
<1>11. /\ DOMAIN t = GetFields /\ t.at = "loop" /\ t.ask = get.ask /\ t.split = get.split /\ t.tool = get.tool /\ t.sg = get.sg
       /\ t.win = w /\ t.frame = get.frame /\ t.file = get.file /\ t.recv = get.recv /\ t.end = get.end
       /\ t.running = get.running /\ t.write = get.write /\ t.retry = get.retry /\ t.ng = get.ng
       /\ t.signal = get.signal /\ t.kept = get.kept
  BY <1>3, <1>10 DEF GetFields
<1>12. IsFile(get) => Kind(w, 0, put.sent) /\ \A c \in Nat : ~Arrived(w, 0, c)
  <2>1. ASSUME IsFile(get) PROVE Kind(w, 0, put.sent) /\ \A c \in Nat : ~Arrived(w, 0, c)
    <3>1. PICK p : p = T!PipeLine(task.args) OBVIOUS
    <3>2. p \in Nat \ {0} BY <3>1, JobOf, PipeLineIs
    <3>3. w = T!Window(p) BY <1>9, <2>1, <3>1 DEF T!Regular, IsFile
    <3>4. QED BY <3>2, <3>3, WindowIs
  <2>2. QED BY <2>1
<1>13. ~IsFile(get) => w = <<>> BY <1>3, <1>9 DEF T!Regular, IsFile
<1>14. \A i \in DOMAIN w : w[i].got = -1 \/ w[i].got = w[i].seq
  <2>1. CASE IsFile(get) BY <1>12, <2>1, KindTyped
  <2>2. CASE ~IsFile(get) BY <1>13, <2>2
  <2>3. QED BY <2>1, <2>2
<1>15. Tool(get)'
  <2>1. Tool(t) BY <1>2, <1>11, <1>14 DEF Tool
  <2>2. QED BY <1>1, <1>9, <2>1 DEF Tool
<1>16. IsFile(t) => Reads(t)
  <2>1. SUFFICES ASSUME IsFile(t) PROVE Reads(t) OBVIOUS
  <2>2. IsFile(get) BY <1>11, <2>1 DEF IsFile
  <2>3. t.recv = 0 /\ t.file = <<>> /\ t.end = -1 /\ t.running = TRUE /\ t.write = FALSE /\ t.retry \in 0 .. MaxRetry
    BY <1>2, <1>11 DEF Unused, Tool
  <2>4. <<>> = Begun(0) BY DEF Begun
  <2>5. EndKnown(t, task)
    <3>1. task.size \in Nat BY JobOf DEF JobIs
    <3>2. task.size > 0 => ~Arrived(w, 0, task.size - 1) BY <1>12, <2>2, <3>1
    <3>3. QED BY <1>11, <2>3, <3>2 DEF EndKnown
  <2>6. 0 <= ChunkMax BY LimitIs
  <2>7. t.recv \in Nat /\ t.recv <= ChunkMax BY <2>3, <2>6
  <2>8. t.file = Begun(t.recv) BY <2>3, <2>4
  <2>9. Kind(t.win, t.recv, put.sent)
    <3>1. Kind(w, 0, put.sent) BY <1>12, <2>2
    <3>2. t.win = w /\ t.recv = 0 BY <1>11, <2>3
    <3>3. QED BY <3>1, <3>2, Zenon
  <2>10. QED BY <1>11, <2>3, <2>5, <2>7, <2>8, <2>9 DEF Reads, Follows
<1>17. t.file = <<>> /\ t.recv = 0 /\ t.frame.what = "none" /\ t.running = TRUE /\ t.write = FALSE /\ frames = <<>> /\ node.asked = {}
  BY <1>2, <1>11 DEF Unused
<1>18. OfFile(t) /\ KeptIs(t) BY <1>11, <1>16 DEF OfFile, KeptIs
<1>19. OfChunk(t)
  <2>1. t.file \in Seq(Nat) /\ Len(t.file) <= 1 BY <1>17
  <2>2. QED BY <1>17, <2>1 DEF OfChunk, Lonely
<1>20. Flows(t) /\ Coming(t, frames)
  <2>1. t.file \in Seq(Nat) /\ DOMAIN t.file = {} /\ DOMAIN frames = {} BY <1>17
  <2>2. Rising(t.file, t.split) /\ Behindhand(t) BY <2>1 DEF Rising, Behindhand
  <2>3. Coming(t, frames) BY <2>1 DEF Coming
  <2>4. QED BY <1>17, <2>1, <2>2, <2>3 DEF Flows
<1>21. OfStream(get)'
  <2>1. t.tool # "cefgetchunk" /\ t.sg = TRUE => node'.asked = {} BY <1>4, <1>6, <1>11, <1>17
  <2>2. QED BY <1>1, <1>9, <1>20, <2>1 DEF OfStream, Flows, Coming, Behindhand
<1>22. Early(get)' BY <1>9, <1>11 DEF Early
<1>23. OfFile(get)' /\ KeptIs(get)' /\ OfChunk(get)'
  BY <1>1, <1>9, <1>18, <1>19 DEF OfFile, Reads, HasRead, KeptIs, OfChunk, Lonely
<1>24. Way(get)' BY <1>1, <1>9, <1>11 DEF ToolsInv, Way
<1>25. QED BY <1>7, <1>8, <1>15, <1>21, <1>22, <1>23, <1>24 DEF ToolsInv

LEMMA KeepsConnect ==
  ASSUME ToolsInv, T!Connect
  PROVE  ToolsInv'
<1>1. DOMAIN get = GetFields BY DEF ToolsInv, Tool
<1>2. get.at = "connect" BY DEF T!Connect
<1>3. get.tool = "cefgetchunk" => T!Value(task.args, "-c", 0) \in 0 .. ChunkMax BY <1>2 DEF ToolsInv, Early, Unused
<1>4. PICK t : t = get' OBVIOUS
<1>5. CASE get' = [get EXCEPT !.at = "refused"] /\ UNCHANGED <<task, put, node, frames, cut>>
  <2>1. Kept1(get, t, "refused") /\ t.retry = get.retry /\ t.ng = get.ng /\ t.signal = get.signal /\ t.kept = get.kept
    BY <1>1, <1>4, <1>5, AtIs
  <2>2. PICK x : x = "refused" OBVIOUS
  <2>3. QED BY <1>2, <1>4, <1>5, <2>1, <2>2, StaysEarly
<1>6. CASE get' = [get EXCEPT !.tries = @ + 1] /\ UNCHANGED <<task, put, node, frames, cut>>
  <2>1. Kept1(get, t, "connect") /\ t.retry = get.retry /\ t.ng = get.ng /\ t.signal = get.signal /\ t.kept = get.kept
    BY <1>1, <1>2, <1>4, <1>6 DEF Kept1, GetFields
  <2>2. PICK x : x = "connect" OBVIOUS
  <2>3. QED BY <1>2, <1>3, <1>4, <1>6, <2>1, <2>2, StaysEarly
<1>7. QED BY <1>5, <1>6, ConnectIs, KeepsConnects

LEMMA KeepsPutAt ==
  ASSUME ToolsInv, UNCHANGED <<task, node, frames, cut, get>>, NEW x \in {"off", "refused", "loop", "done"},
         put' = [put EXCEPT !.at = x]
  PROVE  ToolsInv'
<1>1. DOMAIN put = {"at", "sent"} BY DEF ToolsInv, Publishes
<1>2. DOMAIN put' = {"at", "sent"} /\ put'.at = x /\ put'.sent = put.sent BY <1>1
<1>3. Publishes' BY <1>2 DEF ToolsInv, Publishes
<1>4. Network' /\ Way(get)' BY <1>2 DEF ToolsInv, Network, Way
<1>5. Tool(get)' /\ Early(get)' /\ OfFile(get)'
  BY <1>2 DEF ToolsInv, Tool, Early, Unused, OfFile, Reads, HasRead
<1>6. KeptIs(get)' /\ OfChunk(get)' /\ OfStream(get)'
  BY <1>2 DEF ToolsInv, KeptIs, OfChunk, Lonely, OfStream, Flows, Coming, Behindhand
<1>7. QED BY <1>3, <1>4, <1>5, <1>6 DEF ToolsInv

LEMMA PublishedIs ==
  ASSUME ToolsInv, NEW o, T!Published(o)
  PROVE  /\ DOMAIN node' = DOMAIN node /\ node'.store \subseteq node.store \cup {o} /\ node'.asked \subseteq node.asked
         /\ frames' = frames \/ (frames' = Append(frames, o) /\ get.at = "loop")
<1>1. DOMAIN node = {"listens", "store", "asked", "sub"} BY DEF ToolsInv, Network
<1>2. CASE UNCHANGED <<node, frames>> BY <1>2
<1>3. CASE /\ node' = [node EXCEPT !.store = IF T!Cacheable(task.put, task.putArgs) THEN @ \cup {o} ELSE @,
                                   !.asked = @ \ {o.chunk}]
           /\ frames' = IF (o.chunk \in node.asked \/ node.sub) /\ get.at = "loop" THEN Append(frames, o) ELSE frames
  BY <1>1, <1>3
<1>4. QED BY <1>2, <1>3 DEF T!Published

\* A frame more on its way to a stream
LEMMA ComingMore ==
  ASSUME NEW j, JobIs(j), NEW u \in Nat, Reach(u, j), NEW w, w \in Seq(Outs(u, j)), NEW s, Coming(s, w),
         s.frame.what = "none" \/ Proper(s.frame, u, j), NEW o, o.what = "object", o.chunk = u, NEW v, v = Append(w, o)
  PROVE  Coming(s, v)
<1>1. PICK l : l = Len(w) OBVIOUS
<1>2. l \in Nat /\ DOMAIN w = 1 .. l BY <1>1
<1>3. DOMAIN v = 1 .. l + 1 /\ v[l + 1] = o /\ \A i \in 1 .. l : v[i] = w[i] BY <1>1, <1>2
<1>4. \A i \in 1 .. l : w[i].chunk \in Nat /\ w[i].chunk < u
  <2>1. \A i \in 1 .. l : w[i] \in Outs(u, j) BY <1>2
  <2>2. \A f \in Outs(u, j) : Genuine(f, u, j) BY OutsAre
  <2>3. QED BY <2>1, <2>2 DEF Genuine
<1>5. ASSUME NEW i \in DOMAIN v PROVE v[i].what = "object" /\ (s.frame.what = "object" => s.frame.chunk < v[i].chunk)
  <2>1. CASE i = l + 1
    <3>1. s.frame.what = "object" => s.frame.chunk < u BY DEF Proper, Genuine
    <3>2. QED BY <1>3, <2>1, <3>1
  <2>2. CASE i # l + 1
    <3>1. i \in 1 .. l /\ v[i] = w[i] BY <1>2, <1>3, <2>2
    <3>2. QED BY <1>2, <3>1 DEF Coming
  <2>3. QED BY <2>1, <2>2
<1>6. ASSUME NEW i \in DOMAIN v, NEW k \in DOMAIN v, i < k PROVE v[i].chunk < v[k].chunk
  <2>1. i \in 1 .. l /\ v[i] = w[i] BY <1>2, <1>3, <1>6
  <2>2. CASE k = l + 1 BY <1>3, <1>4, <2>1, <2>2
  <2>3. CASE k # l + 1
    <3>1. k \in 1 .. l /\ v[k] = w[k] BY <1>2, <1>3, <2>3
    <3>2. w[i].chunk < w[k].chunk BY <1>2, <1>6, <2>1, <3>1 DEF Coming
    <3>3. QED BY <2>1, <3>1, <3>2
  <2>4. QED BY <2>2, <2>3
<1>7. QED BY <1>5, <1>6 DEF Coming

\* What comes of a stream are Objects.
LEMMA ObjectsCome ==
  ASSUME NEW j, JobIs(j), NEW u, Reach(u, j), NEW w, w \in Seq(Frames(u, j)), NEW s, Coming(s, w)
  PROVE  w \in Seq(Outs(u, j))
<1>1. PICK l, q : l = Len(w) /\ q = [i \in 1 .. l |-> w[i]] OBVIOUS
<1>2. l \in Nat /\ DOMAIN w = 1 .. l BY <1>1
<1>3. \A i \in 1 .. l : w[i] \in Outs(u, j)
  <2>1. \A f \in Frames(u, j) : f.what = "object" => f \in Outs(u, j) BY OutsAre
  <2>2. \A i \in 1 .. l : w[i] \in Frames(u, j) /\ w[i].what = "object" BY <1>2 DEF Coming
  <2>3. QED BY <2>1, <2>2
<1>4. q \in [1 .. l -> Outs(u, j)] BY <1>1, <1>3
<1>5. q \in Seq(Outs(u, j)) BY <1>2, <1>4
<1>6. q = w BY <1>1, <1>2
<1>7. QED BY <1>5, <1>6

LEMMA SeqMore ==
  ASSUME NEW S, NEW R, S \subseteq R, NEW w, w \in Seq(S)
  PROVE  w \in Seq(R)
OBVIOUS

\* An Object is out: one more block is sent.
LEMMA KeepsPublished ==
  ASSUME ToolsInv, T!More, UNCHANGED <<task, cut, get>>, put' = [put EXCEPT !.sent = @ + 1],
         NEW o, o = [what |-> "object", chunk |-> put.sent, end |-> EndOf(put.sent, task)], T!Published(o)
  PROVE  ToolsInv'
<1>1. PICK u, v : u = put.sent /\ v = u + 1 OBVIOUS
<1>2. JobIs(task) /\ Reach(u, task) /\ u \in Nat BY <1>1, JobOf DEF Reach
<1>3. DOMAIN put = {"at", "sent"} /\ DOMAIN put' = {"at", "sent"} /\ put'.at = put.at /\ put'.sent = v
  BY <1>1 DEF ToolsInv, Publishes
<1>4. Reach(v, task)
  <2>1. u < task.blocks /\ u <= ChunkMax /\ task.blocks \in Nat BY <1>1, <1>2 DEF T!More, JobIs
  <2>2. QED BY <1>1, <1>2, <2>1, LimitIs DEF Reach
<1>5. Publishes' BY <1>3, <1>4 DEF ToolsInv, Publishes
<1>6. /\ DOMAIN node' = DOMAIN node /\ node'.store \subseteq node.store \cup {o} /\ node'.asked \subseteq node.asked
      /\ frames' = frames \/ (frames' = Append(frames, o) /\ get.at = "loop")
  BY PublishedIs
<1>7. Outs(u, task) \subseteq Outs(v, task) /\ Frames(u, task) \subseteq Frames(v, task) /\ o \in Outs(v, task)
  BY <1>1, <1>2, OutsMore
<1>8. Network'
  <2>1. node.store \subseteq Outs(u, task) /\ node.asked \subseteq 0 .. ChunkMax /\ DOMAIN node = {"listens", "store", "asked", "sub"}
    BY <1>1 DEF ToolsInv, Network
  <2>2. node'.store \subseteq Outs(v, task) BY <1>6, <1>7, <2>1
  <2>3. QED BY <1>3, <1>6, <2>1, <2>2 DEF Network
<1>9. frames \in Seq(Frames(u, task)) BY <1>1 DEF ToolsInv, Way
<1>10. frames' \in Seq(Frames(v, task)) /\ (frames # <<>> => frames' # <<>>)
  <2>1. frames \in Seq(Frames(v, task)) BY <1>7, <1>9, SeqMore
  <2>2. o \in Frames(v, task) BY <1>7 DEF Frames
  <2>3. CASE frames' = frames BY <2>1, <2>3
  <2>4. CASE frames' = Append(frames, o)
    <3>1. PICK w : w = Append(frames, o) OBVIOUS
    <3>2. w \in Seq(Frames(v, task)) /\ Len(w) = Len(frames) + 1 /\ Len(frames) \in Nat BY <2>1, <2>2, <3>1
    <3>3. w # <<>> BY <3>2
    <3>4. QED BY <2>4, <3>1, <3>2, <3>3
  <2>5. QED BY <1>6, <2>3, <2>4
<1>11. Way(get)' BY <1>3, <1>10 DEF ToolsInv, Way
<1>12. /\ \A s : Follows(s, u, task) => Follows(s, v, task)
       /\ \A f : Proper(f, u, task) => Proper(f, v, task)
  BY <1>1, <1>2, FollowsMore
<1>13. Tool(get)' BY <1>1, <1>3, <1>12 DEF ToolsInv, Tool
<1>14. Early(get)'
  <2>1. SUFFICES ASSUME get.at \in {"off", "refused", "connect"} PROVE Unused(get)' BY DEF Early
  <2>2. Unused(get) BY <2>1 DEF ToolsInv, Early
  <2>3. frames' = frames /\ node'.asked = {} BY <1>6, <2>1, <2>2 DEF Unused
  <2>4. QED BY <2>2, <2>3 DEF Unused
<1>15. OfFile(get)' BY <1>1, <1>3, <1>12 DEF ToolsInv, OfFile, Reads, HasRead
<1>16. KeptIs(get)' /\ OfChunk(get)' BY DEF ToolsInv, KeptIs, OfChunk, Lonely
<1>17. OfStream(get)'
  <2>1. SUFFICES ASSUME get.tool # "cefgetchunk" /\ get.sg = TRUE PROVE (node.asked = {} /\ Flows(get) /\ Coming(get, frames))'
    BY DEF OfStream
  <2>2. node.asked = {} /\ Flows(get) /\ Coming(get, frames) BY <2>1 DEF ToolsInv, OfStream
  <2>3. Coming(get, frames')
    <3>1. CASE frames' = frames BY <2>2, <3>1
    <3>2. CASE frames' = Append(frames, o)
      <4>1. PICK w : w = Append(frames, o) OBVIOUS
      <4>2. frames \in Seq(Outs(u, task)) BY <1>2, <1>9, <2>2, ObjectsCome
      <4>3. get.frame.what = "none" \/ Proper(get.frame, u, task) BY <1>1 DEF ToolsInv, Tool
      <4>4. o.what = "object" /\ o.chunk = u BY <1>1
      <4>5. Coming(get, w) BY <1>2, <2>2, <4>1, <4>2, <4>3, <4>4, ComingMore
      <4>6. QED BY <3>2, <4>1, <4>5
    <3>3. QED BY <1>6, <3>1, <3>2
  <2>4. node'.asked = {} BY <1>6, <2>2
  <2>5. QED BY <2>2, <2>3, <2>4 DEF Flows, Coming, Behindhand
<1>18. QED BY <1>5, <1>8, <1>11, <1>13, <1>14, <1>15, <1>16, <1>17 DEF ToolsInv

LEMMA KeepsPutting ==
  ASSUME ToolsInv, T!Putting
  PROVE  ToolsInv'
<1>1. CASE T!PutStart
  <2>1. PICK x : x = IF T!PutRefused(task.put, task.putArgs) \/ T!ConfRefused(task.conf)
                        \/ T!Socket(task.conf, task.putArgs) # task.socket THEN "refused" ELSE "loop"
    OBVIOUS
  <2>2. put' = [put EXCEPT !.at = x] /\ UNCHANGED <<task, node, frames, cut, get>> BY <1>1, <2>1 DEF T!PutStart
  <2>3. x \in {"off", "refused", "loop", "done"} BY <2>1
  <2>4. QED BY <2>2, <2>3, KeepsPutAt
<1>2. CASE T!PutEnd
  <2>1. PICK x : x = "done" OBVIOUS
  <2>2. put' = [put EXCEPT !.at = x] /\ UNCHANGED <<task, node, frames, cut, get>> BY <1>2, <2>1 DEF T!PutEnd
  <2>3. x \in {"off", "refused", "loop", "done"} BY <2>1
  <2>4. QED BY <2>2, <2>3, KeepsPutAt
<1>3. CASE T!PutFile
  <2>1. PICK o : o = [what |-> "object", chunk |-> put.sent, end |-> T!EndChunk] OBVIOUS
  <2>2. /\ task.put = "cefputfile" /\ T!More /\ T!Published(o) /\ put' = [put EXCEPT !.sent = @ + 1]
        /\ UNCHANGED <<task, cut, get>>
    BY <1>3, <2>1 DEF T!PutFile
  <2>3. T!EndChunk = EndOf(put.sent, task) BY <2>2, NoneIs DEF T!EndChunk, EndOf
  <2>4. o = [what |-> "object", chunk |-> put.sent, end |-> EndOf(put.sent, task)] BY <2>1, <2>3
  <2>5. QED BY <2>2, <2>4, KeepsPublished
<1>4. CASE T!PutStream
  <2>1. PICK o : o = [what |-> "object", chunk |-> put.sent, end |-> T!None] OBVIOUS
  <2>2. /\ task.put = "cefputstream" /\ T!More /\ T!Published(o) /\ put' = [put EXCEPT !.sent = @ + 1]
        /\ UNCHANGED <<task, cut, get>>
    BY <1>4, <2>1 DEF T!PutStream
  <2>3. T!None = EndOf(put.sent, task) BY <2>2, NoneIs DEF EndOf
  <2>4. o = [what |-> "object", chunk |-> put.sent, end |-> EndOf(put.sent, task)] BY <2>1, <2>3
  <2>5. QED BY <2>2, <2>4, KeepsPublished
<1>5. QED BY <1>1, <1>2, <1>3, <1>4 DEF T!Putting

LEMMA KeepsLess ==
  ASSUME ToolsInv, UNCHANGED <<task, put, frames, cut, get>>, DOMAIN node' = DOMAIN node, node'.store = node.store,
         node'.asked \subseteq node.asked
  PROVE  ToolsInv'
<1>1. Publishes' /\ Way(get)' BY DEF ToolsInv, Publishes, Way
<1>2. Network' BY DEF ToolsInv, Network
<1>3. Tool(get)' /\ OfFile(get)' BY DEF ToolsInv, Tool, OfFile, Reads, HasRead
<1>4. Early(get)' BY DEF ToolsInv, Early, Unused
<1>5. KeptIs(get)' /\ OfChunk(get)' /\ OfStream(get)'
  BY DEF ToolsInv, KeptIs, OfChunk, Lonely, OfStream, Flows, Coming, Behindhand
<1>6. QED BY <1>1, <1>2, <1>3, <1>4, <1>5 DEF ToolsInv

\* What was asked for is answered: a stream is not asked for.
LEMMA KeepsAnswered ==
  ASSUME ToolsInv, UNCHANGED <<task, put, cut, get>>, DOMAIN node' = DOMAIN node, node'.store = node.store,
         node'.asked \subseteq node.asked, node.asked # {}, NEW f \in Frames(put.sent, task), frames' = Append(frames, f)
  PROVE  ToolsInv'
<1>1. ~(get.at \in {"off", "refused", "connect"}) BY DEF ToolsInv, Early, Unused
<1>2. ~(get.tool # "cefgetchunk" /\ get.sg = TRUE) BY DEF ToolsInv, OfStream
<1>3. frames' \in Seq(Frames(put.sent, task)) /\ frames' # <<>>
  <2>1. PICK w : w = Append(frames, f) OBVIOUS
  <2>2. w \in Seq(Frames(put.sent, task)) /\ Len(w) = Len(frames) + 1 /\ Len(frames) \in Nat BY <2>1 DEF ToolsInv, Way
  <2>3. w # <<>> BY <2>2
  <2>4. QED BY <2>1, <2>2, <2>3
<1>4. Publishes' BY DEF ToolsInv, Publishes
<1>5. Way(get)' BY <1>3 DEF ToolsInv, Way
<1>6. Network' BY DEF ToolsInv, Network
<1>7. Tool(get)' /\ OfFile(get)' BY DEF ToolsInv, Tool, OfFile, Reads, HasRead
<1>8. Early(get)' /\ OfStream(get)' BY <1>1, <1>2 DEF Early, OfStream
<1>9. KeptIs(get)' /\ OfChunk(get)' BY DEF ToolsInv, KeptIs, OfChunk, Lonely
<1>10. QED BY <1>4, <1>5, <1>6, <1>7, <1>8, <1>9 DEF ToolsInv

LEMMA KeepsNetwork ==
  ASSUME ToolsInv, T!Listen \/ T!Answer \/ T!Lose \/ T!Refuse \/ T!Subscribe
  PROVE  ToolsInv'
<1>1. DOMAIN node = {"listens", "store", "asked", "sub"} /\ node.store \subseteq Outs(put.sent, task)
  BY DEF ToolsInv, Network
<1>2. CASE T!Listen
  <2>1. node' = [node EXCEPT !.listens = TRUE] /\ UNCHANGED <<task, put, frames, cut, get>> BY <1>2 DEF T!Listen
  <2>2. DOMAIN node' = DOMAIN node /\ node'.store = node.store /\ node'.asked \subseteq node.asked BY <1>1, <2>1
  <2>3. QED BY <2>1, <2>2, KeepsLess
<1>3. CASE T!Subscribe
  <2>1. node' = [node EXCEPT !.sub = TRUE] /\ UNCHANGED <<task, put, frames, cut, get>> BY <1>3 DEF T!Subscribe
  <2>2. DOMAIN node' = DOMAIN node /\ node'.store = node.store /\ node'.asked \subseteq node.asked BY <1>1, <2>1
  <2>3. QED BY <2>1, <2>2, KeepsLess
<1>4. CASE T!Lose
  <2>1. /\ (\E c \in node.asked : node' = [node EXCEPT !.asked = @ \ {c}]) \/ node' = [node EXCEPT !.sub = FALSE]
        /\ UNCHANGED <<task, put, frames, cut, get>>
    BY <1>4 DEF T!Lose
  <2>2. DOMAIN node' = DOMAIN node /\ node'.store = node.store /\ node'.asked \subseteq node.asked BY <1>1, <2>1
  <2>3. QED BY <2>1, <2>2, KeepsLess
<1>5. CASE T!Answer
  <2>1. PICK c \in node.asked : \E f \in T!Found(c) : frames' = Append(frames, f) /\ node' = [node EXCEPT !.asked = @ \ {c}]
    BY <1>5 DEF T!Answer
  <2>6. PICK f \in T!Found(c) : frames' = Append(frames, f) /\ node' = [node EXCEPT !.asked = @ \ {c}] BY <2>1
  <2>2. f \in Frames(put.sent, task) BY <1>1 DEF T!Found, Frames
  <2>3. DOMAIN node' = DOMAIN node /\ node'.store = node.store /\ node'.asked \subseteq node.asked BY <1>1, <2>6
  <2>4. UNCHANGED <<task, put, cut, get>> BY <1>5 DEF T!Answer
  <2>5. QED BY <2>6, <2>2, <2>3, <2>4, KeepsAnswered
<1>6. CASE T!Refuse
  <2>1. PICK c \in node.asked : frames' = Append(frames, [what |-> "return"]) /\ node' = [node EXCEPT !.asked = @ \ {c}]
    BY <1>6 DEF T!Refuse
  <2>2. [what |-> "return"] \in Frames(put.sent, task) BY DEF Frames
  <2>3. DOMAIN node' = DOMAIN node /\ node'.store = node.store /\ node'.asked \subseteq node.asked BY <1>1, <2>1
  <2>4. UNCHANGED <<task, put, cut, get>> BY <1>6 DEF T!Refuse
  <2>5. QED BY <2>1, <2>2, <2>3, <2>4, KeepsAnswered
<1>7. QED BY <1>2, <1>3, <1>4, <1>5, <1>6

\* The tool's loop ends: it is given up, or a signal comes.
LEMMA KeepsOver ==
  ASSUME ToolsInv, get.at = "loop", UNCHANGED <<task, put, node, frames, cut>>, Kept1(get, get', "end"),
         get'.retry = get.retry, get'.kept = get.kept, get'.ng \in BOOLEAN, get'.signal \in BOOLEAN,
         IsFile(get) /\ get.tool = "cefgetfile" => get'.ng = TRUE \/ get'.signal = TRUE
  PROVE  ToolsInv'
<1>1. PICK t : t = get' OBVIOUS
<1>2. Publishes' /\ Network' /\ Way(get)' BY <1>1 DEF ToolsInv, Publishes, Network, Way, Kept1
<1>3. Tool(get)'
  <2>1. Tool(t) BY <1>1 DEF ToolsInv, Tool, Kept1
  <2>2. QED BY <1>1, <2>1 DEF Tool
<1>4. Early(get)' /\ KeptIs(get)' BY <1>1 DEF Early, KeptIs, Kept1
<1>5. OfFile(t)
  <2>1. SUFFICES ASSUME IsFile(t) PROVE HasRead(t) BY <1>1 DEF OfFile, Kept1
  <2>2. IsFile(get) BY <1>1, <2>1 DEF IsFile, Kept1
  <2>3. Follows(get, put.sent, task) BY <2>2 DEF ToolsInv, OfFile, Reads
  <2>4. t.recv \in Nat /\ t.file = Begun(t.recv) BY <1>1, <2>3 DEF Follows, Kept1
  <2>5. t.tool = "cefgetfile" => t.ng = TRUE \/ t.signal = TRUE BY <1>1, <2>2 DEF Kept1
  <2>6. QED BY <2>4, <2>5 DEF HasRead
<1>6. OfChunk(t) BY <1>1 DEF ToolsInv, OfChunk, Lonely, Kept1
<1>7. OfStream(t) BY <1>1 DEF ToolsInv, OfStream, Flows, Coming, Behindhand, Kept1
<1>8. OfFile(get)' /\ OfChunk(get)' /\ OfStream(get)'
  BY <1>1, <1>5, <1>6, <1>7 DEF OfFile, Reads, HasRead, OfChunk, Lonely, OfStream, Flows, Coming, Behindhand, Kept1
<1>9. QED BY <1>2, <1>3, <1>4, <1>8 DEF ToolsInv

\* cefgetfile.c:736-748: what is missing is asked for again.
LEMMA KeepsAsked ==
  ASSUME ToolsInv, get.at = "loop", IsFile(get), UNCHANGED <<task, put, frames, cut>>, NEW a, a \subseteq 0 .. ChunkMax,
         node' = [node EXCEPT !.asked = @ \cup a],
         Kept1(get, get', "loop"), get'.retry \in 0 .. MaxRetry, get'.ng = get.ng, get'.signal = get.signal,
         get'.kept = get.kept
  PROVE  ToolsInv'
<1>1. Publishes' /\ Network' BY StillNetwork
<1>2. PICK t : t = get' OBVIOUS
<1>4. /\ Kept1(get, t, "loop") /\ t.retry \in 0 .. MaxRetry /\ t.ng = get.ng /\ t.signal = get.signal /\ t.kept = get.kept
  BY <1>2
<1>5. Tool(get)'
  <2>1. Tool(t) BY <1>4 DEF ToolsInv, Tool, Kept1
  <2>2. QED BY <1>2, <2>1 DEF Tool
<1>6. Early(get)' /\ KeptIs(get)' BY <1>2, <1>4 DEF Early, KeptIs, Kept1
<1>7. OfChunk(get)' /\ OfStream(get)' BY <1>2, <1>4 DEF OfChunk, OfStream, IsFile, Kept1
<1>8. Reads(t)
  <2>1. Follows(get, put.sent, task) /\ get.write = FALSE BY DEF ToolsInv, OfFile, Reads
  <2>2. QED BY <1>4, <2>1 DEF Reads, Follows, EndKnown, Kept1
<1>9. OfFile(get)' BY <1>2, <1>4, <1>8 DEF OfFile, Reads, Kept1
<1>10. Way(get)' BY <1>2, <1>4 DEF ToolsInv, Way, Kept1
<1>11. QED BY <1>1, <1>5, <1>6, <1>7, <1>9, <1>10 DEF ToolsInv

LEMMA AgainIs ==
  ASSUME ToolsInv, get.at = "loop", IsFile(get)
  PROVE  T!Again \subseteq 0 .. ChunkMax
<1>1. Follows(get, put.sent, task) BY DEF ToolsInv, OfFile, Reads
<1>2. PICK w, r, m : w = get.win /\ r = get.recv /\ m = T!MaxSeq(task.args) OBVIOUS
<1>3. m \in Nat /\ m <= ChunkMax BY <1>2, JobOf, MaxSeqIs
<1>4. r \in Nat /\ Kind(w, r, put.sent) BY <1>1, <1>2 DEF Follows
<1>5. \A i \in DOMAIN w : w[i].seq \in Nat
  <2>1. w \in Seq(Cell) BY <1>4 DEF Kind
  <2>2. \A i \in DOMAIN w : w[i] \in Cell BY <2>1
  <2>3. QED BY <2>2 DEF Cell
<1>6. \A c \in T!Absent : c \in Nat BY <1>2, <1>5 DEF T!Absent
<1>7. \A c \in T!Again : c \in Nat /\ c <= m BY <1>2, <1>6 DEF T!Again
<1>8. ChunkMax \in Nat BY LimitIs
<1>9. QED BY <1>3, <1>7, <1>8

LEMMA KeepsResend ==
  ASSUME ToolsInv, T!Resend
  PROVE  ToolsInv'
<1>1. get.at = "loop" /\ get.tool = "cefgetfile" /\ ~get.sg /\ UNCHANGED <<task, put, frames, cut>>
  BY DEF T!Resend, T!Timer
<1>2. DOMAIN get = GetFields /\ get.retry \in 0 .. MaxRetry /\ get.sg \in BOOLEAN BY DEF ToolsInv, Tool
<1>3. IsFile(get) BY <1>1, <1>2 DEF IsFile
<1>4. PICK t : t = get' OBVIOUS
<1>5. CASE get.retry = MaxRetry
  <2>1. t = [get EXCEPT !.at = "end", !.ng = TRUE] /\ UNCHANGED node BY <1>4, <1>5 DEF T!Resend, T!GivenUp
  <2>2. Kept1(get, t, "end") /\ t.retry = get.retry /\ t.kept = get.kept /\ t.ng = TRUE /\ t.signal = get.signal
    BY <1>2, <2>1 DEF Kept1, GetFields
  <2>3. get.signal \in BOOLEAN BY DEF ToolsInv, Tool
  <2>4. QED BY <1>1, <1>4, <2>1, <2>2, <2>3, KeepsOver
<1>6. CASE get.retry # MaxRetry
  <2>1. t = IF T!Again = {} THEN get ELSE [get EXCEPT !.retry = @ + 1] BY <1>4, <1>6 DEF T!Resend
  <2>2. /\ Kept1(get, t, "loop") /\ t.retry \in 0 .. MaxRetry /\ t.ng = get.ng /\ t.signal = get.signal /\ t.kept = get.kept
    <3>1. CASE t = get BY <1>1, <1>2, <3>1 DEF Kept1
    <3>2. CASE t = [get EXCEPT !.retry = @ + 1]
      <4>1. get.retry + 1 \in 0 .. MaxRetry BY <1>2, <1>6, LimitIs
      <4>2. QED BY <1>1, <1>2, <3>2, <4>1 DEF Kept1, GetFields
    <3>3. QED BY <2>1, <3>1, <3>2
  <2>3. node' = [node EXCEPT !.asked = @ \cup T!Again] BY <1>6 DEF T!Resend
  <2>4. PICK a : a = T!Again OBVIOUS
  <2>5. a \subseteq 0 .. ChunkMax BY <1>1, <1>3, <2>4, AgainIs
  <2>6. QED BY <1>1, <1>3, <1>4, <2>2, <2>3, <2>4, <2>5, KeepsAsked
<1>7. QED BY <1>5, <1>6

LEMMA KeepsEnding ==
  ASSUME ToolsInv, T!EndSubscription \/ T!EndStream \/ T!EndWait \/ T!GetSignal
  PROVE  ToolsInv'
<1>1. DOMAIN get = GetFields /\ get.sg \in BOOLEAN /\ get.ng \in BOOLEAN /\ get.signal \in BOOLEAN BY DEF ToolsInv, Tool
<1>2. PICK t : t = get' OBVIOUS
<1>3. CASE T!EndSubscription \/ T!EndStream \/ T!EndWait
  <2>1. get.at = "loop" /\ t = [get EXCEPT !.at = "end"] /\ UNCHANGED <<task, put, node, frames, cut>>
    BY <1>2, <1>3 DEF T!EndSubscription, T!EndStream, T!EndWait, T!Over, T!Timer
  <2>2. ~(IsFile(get) /\ get.tool = "cefgetfile")
    BY <1>1, <1>3 DEF T!EndSubscription, T!EndStream, T!EndWait, IsFile
  <2>3. Kept1(get, t, "end") /\ t.retry = get.retry /\ t.ng = get.ng /\ t.signal = get.signal /\ t.kept = get.kept
    BY <1>1, <2>1, AtIs
  <2>4. QED BY <1>1, <1>2, <2>1, <2>2, <2>3, KeepsOver
<1>4. CASE T!GetSignal
  <2>1. get.at = "loop" /\ t = [get EXCEPT !.at = "end", !.signal = TRUE] /\ UNCHANGED <<task, put, node, frames, cut>>
    BY <1>2, <1>4 DEF T!GetSignal
  <2>2. Kept1(get, t, "end") /\ t.retry = get.retry /\ t.ng = get.ng /\ t.signal = TRUE /\ t.kept = get.kept
    BY <1>1, <2>1 DEF Kept1, GetFields
  <2>3. QED BY <1>1, <1>2, <2>1, <2>2, KeepsOver
<1>5. QED BY <1>3, <1>4

LEMMA KeepsFinish ==
  ASSUME ToolsInv, T!Finish
  PROVE  ToolsInv'
<1>1. /\ get.at = "end" /\ node' = [node EXCEPT !.sub = FALSE, !.asked = {}] /\ frames' = <<>> /\ cut' = FALSE
      /\ UNCHANGED <<task, put>>
  BY DEF T!Finish, T!Closed
<1>2. PICK t : t = get' OBVIOUS
<1>3. PICK k : k = ~get.ng OBVIOUS
<1>4. DOMAIN get = GetFields /\ get.ng \in BOOLEAN BY DEF ToolsInv, Tool
<1>5. t = [get EXCEPT !.at = "done", !.kept = k] BY <1>2, <1>3 DEF T!Finish
<1>6. Kept1(get, t, "done") /\ t.retry = get.retry /\ t.ng = get.ng /\ t.signal = get.signal /\ t.kept = k
  BY <1>4, <1>5 DEF Kept1, GetFields
<1>7. k \in BOOLEAN /\ k # get.ng BY <1>3, <1>4
<1>8. DOMAIN node = {"listens", "store", "asked", "sub"} BY DEF ToolsInv, Network
<1>9. DOMAIN node' = DOMAIN node /\ node'.store = node.store /\ node'.asked = {} BY <1>1, <1>8
<1>10. Publishes' BY <1>1 DEF ToolsInv, Publishes
<1>11. Network' BY <1>1, <1>9 DEF ToolsInv, Network
<1>12. Way(get)'
  <2>1. frames' \in Seq(Frames(put.sent, task)) BY <1>1
  <2>2. cut' \in BOOLEAN /\ ~cut' BY <1>1
  <2>3. frames' \in Seq(Frames(put.sent, task))' BY <1>1, <2>1
  <2>4. QED BY <2>2, <2>3, Zenon DEF Way
<1>13. Tool(get)'
  <2>1. Tool(t) BY <1>6, <1>7 DEF ToolsInv, Tool, Kept1
  <2>2. QED BY <1>1, <1>2, <2>1 DEF Tool
<1>14. Early(get)' /\ KeptIs(get)' BY <1>2, <1>6, <1>7 DEF Early, KeptIs, Kept1
<1>15. OfFile(t) /\ OfChunk(t) BY <1>1, <1>6 DEF ToolsInv, OfFile, HasRead, IsFile, OfChunk, Lonely, Kept1
<1>16. OfFile(get)' /\ OfChunk(get)'
  BY <1>1, <1>2, <1>6, <1>15 DEF OfFile, HasRead, OfChunk, Lonely, Kept1
<1>17. OfStream(get)'
  <2>1. t.tool # "cefgetchunk" /\ t.sg = TRUE => Flows(t)
    BY <1>6 DEF ToolsInv, OfStream, Flows, Behindhand, Kept1
  <2>2. DOMAIN frames' = {} BY <1>1
  <2>3. Coming(t, frames') BY <2>2 DEF Coming
  <2>4. QED BY <1>2, <1>9, <2>1, <2>3 DEF OfStream, Flows, Behindhand, Coming
<1>18. QED BY <1>10, <1>11, <1>12, <1>13, <1>14, <1>16, <1>17 DEF ToolsInv

LEMMA KeepsReading ==
  ASSUME ToolsInv, NEW part \in BOOLEAN, T!ReadFrame(part) \/ \E n \in 0 .. Len(frames) : T!ReadPart(n, part)
  PROVE  ToolsInv'
<1>1. get.at = "loop" BY ReadLeaves
<1>2. get.sg \in BOOLEAN BY DEF ToolsInv, Tool
<1>3. CASE get.tool = "cefgetchunk" BY <1>1, <1>3, ReadOfChunk
<1>4. CASE get.tool # "cefgetchunk" /\ get.sg = TRUE BY <1>1, <1>4, ReadOfStream
<1>5. CASE get.tool # "cefgetchunk" /\ get.sg = FALSE
  <2>1. IsFile(get) BY <1>5 DEF IsFile
  <2>2. QED BY <1>1, <2>1, ReadOfFile
<1>6. QED BY <1>2, <1>3, <1>4, <1>5

LEMMA ToolsNext ==
  ASSUME ToolsInv, [ClientNext]_<<talk, tools>>
  PROVE  ToolsInv'
<1>1. CASE UNCHANGED tools
  <2>1. UNCHANGED <<task, put, node, frames, cut, get>> BY <1>1 DEF tools
  <2>2. DOMAIN node' = DOMAIN node /\ node'.store = node.store /\ node'.asked \subseteq node.asked BY <2>1
  <2>3. QED BY <2>1, <2>2, KeepsLess
<1>2. CASE T!Next
  <2>1. CASE T!Putting BY <2>1, KeepsPutting
  <2>2. CASE T!Getting
    <3>1. CASE T!GetStart BY <3>1, KeepsGetStart
    <3>2. CASE T!Connect BY <3>2, KeepsConnect
    <3>3. CASE T!Resend BY <3>3, KeepsResend
    <3>4. CASE T!Subscribe BY <3>4, KeepsNetwork
    <3>5. CASE T!EndSubscription \/ T!EndStream \/ T!EndWait BY <3>5, KeepsEnding
    <3>6. CASE T!Finish BY <3>6, KeepsFinish
    <3>7. CASE \E part \in BOOLEAN : T!ReadFrame(part) \/ \E n \in 0 .. Len(frames) : T!ReadPart(n, part)
      BY <3>7, KeepsReading
    <3>8. QED BY <2>2, <3>1, <3>2, <3>3, <3>4, <3>5, <3>6, <3>7 DEF T!Getting
  <2>3. CASE T!GetSignal BY <2>3, KeepsEnding
  <2>4. CASE T!Listen \/ T!Answer \/ T!Lose \/ T!Refuse BY <2>4, KeepsNetwork
  <2>5. QED BY <1>2, <2>1, <2>2, <2>3, <2>4 DEF T!Next
<1>3. ClientNext \/ UNCHANGED tools BY DEF tools
<1>4. QED BY <1>1, <1>2, <1>3 DEF ClientNext

\* Nothing was sent, and nothing was read.
LEMMA ToolsBegin ==
  ASSUME task \in Jobs, DOMAIN put = {"at", "sent"}, put.at \in {"off", "done"}, put.sent = 0,
         DOMAIN node = {"listens", "store", "asked", "sub"}, node.store = {}, node.asked = {}, frames = <<>>, cut = FALSE,
         DOMAIN get = GetFields, get.retry = 0, get.ask = {}, get.sg \in BOOLEAN, get.split \in BOOLEAN, get.ng = FALSE,
         get.signal \in BOOLEAN, get.kept = TRUE, get.win = <<>>, get.frame.what = "none", get.file = <<>>, get.recv = 0,
         get.end = -1, get.write = FALSE,
         (get.at = "off" /\ get.running = TRUE /\ get.tool = task.get) \/ (get.at = "done" /\ get.tool = "cefgetchunk")
  PROVE  ToolsInv
<1>1. JobAssumption(task) BY ClientAssumption DEF ClientAssumption
<1>2. task.blocks \in Nat /\ ChunkMax \in Nat /\ MaxRetry \in Nat BY <1>1, LimitIs DEF JobAssumption
<1>3. Publishes BY <1>2 DEF Publishes, Reach
<1>4. Network BY DEF Network
<1>5. Way(get)
  <2>1. frames \in Seq(Frames(put.sent, task)) OBVIOUS
  <2>2. cut \in BOOLEAN /\ ~cut OBVIOUS
  <2>3. QED BY <2>1, <2>2, Zenon DEF Way
<1>6. Tool(get)
  <2>1. 0 \in 0 .. MaxRetry BY <1>2
  <2>2. DOMAIN get.win = {} OBVIOUS
  <2>3. QED BY <2>1, <2>2 DEF Tool
<1>7. Early(get) BY DEF Early, Unused
<1>8. get.file \in Seq(Nat) /\ Len(get.file) <= 1 /\ DOMAIN get.file = {} OBVIOUS
<1>9. OfFile(get) BY DEF OfFile, IsFile
<1>10. KeptIs(get) BY DEF KeptIs
<1>11. OfChunk(get) BY <1>8 DEF OfChunk, Lonely
<1>12. OfStream(get)
  <2>1. Rising(get.file, get.split) /\ Behindhand(get) BY <1>8 DEF Rising, Behindhand
  <2>2. DOMAIN frames = {} OBVIOUS
  <2>3. Coming(get, frames) BY <2>2 DEF Coming
  <2>4. QED BY <1>8, <2>1, <2>3 DEF OfStream, Flows
<1>13. QED BY <1>3, <1>4, <1>5, <1>6, <1>7, <1>9, <1>10, <1>11, <1>12 DEF ToolsInv

LEMMA ToolsInit ==
  ASSUME ClientInit
  PROVE  ToolsInv
<1>1. CASE T!Init
  <2>1. PICK g : g = T!Given(task.args, "-z") OBVIOUS
  <2>2. g \in BOOLEAN BY <2>1 DEF T!Given
  <2>3. /\ task \in Jobs /\ put = [at |-> "off", sent |-> 0]
        /\ node = [listens |-> task.listens, store |-> {}, asked |-> {}, sub |-> FALSE]
        /\ frames = <<>> /\ cut = FALSE
    BY <1>1 DEF T!Init
  <2>4. get = [at |-> "off", tool |-> task.get, sg |-> g, tries |-> 0,
            win |-> <<>>, frame |-> [what |-> "none"], file |-> <<>>, recv |-> 0, end |-> -1,
            running |-> TRUE, write |-> FALSE, ng |-> FALSE, retry |-> 0, ask |-> {}, kept |-> TRUE,
            split |-> FALSE, signal |-> FALSE]
    BY <1>1, <2>1, NoneIs DEF T!Init
  <2>5. /\ DOMAIN get = GetFields /\ get.retry = 0 /\ get.ask = {} /\ get.sg \in BOOLEAN /\ get.split \in BOOLEAN /\ get.ng = FALSE
        /\ get.signal \in BOOLEAN /\ get.kept = TRUE /\ get.win = <<>> /\ get.frame.what = "none" /\ get.file = <<>> /\ get.recv = 0
        /\ get.end = -1 /\ get.write = FALSE /\ get.at = "off" /\ get.running = TRUE /\ get.tool = task.get
    BY <2>2, <2>4 DEF GetFields
  <2>6. DOMAIN put = {"at", "sent"} /\ put.at = "off" /\ put.sent = 0 BY <2>3
  <2>7. DOMAIN node = {"listens", "store", "asked", "sub"} /\ node.store = {} /\ node.asked = {} BY <2>3
  <2>8. QED BY <2>3, <2>5, <2>6, <2>7, ToolsBegin
<1>2. CASE NoTool
  <2>1. task \in Jobs
    <3>1. \E j \in Jobs : j.blocks = 0 BY ClientAssumption DEF ClientAssumption
    <3>2. task = CHOOSE j \in Jobs : j.blocks = 0 BY <1>2 DEF NoTool
    <3>3. QED BY <3>1, <3>2
  <2>2. /\ put = [at |-> "done", sent |-> 0] /\ node = [listens |-> TRUE, store |-> {}, asked |-> {}, sub |-> FALSE]
        /\ frames = <<>> /\ cut = FALSE
    BY <1>2 DEF NoTool
  <2>3. get = [at |-> "done", tool |-> "cefgetchunk", sg |-> FALSE, tries |-> 0, win |-> <<>>,
            frame |-> [what |-> "none"], file |-> <<>>, recv |-> 0, end |-> -1, running |-> FALSE,
            write |-> FALSE, ng |-> FALSE, retry |-> 0, ask |-> {}, kept |-> TRUE, split |-> FALSE, signal |-> FALSE]
    BY <1>2, NoneIs DEF NoTool
  <2>4. /\ DOMAIN get = GetFields /\ get.retry = 0 /\ get.ask = {} /\ get.sg \in BOOLEAN /\ get.split \in BOOLEAN /\ get.ng = FALSE
        /\ get.signal \in BOOLEAN /\ get.kept = TRUE /\ get.win = <<>> /\ get.frame.what = "none" /\ get.file = <<>> /\ get.recv = 0
        /\ get.end = -1 /\ get.write = FALSE /\ get.at = "done" /\ get.tool = "cefgetchunk"
    BY <2>3 DEF GetFields
  <2>5. DOMAIN put = {"at", "sent"} /\ put.at = "done" /\ put.sent = 0 BY <2>2
  <2>6. DOMAIN node = {"listens", "store", "asked", "sub"} /\ node.store = {} /\ node.asked = {} BY <2>2
  <2>7. QED BY <2>1, <2>2, <2>4, <2>5, <2>6, ToolsBegin
<1>3. QED BY <1>1, <1>2 DEF ClientInit

LEMMA ToolsTrue ==
  ASSUME ToolsInv
  PROVE  FilesTrue
<1>1. Publishes /\ Network /\ Way(get) /\ Tool(get) /\ Early(get) /\ OfFile(get) /\ KeptIs(get) /\ OfChunk(get) /\ OfStream(get)
  BY DEF ToolsInv
<1>2. get.sg \in BOOLEAN /\ get.signal \in BOOLEAN /\ get.ng \in BOOLEAN /\ get.kept \in BOOLEAN BY <1>1 DEF Tool
<1>3. T!Regular <=> IsFile(get) BY <1>2 DEF T!Regular, IsFile
<1>4. get.at \in {"off", "refused", "connect", "loop", "end", "done"} BY <1>1 DEF Tool
<1>5. T!TypeOK
  <2>1. put.sent \in 0 .. task.blocks BY <1>1 DEF Publishes, Reach
  <2>2. \A i \in DOMAIN get.win : get.win[i].got \in {T!None, get.win[i].seq} BY <1>1, NoneIs DEF Tool
  <2>3. QED BY <1>1, <2>1, <2>2 DEF T!TypeOK, Publishes, Tool, Network, Way
<1>6. T!Written
  <2>1. SUFFICES ASSUME T!Regular PROVE /\ get.file = Begun(get.recv)
                                        /\ get.at = "loop" => \A i \in DOMAIN get.win : get.win[i].seq = get.recv + i - 1
    BY DEF T!Written, Begun
  <2>2. IsFile(get) BY <1>3, <2>1
  <2>3. CASE get.at \in {"off", "refused", "connect"}
    <3>1. get.file = <<>> /\ get.recv = 0 BY <1>1, <2>3 DEF Early, Unused
    <3>2. <<>> = Begun(0) BY DEF Begun
    <3>3. QED BY <2>3, <3>1, <3>2
  <2>4. CASE get.at = "loop"
    <3>1. Follows(get, put.sent, task) BY <1>1, <2>2, <2>4 DEF OfFile, Reads
    <3>2. get.file = Begun(get.recv) /\ Kind(get.win, get.recv, put.sent) BY <3>1 DEF Follows
    <3>3. \A i \in DOMAIN get.win : get.win[i].seq = get.recv + i - 1 BY <3>2 DEF Kind
    <3>4. QED BY <3>2, <3>3
  <2>5. CASE get.at \in {"end", "done"} BY <1>1, <2>2, <2>5 DEF OfFile, HasRead
  <2>6. QED BY <1>4, <2>3, <2>4, <2>5
<1>7. T!Kept
  <2>1. SUFFICES ASSUME get.tool = "cefgetfile" /\ T!Regular /\ get.at = "done" /\ get.kept = TRUE /\ get.signal = FALSE
                 PROVE  Len(get.file) = T!Min({task.size, ChunkMax + 1})
    BY <1>2 DEF T!Kept
  <2>2. IsFile(get) BY <1>3, <2>1
  <2>3. get.ng = FALSE BY <1>1, <1>2, <2>1 DEF KeptIs
  <2>4. get.recv \in Nat /\ get.file = Begun(get.recv) /\ get.recv = Wanted(task) BY <1>1, <2>1, <2>2, <2>3 DEF OfFile, HasRead
  <2>5. Len(get.file) = get.recv
    <3>1. PICK r : r = get.recv OBVIOUS
    <3>2. r \in Nat /\ get.file = [i \in 1 .. r |-> i - 1] BY <2>4, <3>1 DEF Begun
    <3>3. QED BY <3>1, <3>2
  <2>6. task.size \in Int /\ ChunkMax + 1 \in Int BY JobOf, LimitIs DEF JobIs
  <2>7. QED BY <2>4, <2>5, <2>6, LessOfTwo DEF Wanted
<1>8. T!Streamed
  <2>1. SUFFICES ASSUME ~T!Regular, NEW i \in DOMAIN get.file, NEW k \in DOMAIN get.file, i < k
                 PROVE  get.file[i] < get.file[k] \/ (get.split /\ get.file[i] = get.file[k])
    BY DEF T!Streamed
  <2>2. CASE get.tool = "cefgetchunk"
    <3>1. get.file \in Seq(Nat) /\ Len(get.file) <= 1 BY <1>1, <2>2 DEF OfChunk, Lonely
    <3>2. PICK l : l = Len(get.file) OBVIOUS
    <3>3. l \in Nat /\ l <= 1 /\ i \in 1 .. l /\ k \in 1 .. l BY <3>1, <3>2
    <3>4. QED BY <2>1, <3>3
  <2>3. CASE get.tool # "cefgetchunk"
    <3>1. get.sg = TRUE BY <1>2, <2>1, <2>3 DEF T!Regular
    <3>2. Rising(get.file, get.split) BY <1>1, <2>3, <3>1 DEF OfStream, Flows
    <3>3. QED BY <2>1, <3>2 DEF Rising
  <2>4. QED BY <2>2, <2>3
<1>9. QED BY <1>5, <1>6, <1>7, <1>8 DEF FilesTrue, ToolsTypeOK, Written, Kept, Streamed

\* What the tools write is what was published: a file block for block, whole if it is kept,
\* a stream in its order; whatever is lost, cut, refused or asked for again, and however
\* the publisher, cefnetd and the retriever take their turns.
THEOREM FilesAreTrue == ClientSpec => []FilesTrue
<1>1. ClientInit => ToolsInv BY ToolsInit
<1>2. ToolsInv /\ [ClientNext]_<<talk, tools>> => ToolsInv' BY ToolsNext
<1>3. ToolsInv => FilesTrue BY ToolsTrue
<1>4. QED BY <1>1, <1>2, <1>3, PTL DEF ClientSpec

-----------------------------------------------------------------------------
(* The replacement libraries.                                             *)

Nil == L!Nil
Cells == L!Cells

LEMMA CellsTyped ==
  /\ Capacity \in Nat /\ Capacity >= 1 /\ Cells = 0 .. Capacity - 1 /\ Nil = -1
  /\ Nil \notin Cells /\ 0 \in Cells /\ Cells \subseteq Int
<1>1. Capacity \in Nat /\ Capacity >= 1 BY ReplacementAssumption
<1>2. Cells = 0 .. Capacity - 1 /\ Nil = -1 BY DEF Cells, Nil, L!Cells, L!Nil
<1>3. QED BY <1>1, <1>2

-----------------------------------------------------------------------------
(* The line of the entries in use.                                         *)

\* What stands at a place of the line c, nothing beyond its ends.
Place(c, n) == IF n \in DOMAIN c THEN c[n] ELSE Nil

\* The entries of c, the oldest first and no two the same, are linked both ways.
Links == [Cells -> Cells \cup {Nil}]
Line(nx, pv, nw, od, m, c) ==
  /\ c \in [1 .. m -> Cells] /\ \A a, b \in 1 .. m : c[a] = c[b] => a = b
  /\ od = Place(c, 1) /\ nw = Place(c, m)
  /\ \A n \in 1 .. m : pv[c[n]] = Place(c, n + 1) /\ nx[c[n]] = Place(c, n - 1)

\* The line without its place p, and with i at its end.
Dropped(m, c, p) == [n \in 1 .. m - 1 |-> IF n < p THEN c[n] ELSE c[n + 1]]
Joined(m, c, i) == [n \in 1 .. m + 1 |-> IF n = m + 1 THEN i ELSE c[n]]

LEMMA LinePlaces ==
  ASSUME NEW m \in Nat, NEW c \in [1 .. m -> Cells]
  PROVE  /\ \A n \in 1 .. m : Place(c, n) = c[n] /\ c[n] \in Cells /\ c[n] # Nil
         /\ \A n : n \notin 1 .. m => Place(c, n) = Nil
BY CellsTyped DEF Place

\* An entry leaves the line.
Leaves(nx, pv, nw, od, i, nx2, pv2, nw2, od2) ==
  /\ nw2 = IF i = nw THEN nx[i] ELSE nw
  /\ od2 = IF i = od THEN pv[i] ELSE od
  /\ nx2 = IF i = nw THEN nx ELSE [nx EXCEPT ![pv[i]] = nx[i]]
  /\ pv2 = IF i = od THEN pv ELSE [pv EXCEPT ![nx[i]] = pv[i]]

DroppedTo(m, c, p, d) ==
  /\ m - 1 \in Nat /\ d \in [1 .. m - 1 -> Cells]
  /\ \A n \in 1 .. m - 1 : n \in 1 .. m /\ n + 1 \in 1 .. m
  /\ \A n \in 1 .. m - 1 : d[n] = IF n < p THEN c[n] ELSE c[n + 1]
  /\ \A n \in 0 .. m : Place(d, n) = IF n < p THEN Place(c, n) ELSE Place(c, n + 1)

LEMMA DroppedIs ==
  ASSUME NEW m \in Nat, NEW c \in [1 .. m -> Cells], NEW p \in 1 .. m, NEW d, d = Dropped(m, c, p)
  PROVE  DroppedTo(m, c, p, d)
<1>1. \A n \in 1 .. m - 1 : n \in 1 .. m /\ n + 1 \in 1 .. m OBVIOUS
<1>2. d \in [1 .. m - 1 -> Cells] BY <1>1 DEF Dropped
<1>3. \A n \in 1 .. m - 1 : d[n] = IF n < p THEN c[n] ELSE c[n + 1] BY DEF Dropped
<1>4. ASSUME NEW n \in 0 .. m
      PROVE  Place(d, n) = IF n < p THEN Place(c, n) ELSE Place(c, n + 1)
  <2>1. CASE n \in 1 .. m - 1
    <3>1. Place(d, n) = d[n] /\ Place(c, n) = c[n] /\ Place(c, n + 1) = c[n + 1] BY <1>1, <1>2, <2>1 DEF Place
    <3>2. QED BY <1>3, <2>1, <3>1
  <2>2. CASE n = 0
    <3>1. n \notin 1 .. m - 1 /\ n \notin 1 .. m /\ n < p BY <2>2
    <3>2. QED BY <1>2, <3>1 DEF Place
  <2>3. CASE n = m
    <3>1. n \notin 1 .. m - 1 /\ n + 1 \notin 1 .. m /\ ~(n < p) BY <2>3
    <3>2. QED BY <1>2, <3>1 DEF Place
  <2>4. QED BY <2>1, <2>2, <2>3
<1>5. m - 1 \in Nat OBVIOUS
<1>6. QED BY <1>1, <1>2, <1>3, <1>4, <1>5 DEF DroppedTo

LEMMA LineOut ==
  ASSUME NEW m \in Nat, NEW c, NEW nx \in Links, NEW pv \in Links, NEW nw, NEW od, Line(nx, pv, nw, od, m, c),
         NEW p \in 1 .. m, NEW nx2, NEW pv2, NEW nw2, NEW od2,
         Leaves(nx, pv, nw, od, c[p], nx2, pv2, nw2, od2)
  PROVE  Line(nx2, pv2, nw2, od2, m - 1, Dropped(m, c, p))
<1> DEFINE d == Dropped(m, c, p)
           i == c[p]
<1>1. c \in [1 .. m -> Cells] BY DEF Line
<1>2. /\ \A n \in 1 .. m : Place(c, n) = c[n] /\ c[n] \in Cells /\ c[n] # Nil
      /\ \A n : n \notin 1 .. m => Place(c, n) = Nil
  BY <1>1, LinePlaces
<1>3. \A a, b \in 1 .. m : c[a] = c[b] => a = b BY DEF Line
<1>4. \A n \in 1 .. m : pv[c[n]] = Place(c, n + 1) /\ nx[c[n]] = Place(c, n - 1) BY DEF Line
<1>5. /\ m - 1 \in Nat /\ d \in [1 .. m - 1 -> Cells]
      /\ \A n \in 1 .. m - 1 : n \in 1 .. m /\ n + 1 \in 1 .. m
      /\ \A n \in 1 .. m - 1 : d[n] = IF n < p THEN c[n] ELSE c[n + 1]
      /\ \A n \in 0 .. m : Place(d, n) = IF n < p THEN Place(c, n) ELSE Place(c, n + 1)
  <2>1. DroppedTo(m, c, p, d) BY <1>1, DroppedIs
  <2>2. QED BY <2>1 DEF DroppedTo
<1> HIDE DEF d
<1>6. m \in 1 .. m /\ 1 \in 1 .. m OBVIOUS
<1>7. (i = nw <=> p = m) /\ (i = od <=> p = 1)
  <2>1. nw = c[m] /\ od = c[1] BY <1>2, <1>6 DEF Line
  <2>2. QED BY <1>3, <1>6, <2>1
<1>8. \A a, b \in 1 .. m - 1 : d[a] = d[b] => a = b
  <2> TAKE a, b \in 1 .. m - 1
  <2>1. HAVE d[a] = d[b]
  <2>2. (IF a < p THEN a ELSE a + 1) = (IF b < p THEN b ELSE b + 1) BY <1>3, <1>5, <2>1
  <2>3. QED BY <2>2
<1>9. ASSUME NEW n \in 1 .. m, n # p
      PROVE  nx2[c[n]] = IF n = p + 1 THEN Place(c, p - 1) ELSE Place(c, n - 1)
  <2>1. CASE p = m
    <3>1. nx2 = nx /\ n # p + 1 BY <1>7, <2>1 DEF Leaves
    <3>2. QED BY <1>4, <3>1
  <2>2. CASE p # m
    <3>1. p + 1 \in 1 .. m BY <2>2
    <3>2. pv[i] = c[p + 1] /\ nx[i] = Place(c, p - 1) BY <1>2, <1>4, <3>1
    <3>3. nx2 = [nx EXCEPT ![c[p + 1]] = Place(c, p - 1)] BY <1>7, <2>2, <3>2 DEF Leaves
    <3>4. c[n] = c[p + 1] <=> n = p + 1 BY <1>3, <3>1
    <3>5. QED BY <1>2, <1>4, <3>3, <3>4 DEF Links
  <2>3. QED BY <2>1, <2>2
<1>10. ASSUME NEW n \in 1 .. m, n # p
       PROVE  pv2[c[n]] = IF n = p - 1 THEN Place(c, p + 1) ELSE Place(c, n + 1)
  <2>1. CASE p = 1
    <3>1. pv2 = pv /\ n # p - 1 BY <1>7, <2>1 DEF Leaves
    <3>2. QED BY <1>4, <3>1
  <2>2. CASE p # 1
    <3>1. p - 1 \in 1 .. m BY <2>2
    <3>2. nx[i] = c[p - 1] /\ pv[i] = Place(c, p + 1) BY <1>2, <1>4, <3>1
    <3>3. pv2 = [pv EXCEPT ![c[p - 1]] = Place(c, p + 1)] BY <1>7, <2>2, <3>2 DEF Leaves
    <3>4. c[n] = c[p - 1] <=> n = p - 1 BY <1>3, <3>1
    <3>5. QED BY <1>2, <1>4, <3>3, <3>4 DEF Links
  <2>3. QED BY <2>1, <2>2
<1>11. nw2 = Place(d, m - 1)
  <2>1. m - 1 \in 0 .. m /\ (m - 1) + 1 = m /\ (m - 1 < p <=> p = m) OBVIOUS
  <2>2. nw = Place(c, m) /\ nx[i] = Place(c, p - 1) BY <1>4 DEF Line
  <2>3. nw2 = IF p = m THEN Place(c, p - 1) ELSE Place(c, m) BY <1>7, <2>2 DEF Leaves
  <2>4. QED BY <1>5, <2>1, <2>3
<1>12. od2 = Place(d, 1)
  <2>1. 1 \in 0 .. m /\ (1 < p <=> p # 1) OBVIOUS
  <2>2. od = Place(c, 1) /\ pv[i] = Place(c, p + 1) BY <1>4 DEF Line
  <2>3. od2 = IF p = 1 THEN Place(c, p + 1) ELSE Place(c, 1) BY <1>7, <2>2 DEF Leaves
  <2>4. QED BY <1>5, <2>1, <2>3
<1>13. ASSUME NEW n \in 1 .. m - 1
       PROVE  pv2[d[n]] = Place(d, n + 1) /\ nx2[d[n]] = Place(d, n - 1)
  <2>1. n \in 1 .. m /\ n + 1 \in 1 .. m /\ n - 1 \in 0 .. m /\ n + 1 \in 0 .. m BY <1>5
  <2>2. CASE n < p
    <3>1. d[n] = c[n] /\ n # p /\ n # p + 1 /\ n - 1 < p BY <1>5, <2>2
    <3>2. nx2[d[n]] = Place(c, n - 1) BY <1>9, <2>1, <3>1
    <3>3. pv2[d[n]] = IF n = p - 1 THEN Place(c, p + 1) ELSE Place(c, n + 1) BY <1>10, <2>1, <3>1
    <3>4. Place(d, n - 1) = Place(c, n - 1) BY <1>5, <2>1, <3>1
    <3>5. Place(d, n + 1) = IF n + 1 < p THEN Place(c, n + 1) ELSE Place(c, (n + 1) + 1) BY <1>5, <2>1
    <3>6. (n = p - 1 <=> ~(n + 1 < p)) /\ (n = p - 1 => (n + 1) + 1 = p + 1) BY <2>2
    <3>7. QED BY <3>2, <3>3, <3>4, <3>5, <3>6
  <2>3. CASE ~(n < p)
    <3>1. d[n] = c[n + 1] /\ n + 1 # p /\ n + 1 # p - 1 /\ ~(n + 1 < p) BY <1>5, <2>3
    <3>2. nx2[d[n]] = IF n + 1 = p + 1 THEN Place(c, p - 1) ELSE Place(c, (n + 1) - 1) BY <1>9, <2>1, <3>1
    <3>3. pv2[d[n]] = Place(c, (n + 1) + 1) BY <1>10, <2>1, <3>1
    <3>4. Place(d, n + 1) = Place(c, (n + 1) + 1) BY <1>5, <2>1, <3>1
    <3>5. Place(d, n - 1) = IF n - 1 < p THEN Place(c, n - 1) ELSE Place(c, (n - 1) + 1) BY <1>5, <2>1
    <3>6. (n + 1 = p + 1 <=> n - 1 < p) /\ (n + 1 = p + 1 => n - 1 = p - 1) /\ (n + 1) - 1 = (n - 1) + 1 BY <2>3
    <3>7. QED BY <3>2, <3>3, <3>4, <3>5, <3>6
  <2>4. QED BY <2>2, <2>3
<1>14. QED BY <1>5, <1>8, <1>11, <1>12, <1>13 DEF Line, d

\* An entry enters it as the newest.
Enters(nx, pv, nw, od, i, nx2, pv2, od2) ==
  /\ od2 = IF nw = Nil THEN i ELSE od
  /\ nx2 = [nx EXCEPT ![i] = nw]
  /\ pv2 = [j \in Cells |-> IF j = i THEN Nil ELSE IF j = nw THEN i ELSE pv[j]]

JoinedTo(m, c, i, d) ==
  /\ m + 1 \in Nat /\ d \in [1 .. m + 1 -> Cells] /\ m + 1 \in 1 .. m + 1 /\ d[m + 1] = i
  /\ \A n \in 1 .. m + 1 : n = m + 1 \/ n \in 1 .. m
  /\ \A n \in 1 .. m : n \in 1 .. m + 1 /\ n # m + 1 /\ d[n] = c[n]
  /\ \A n \in 0 .. m + 2 : Place(d, n) = IF n = m + 1 THEN i ELSE Place(c, n)

LEMMA JoinedIs ==
  ASSUME NEW m \in Nat, NEW c \in [1 .. m -> Cells], NEW i \in Cells, NEW d, d = Joined(m, c, i)
  PROVE  JoinedTo(m, c, i, d)
<1>1. m + 1 \in Nat /\ m + 1 \in 1 .. m + 1 /\ \A n \in 1 .. m + 1 : n = m + 1 \/ n \in 1 .. m OBVIOUS
<1>2. \A n \in 1 .. m : n \in 1 .. m + 1 /\ n # m + 1 OBVIOUS
<1>3. d \in [1 .. m + 1 -> Cells] BY <1>1 DEF Joined
<1>4. d[m + 1] = i /\ \A n \in 1 .. m : d[n] = c[n] BY <1>1, <1>2 DEF Joined
<1>5. ASSUME NEW n \in 0 .. m + 2 PROVE Place(d, n) = IF n = m + 1 THEN i ELSE Place(c, n)
  <2>1. CASE n \in 1 .. m BY <1>2, <1>3, <1>4, <2>1 DEF Place
  <2>2. CASE n = m + 1 BY <1>1, <1>3, <1>4, <2>2 DEF Place
  <2>3. CASE n = 0 \/ n = m + 2
    <3>1. n \notin 1 .. m + 1 /\ n \notin 1 .. m /\ n # m + 1 BY <2>3
    <3>2. QED BY <1>3, <3>1 DEF Place
  <2>4. QED BY <2>1, <2>2, <2>3
<1>6. QED BY <1>1, <1>2, <1>3, <1>4, <1>5 DEF JoinedTo

LEMMA LineIn ==
  ASSUME NEW m \in Nat, NEW c, NEW nx \in Links, NEW pv \in Links, NEW nw, NEW od, Line(nx, pv, nw, od, m, c),
         NEW i \in Cells, \A n \in 1 .. m : c[n] # i,
         NEW nx2, NEW pv2, NEW od2, Enters(nx, pv, nw, od, i, nx2, pv2, od2)
  PROVE  Line(nx2, pv2, i, od2, m + 1, Joined(m, c, i))
<1> DEFINE d == Joined(m, c, i)
<1>0. d = Joined(m, c, i) OBVIOUS
<1> HIDE DEF d
<1>1. c \in [1 .. m -> Cells] BY DEF Line
<1>2. /\ \A n \in 1 .. m : Place(c, n) = c[n] /\ c[n] \in Cells /\ c[n] # Nil
      /\ \A n : n \notin 1 .. m => Place(c, n) = Nil
  BY <1>1, LinePlaces
<1>3. \A a, b \in 1 .. m : c[a] = c[b] => a = b BY DEF Line
<1>4. \A n \in 1 .. m : pv[c[n]] = Place(c, n + 1) /\ nx[c[n]] = Place(c, n - 1) BY DEF Line
<1>5. /\ m + 1 \in Nat /\ d \in [1 .. m + 1 -> Cells] /\ m + 1 \in 1 .. m + 1 /\ d[m + 1] = i
      /\ \A n \in 1 .. m + 1 : n = m + 1 \/ n \in 1 .. m
      /\ \A n \in 1 .. m : n \in 1 .. m + 1 /\ n # m + 1 /\ d[n] = c[n]
      /\ \A n \in 0 .. m + 2 : Place(d, n) = IF n = m + 1 THEN i ELSE Place(c, n)
  <2>1. JoinedTo(m, c, i, d) BY <1>0, <1>1, JoinedIs
  <2>2. QED BY <2>1 DEF JoinedTo
<1>6. nw = Place(c, m) /\ od = Place(c, 1) BY DEF Line
<1>7. \A a, b \in 1 .. m + 1 : d[a] = d[b] => a = b BY <1>3, <1>5
<1>8. nw = Nil <=> m = 0
  <2>1. m \in 1 .. m <=> m # 0 OBVIOUS
  <2>2. QED BY <1>2, <1>6, <2>1
<1>9. od2 = Place(d, 1)
  <2>1. 1 \in 0 .. m + 2 /\ (1 = m + 1 <=> m = 0) OBVIOUS
  <2>2. QED BY <1>5, <1>6, <1>8, <2>1 DEF Enters
<1>10. i = Place(d, m + 1)
  <2>1. m + 1 \in 0 .. m + 2 OBVIOUS
  <2>2. QED BY <1>5, <2>1
<1>11. pv2[i] = Nil /\ nx2[i] = nw BY DEF Enters, Links
<1>12. ASSUME NEW n \in 1 .. m PROVE pv2[c[n]] = (IF n = m THEN i ELSE pv[c[n]]) /\ nx2[c[n]] = nx[c[n]]
  <2>1. m \in 1 .. m OBVIOUS
  <2>2. nw = c[m] /\ c[n] \in Cells /\ c[n] # i BY <1>2, <1>6, <2>1
  <2>3. c[n] = nw <=> n = m BY <1>3, <2>1, <2>2
  <2>4. QED BY <2>2, <2>3 DEF Enters, Links
<1>13. ASSUME NEW n \in 1 .. m + 1
       PROVE  pv2[d[n]] = Place(d, n + 1) /\ nx2[d[n]] = Place(d, n - 1)
  <2>1. CASE n = m + 1
    <3>1. n + 1 \in 0 .. m + 2 /\ n + 1 # m + 1 /\ n + 1 \notin 1 .. m BY <2>1
    <3>2. n - 1 \in 0 .. m + 2 /\ n - 1 # m + 1 /\ n - 1 = m BY <2>1
    <3>3. Place(d, n + 1) = Nil /\ Place(d, n - 1) = nw BY <1>2, <1>5, <1>6, <3>1, <3>2
    <3>4. QED BY <1>5, <1>11, <2>1, <3>3
  <2>2. CASE n \in 1 .. m
    <3>1. n + 1 \in 0 .. m + 2 /\ n - 1 \in 0 .. m + 2 /\ n - 1 # m + 1 /\ (n + 1 = m + 1 <=> n = m) BY <2>2
    <3>2. Place(d, n + 1) = (IF n = m THEN i ELSE Place(c, n + 1)) /\ Place(d, n - 1) = Place(c, n - 1)
      BY <1>5, <3>1
    <3>3. d[n] = c[n] BY <1>5, <2>2
    <3>4. QED BY <1>4, <1>12, <2>2, <3>2, <3>3
  <2>3. QED BY <1>5, <2>1, <2>2
<1>14. QED BY <1>5, <1>7, <1>9, <1>10, <1>13 DEF Line, d

\* Only the links of its entries matter to a line.
LEMMA LineSame ==
  ASSUME NEW m, NEW c, NEW nx, NEW pv, NEW nw, NEW od, Line(nx, pv, nw, od, m, c),
         NEW nx2, NEW pv2, \A n \in 1 .. m : nx2[c[n]] = nx[c[n]] /\ pv2[c[n]] = pv[c[n]]
  PROVE  Line(nx2, pv2, nw, od, m, c)
BY DEF Line

\* The keys whose entries stand in the line, and which of two does so before the other.
Standing(m, c, at) == {k \in Keys : \E n \in 1 .. m : c[n] = at[k]}
Ahead(m, c, at) ==
  {x \in Keys \X Keys : \E a, b \in 1 .. m : a < b /\ c[a] = at[x[1]] /\ c[b] = at[x[2]]}

\* What is left of an order without a key.
Spared(o, k) == {x \in o : x[1] # k /\ x[2] # k}

\* The key k alone has the entry that leaves, or that joins.
Quits(m, c, p, at, at2, k) ==
  /\ c \in [1 .. m -> Cells] /\ \A a, b \in 1 .. m : c[a] = c[b] => a = b
  /\ c[p] = at[k] /\ at2[k] \in {Nil, c[p]}
  /\ \A j \in Keys \ {k} : at2[j] = at[j] /\ at[j] # c[p]
Joins(m, c, i, at, at2, k) ==
  /\ c \in [1 .. m -> Cells] /\ \A n \in 1 .. m : c[n] # i
  /\ k \notin Standing(m, c, at) /\ at2[k] = i
  /\ \A j \in Keys \ {k} : at2[j] = at[j] /\ at[j] # i

LEMMA AheadOut ==
  ASSUME NEW m \in Nat, NEW p \in 1 .. m, NEW c, NEW at, NEW at2, NEW k \in Keys, Quits(m, c, p, at, at2, k)
  PROVE  /\ Ahead(m - 1, Dropped(m, c, p), at2) = Spared(Ahead(m, c, at), k)
         /\ Standing(m - 1, Dropped(m, c, p), at2) = Standing(m, c, at) \ {k}
<1> DEFINE d == Dropped(m, c, p)
           New(n) == IF n < p THEN n ELSE n - 1
           Old(n) == IF n < p THEN n ELSE n + 1
<1>0. /\ c \in [1 .. m -> Cells] /\ \A a, b \in 1 .. m : c[a] = c[b] => a = b
      /\ c[p] = at[k] /\ at2[k] \in {Nil, c[p]}
      /\ \A j \in Keys \ {k} : at2[j] = at[j] /\ at[j] # c[p]
  BY DEF Quits
<1>1. /\ \A n \in 1 .. m - 1 : n \in 1 .. m /\ n + 1 \in 1 .. m
      /\ \A n \in 1 .. m - 1 : d[n] = IF n < p THEN c[n] ELSE c[n + 1]
  <2>1. DroppedTo(m, c, p, d) BY <1>0, DroppedIs
  <2>2. QED BY <2>1 DEF DroppedTo
<1> HIDE DEF d
<1>2. \A n \in 1 .. m - 1 : Old(n) \in 1 .. m /\ Old(n) # p /\ d[n] = c[Old(n)] BY <1>1
<1>3. \A n \in 1 .. m \ {p} : New(n) \in 1 .. m - 1 /\ Old(New(n)) = n OBVIOUS
<1>4. \A n \in 1 .. m \ {p} : d[New(n)] = c[n] BY <1>2, <1>3
<1>5. \A a, b \in 1 .. m - 1 : a < b => Old(a) < Old(b) OBVIOUS
<1>6. \A a, b \in 1 .. m \ {p} : a < b => New(a) < New(b) OBVIOUS
<1> HIDE DEF New, Old
<1>7. ASSUME NEW j \in Keys, NEW n \in 1 .. m - 1, d[n] = at2[j]
      PROVE  j # k /\ c[Old(n)] = at[j]
  <2>1. c[Old(n)] # c[p] /\ c[Old(n)] # Nil BY <1>0, <1>2, CellsTyped
  <2>2. QED BY <1>0, <1>2, <1>7, <2>1
<1>8. ASSUME NEW j \in Keys \ {k}, NEW n \in 1 .. m, c[n] = at[j]
      PROVE  n \in 1 .. m \ {p} /\ d[New(n)] = at2[j]
  BY <1>0, <1>4, <1>8
<1>9. Ahead(m - 1, d, at2) \subseteq Spared(Ahead(m, c, at), k)
  <2> SUFFICES ASSUME NEW x \in Keys \X Keys, NEW a \in 1 .. m - 1, NEW b \in 1 .. m - 1,
                      a < b, d[a] = at2[x[1]], d[b] = at2[x[2]]
               PROVE  x \in Spared(Ahead(m, c, at), k)
    BY DEF Ahead
  <2>1. x[1] \in Keys /\ x[2] \in Keys OBVIOUS
  <2>2. x[1] # k /\ c[Old(a)] = at[x[1]] /\ x[2] # k /\ c[Old(b)] = at[x[2]] BY <1>7, <2>1
  <2>3. Old(a) \in 1 .. m /\ Old(b) \in 1 .. m /\ Old(a) < Old(b) BY <1>2, <1>5
  <2>4. QED BY <2>2, <2>3 DEF Ahead, Spared
<1>10. Spared(Ahead(m, c, at), k) \subseteq Ahead(m - 1, d, at2)
  <2> SUFFICES ASSUME NEW x \in Keys \X Keys, NEW a \in 1 .. m, NEW b \in 1 .. m, x[1] # k, x[2] # k,
                      a < b, c[a] = at[x[1]], c[b] = at[x[2]]
               PROVE  x \in Ahead(m - 1, d, at2)
    BY DEF Ahead, Spared
  <2>1. x[1] \in Keys \ {k} /\ x[2] \in Keys \ {k} OBVIOUS
  <2>2. a \in 1 .. m \ {p} /\ d[New(a)] = at2[x[1]] /\ b \in 1 .. m \ {p} /\ d[New(b)] = at2[x[2]] BY <1>8, <2>1
  <2>3. New(a) \in 1 .. m - 1 /\ New(b) \in 1 .. m - 1 /\ New(a) < New(b) BY <1>3, <1>6, <2>2
  <2>4. QED BY <2>2, <2>3 DEF Ahead
<1>11. Standing(m - 1, d, at2) = Standing(m, c, at) \ {k}
  <2>1. \A j \in Standing(m - 1, d, at2) : j \in Standing(m, c, at) \ {k} BY <1>2, <1>7 DEF Standing
  <2>2. \A j \in Standing(m, c, at) \ {k} : j \in Standing(m - 1, d, at2) BY <1>3, <1>8 DEF Standing
  <2>3. QED BY <2>1, <2>2
<1>12. QED BY <1>9, <1>10, <1>11 DEF d

LEMMA AheadIn ==
  ASSUME NEW m \in Nat, NEW i \in Cells, NEW c, NEW at, NEW at2, NEW k \in Keys, Joins(m, c, i, at, at2, k)
  PROVE  Ahead(m + 1, Joined(m, c, i), at2) = Ahead(m, c, at) \cup (Standing(m, c, at) \X {k})
<1> DEFINE d == Joined(m, c, i)
<1>0. /\ c \in [1 .. m -> Cells] /\ \A n \in 1 .. m : c[n] # i
      /\ k \notin Standing(m, c, at) /\ at2[k] = i
      /\ \A j \in Keys \ {k} : at2[j] = at[j] /\ at[j] # i
  BY DEF Joins
<1>1. JoinedTo(m, c, i, d) BY <1>0, JoinedIs
<1> HIDE DEF d
<1>2. /\ m + 1 \in 1 .. m + 1 /\ d[m + 1] = i
      /\ \A n \in 1 .. m + 1 : n = m + 1 \/ n \in 1 .. m
      /\ \A n \in 1 .. m : n \in 1 .. m + 1 /\ d[n] = c[n]
  BY <1>1 DEF JoinedTo
<1>3. ASSUME NEW j \in Keys, NEW n \in 1 .. m
      PROVE  d[n] = at2[j] <=> (j # k /\ c[n] = at[j])
  BY <1>0, <1>2
<1>4. \A j \in Keys, n \in 1 .. m : c[n] = at[j] => j # k BY <1>0 DEF Standing
<1>5. ASSUME NEW x \in Keys \X Keys, NEW a \in 1 .. m + 1, NEW b \in 1 .. m + 1,
             a < b, d[a] = at2[x[1]], d[b] = at2[x[2]]
      PROVE  x \in Ahead(m, c, at) \cup (Standing(m, c, at) \X {k})
  <2>1. a \in 1 .. m /\ x[1] \in Keys /\ x[2] \in Keys BY <1>5
  <2>2. c[a] = at[x[1]] BY <1>3, <1>5, <2>1
  <2>3. CASE b \in 1 .. m BY <1>3, <1>5, <2>1, <2>2, <2>3 DEF Ahead
  <2>4. CASE b = m + 1
    <3>1. x[2] = k BY <1>0, <1>2, <1>5, <2>1, <2>4
    <3>2. x[1] \in Standing(m, c, at) BY <2>1, <2>2 DEF Standing
    <3>3. QED BY <3>1, <3>2
  <2>5. QED BY <1>2, <2>3, <2>4
<1>6. ASSUME NEW x \in Ahead(m, c, at) PROVE x \in Ahead(m + 1, d, at2)
  <2>1. x \in Keys \X Keys BY DEF Ahead
  <2>2. PICK a \in 1 .. m, b \in 1 .. m : a < b /\ c[a] = at[x[1]] /\ c[b] = at[x[2]] BY DEF Ahead
  <2>3. x[1] \in Keys /\ x[2] \in Keys BY <2>1
  <2>4. d[a] = at2[x[1]] /\ d[b] = at2[x[2]] BY <1>3, <1>4, <2>2, <2>3
  <2>5. a \in 1 .. m + 1 /\ b \in 1 .. m + 1 BY <1>2
  <2>6. QED BY <2>1, <2>2, <2>4, <2>5 DEF Ahead
<1>7. ASSUME NEW j \in Standing(m, c, at) PROVE <<j, k>> \in Ahead(m + 1, d, at2)
  <2>1. j \in Keys BY DEF Standing
  <2>2. PICK a \in 1 .. m : c[a] = at[j] BY DEF Standing
  <2>3. d[a] = at2[j] /\ a \in 1 .. m + 1 BY <1>2, <1>3, <1>4, <2>1, <2>2
  <2>4. a < m + 1 /\ d[m + 1] = at2[k] /\ m + 1 \in 1 .. m + 1 BY <1>0, <1>2
  <2>5. QED BY <2>1, <2>3, <2>4 DEF Ahead
<1>8. \A x \in Ahead(m + 1, d, at2) : x \in Ahead(m, c, at) \cup (Standing(m, c, at) \X {k})
  BY <1>5 DEF Ahead
<1>9. \A x \in Standing(m, c, at) \X {k} : x \in Ahead(m + 1, d, at2)
  <2> TAKE x \in Standing(m, c, at) \X {k}
  <2>1. PICK j \in Standing(m, c, at) : x = <<j, k>> OBVIOUS
  <2>2. QED BY <1>7, <2>1
<1>10. QED BY <1>6, <1>8, <1>9 DEF d

\* The walk from the oldest goes along the line.
LEMMA WalkIs ==
  ASSUME NEW l, NEW m \in Nat, m = l.count, NEW c, Line(l.next, l.prev, l.newest, l.oldest, m, c)
  PROVE  \A n \in 1 .. m : L!Walk(l)[n] = c[n]
<1> DEFINE W(w) == w = [n \in 1 .. m |-> IF n = 1 THEN l.oldest ELSE l.prev[w[n - 1]]]
           u == L!Walk(l)
<1>1. c \in [1 .. m -> Cells] BY DEF Line
<1>2. \A n \in 1 .. m : Place(c, n) = c[n] BY <1>1, LinePlaces
<1>3. \A n \in 1 .. m : c[n] = IF n = 1 THEN l.oldest ELSE l.prev[c[n - 1]]
  <2> TAKE n \in 1 .. m
  <2>1. CASE n = 1 BY <1>2, <2>1 DEF Line
  <2>2. CASE n # 1
    <3>1. n - 1 \in 1 .. m /\ (n - 1) + 1 = n BY <2>2
    <3>2. l.prev[c[n - 1]] = Place(c, (n - 1) + 1) BY <3>1 DEF Line
    <3>3. QED BY <1>2, <2>2, <3>1, <3>2
  <2>3. QED BY <2>1, <2>2
<1>4. W(c) BY <1>1, <1>3
<1>5. u = CHOOSE w : W(w) BY DEF L!Walk
<1>6. W(u)
  <2> HIDE DEF W, u
  <2>1. QED BY <1>4, <1>5, Zenon
<1> HIDE DEF u
<1>7. \A n \in 1 .. m : u[n] = IF n = 1 THEN l.oldest ELSE l.prev[u[n - 1]] BY <1>6
<1> HIDE DEF W
<1> DEFINE Off == {n \in 1 .. m : u[n] # c[n]}
<1>8. SUFFICES ASSUME Off # {} PROVE FALSE BY DEF u
<1>9. Off \subseteq Nat OBVIOUS
<1>10. PICK n \in Off : \A y \in Off : n <= y BY <1>8, <1>9, LeastNat
<1>11. n # 1 BY <1>3, <1>7
<1>12. n - 1 \in 1 .. m /\ n - 1 \notin Off BY <1>10, <1>11
<1>13. QED BY <1>3, <1>7, <1>11, <1>12

-----------------------------------------------------------------------------
(* The list of LRU and FIFO.                                               *)

ListsOf ==
  [next : Links, prev : Links, newest : Cells \cup {Nil}, oldest : Cells \cup {Nil},
   empty : [Cells -> Cells], count : 0 .. Capacity, at : [Keys -> Cells \cup {Nil}]]

Listed(l) == {k \in Keys : l.at[k] # Nil}
InUse(l) == {l.at[k] : k \in Listed(l)}

\* The entries on the stack above count are empty, each once, and those in use have a
\* key each and stand in a line.
ListBase(l) ==
  /\ l \in ListsOf
  /\ \A k, j \in Listed(l) : l.at[k] = l.at[j] => k = j
  /\ Cardinality(Listed(l)) = l.count
  /\ \A n \in l.count .. Capacity - 1 : l.empty[n] \notin InUse(l)
  /\ \A m, n \in l.count .. Capacity - 1 : l.empty[m] = l.empty[n] => m = n
IsLine(l, c) ==
  /\ Line(l.next, l.prev, l.newest, l.oldest, l.count, c)
  /\ InUse(l) = {c[n] : n \in 1 .. l.count}
ListInv(l) == ListBase(l) /\ \E c : IsLine(l, c)

LEMMA UseTyped ==
  ASSUME NEW l \in ListsOf
  PROVE  /\ InUse(l) \subseteq Cells /\ IsFiniteSet(Listed(l))
         /\ l.next \in Links /\ l.prev \in Links /\ l.count \in Nat /\ l.count <= Capacity
         /\ l.newest \in Cells \cup {Nil} /\ l.oldest \in Cells \cup {Nil}
         /\ l.empty \in [Cells -> Cells] /\ l.at \in [Keys -> Cells \cup {Nil}]
<1>1. /\ l.next \in Links /\ l.prev \in Links
      /\ l.newest \in Cells \cup {Nil} /\ l.oldest \in Cells \cup {Nil}
      /\ l.empty \in [Cells -> Cells] /\ l.at \in [Keys -> Cells \cup {Nil}]
  BY DEF ListsOf
<1>2. l.count \in Nat /\ l.count <= Capacity BY CellsTyped DEF ListsOf
<1>3. InUse(l) \subseteq Cells BY <1>1 DEF InUse, Listed
<1>4. IsFiniteSet(Listed(l)) BY ReplacementAssumption, FS_Subset DEF Listed
<1>5. QED BY <1>1, <1>2, <1>3, <1>4

\* lru_relink_neighbors_of and lru_set_mru, field by field.
UnlinkedIs(l, i, u) ==
  /\ Leaves(l.next, l.prev, l.newest, l.oldest, i, u.next, u.prev, u.newest, u.oldest)
  /\ u.empty = l.empty /\ u.count = l.count /\ u.at = l.at /\ u \in ListsOf
LinkedIs(l, i, v) ==
  /\ v.newest = i /\ Enters(l.next, l.prev, l.newest, l.oldest, i, v.next, v.prev, v.oldest)
  /\ v.empty = l.empty /\ v.count = l.count /\ v.at = l.at /\ v \in ListsOf

LEMMA ListFields ==
  ASSUME NEW l \in ListsOf, NEW i \in Cells
  PROVE  UnlinkedIs(l, i, L!Unlinked(l, i)) /\ LinkedIs(l, i, L!Linked(l, i))
<1> DEFINE u == L!Unlinked(l, i)
           v == L!Linked(l, i)
<1>1. /\ u.newest = IF i = l.newest THEN l.next[i] ELSE l.newest
      /\ u.oldest = IF i = l.oldest THEN l.prev[i] ELSE l.oldest
      /\ u.next = IF i = l.newest THEN l.next ELSE [l.next EXCEPT ![l.prev[i]] = l.next[i]]
      /\ u.prev = IF i = l.oldest THEN l.prev ELSE [l.prev EXCEPT ![l.next[i]] = l.prev[i]]
      /\ u.empty = l.empty /\ u.count = l.count /\ u.at = l.at
  BY DEF ListsOf, L!Unlinked
<1>2. /\ v.newest = i /\ v.oldest = IF l.newest = Nil THEN i ELSE l.oldest
      /\ v.next = [l.next EXCEPT ![i] = l.newest]
      /\ v.prev = [j \in Cells |-> IF j = i THEN Nil ELSE IF j = l.newest THEN i ELSE l.prev[j]]
      /\ v.empty = l.empty /\ v.count = l.count /\ v.at = l.at
  BY DEF ListsOf, L!Linked, Nil, Cells
<1>3. u \in ListsOf
  <2>1. l.next \in Links /\ l.prev \in Links /\ l.newest \in Cells \cup {Nil} /\ l.oldest \in Cells \cup {Nil}
    BY UseTyped
  <2> DEFINE a == IF i = l.newest THEN l.next ELSE [l.next EXCEPT ![l.prev[i]] = l.next[i]]
             b == IF i = l.oldest THEN l.prev ELSE [l.prev EXCEPT ![l.next[i]] = l.prev[i]]
             m == IF i = l.newest THEN l.next[i] ELSE l.newest
             o == IF i = l.oldest THEN l.prev[i] ELSE l.oldest
  <2>2. a \in Links /\ b \in Links /\ m \in Cells \cup {Nil} /\ o \in Cells \cup {Nil} BY <2>1 DEF Links
  <2>3. u = [l EXCEPT !.newest = m, !.oldest = o, !.next = a, !.prev = b] BY DEF L!Unlinked
  <2> HIDE DEF a, b, m, o, u
  <2>4. QED BY <2>2, <2>3 DEF ListsOf
<1>4. v \in ListsOf
  <2>1. l.next \in Links /\ l.prev \in Links /\ l.newest \in Cells \cup {Nil} /\ l.oldest \in Cells \cup {Nil}
    BY UseTyped
  <2> DEFINE a == [l.next EXCEPT ![i] = l.newest]
             b == [j \in Cells |-> IF j = i THEN Nil ELSE IF j = l.newest THEN i ELSE l.prev[j]]
             o == IF l.newest = Nil THEN i ELSE l.oldest
  <2>2. a \in Links /\ b \in Links /\ o \in Cells \cup {Nil} BY <2>1 DEF Links
  <2>3. v = [l EXCEPT !.newest = i, !.oldest = o, !.next = a, !.prev = b] BY DEF L!Linked, Nil, Cells
  <2> HIDE DEF a, b, o, v
  <2>4. QED BY <2>2, <2>3 DEF ListsOf
<1>5. UnlinkedIs(l, i, u) BY <1>1, <1>3 DEF UnlinkedIs, Leaves
<1>6. LinkedIs(l, i, v) BY <1>2, <1>4 DEF LinkedIs, Enters
<1>7. QED BY <1>5, <1>6

\* What the links stand for.
LEMMA LineShows ==
  ASSUME NEW l, ListBase(l), NEW c, IsLine(l, c)
  PROVE  /\ l.count \in Nat /\ c \in [1 .. l.count -> Cells]
         /\ \A a, b \in 1 .. l.count : c[a] = c[b] => a = b
         /\ Standing(l.count, c, l.at) = Listed(l) /\ L!Lined(l) = Listed(l)
         /\ L!Older(l) = Ahead(l.count, c, l.at)
<1>1. l.count \in Nat BY UseTyped DEF ListBase
<1>2. c \in [1 .. l.count -> Cells] /\ \A a, b \in 1 .. l.count : c[a] = c[b] => a = b BY DEF IsLine, Line
<1>3. InUse(l) = {c[n] : n \in 1 .. l.count} BY DEF IsLine
<1>4. \A n \in 1 .. l.count : L!Walk(l)[n] = c[n] BY <1>1, WalkIs DEF IsLine
<1>5. Standing(l.count, c, l.at) = Listed(l)
  <2>1. ASSUME NEW k \in Listed(l) PROVE k \in Standing(l.count, c, l.at)
    <3>1. l.at[k] \in InUse(l) /\ k \in Keys BY DEF InUse, Listed
    <3>2. QED BY <1>3, <3>1 DEF Standing
  <2>2. ASSUME NEW k \in Standing(l.count, c, l.at) PROVE k \in Listed(l)
    <3>1. k \in Keys /\ \E n \in 1 .. l.count : c[n] = l.at[k] BY DEF Standing
    <3>2. QED BY <1>2, <3>1, CellsTyped DEF Listed
  <2>3. QED BY <2>1, <2>2
<1>6. L!Lined(l) = Standing(l.count, c, l.at) BY <1>4 DEF L!Lined, Standing
<1>7. L!Older(l) = Ahead(l.count, c, l.at) BY <1>4 DEF L!Older, Ahead
<1>8. QED BY <1>1, <1>2, <1>5, <1>6, <1>7

LEMMA ListNew == ListInv(L!NewList) /\ Listed(L!NewList) = {} /\ L!Older(L!NewList) = {}
<1> DEFINE l == L!NewList
<1>1. /\ l.next = [i \in Cells |-> Nil] /\ l.prev = [i \in Cells |-> Nil] /\ l.newest = Nil /\ l.oldest = Nil
      /\ l.empty = [n \in Cells |-> n] /\ l.count = 0 /\ l.at = [k \in Keys |-> Nil]
  BY DEF L!NewList, Cells, Nil
<1>2. l \in ListsOf
  <2>1. 0 \in 0 .. Capacity BY CellsTyped
  <2>2. QED BY <2>1 DEF ListsOf, Links, L!NewList, Cells, Nil
<1>3. Listed(l) = {} BY <1>1 DEF Listed
<1>4. InUse(l) = {} BY <1>3 DEF InUse
<1>5. Cardinality(Listed(l)) = 0 BY <1>3, FS_EmptySet
<1> DEFINE c == [n \in 1 .. 0 |-> 0]
<1>6. IsLine(l, c)
  <2>1. 1 .. 0 = {} OBVIOUS
  <2>2. c \in [1 .. 0 -> Cells] /\ {c[n] : n \in 1 .. 0} = {} BY <2>1
  <2>3. Place(c, 1) = Nil /\ Place(c, 0) = Nil BY <2>1, <2>2 DEF Place
  <2> HIDE DEF c
  <2>4. Line(l.next, l.prev, l.newest, l.oldest, 0, c) BY <1>1, <2>1, <2>2, <2>3 DEF Line
  <2>5. QED BY <1>1, <1>4, <2>2, <2>4 DEF IsLine
<1>7. \A n \in 0 .. Capacity - 1 : l.empty[n] = n BY <1>1, CellsTyped
<1>8. L!Older(l) = {}
  <2>1. l.count = 0 BY <1>1
  <2> HIDE DEF l
  <2>2. QED BY <2>1 DEF L!Older
<1>9. ListBase(l) BY <1>1, <1>2, <1>3, <1>4, <1>5, <1>7 DEF ListBase
<1>10. QED BY <1>3, <1>6, <1>8, <1>9 DEF ListInv

LEMMA ListStored ==
  ASSUME NEW l, ListInv(l), l.count < Capacity, NEW k \in Keys, l.at[k] = Nil
  PROVE  /\ ListInv(L!Stored(l, k)) /\ Listed(L!Stored(l, k)) = Listed(l) \cup {k}
         /\ L!Older(L!Stored(l, k)) = L!Older(l) \cup (Listed(l) \X {k})
<1> DEFINE i == l.empty[l.count]
           v == L!Linked(l, i)
           s == L!Stored(l, k)
           n1 == l.count + 1
<1>1. l \in ListsOf /\ ListBase(l) BY DEF ListInv, ListBase
<1>2. /\ InUse(l) \subseteq Cells /\ IsFiniteSet(Listed(l)) /\ l.count \in Nat
      /\ l.next \in Links /\ l.prev \in Links
      /\ l.empty \in [Cells -> Cells] /\ l.at \in [Keys -> Cells \cup {Nil}]
  BY <1>1, UseTyped
<1>3. l.count \in Cells /\ l.count \in l.count .. Capacity - 1 BY <1>2, CellsTyped
<1>4. i \in Cells /\ i \notin InUse(l) /\ i # Nil
  <2>1. i \in Cells BY <1>2, <1>3
  <2>2. i \notin InUse(l) BY <1>1, <1>3 DEF ListBase
  <2>3. QED BY <2>1, <2>2, CellsTyped
<1> HIDE DEF i
<1>5. LinkedIs(l, i, v) BY <1>1, <1>4, ListFields
<1>6. s = [v EXCEPT !.at[k] = i, !.count = n1] /\ v.empty = l.empty /\ v.count = l.count /\ v.at = l.at /\ v \in ListsOf
  BY <1>5 DEF L!Stored, i, LinkedIs
<1>7. n1 \in 0 .. Capacity /\ n1 \in Nat
  <2>1. l.count \in Nat BY <1>2
  <2>2. QED BY <2>1, CellsTyped
<1> HIDE DEF v, n1
<1>8. /\ s.newest = v.newest /\ s.oldest = v.oldest /\ s.next = v.next /\ s.prev = v.prev
      /\ s.empty = l.empty /\ s.count = n1 /\ s.at = [l.at EXCEPT ![k] = i] /\ s \in ListsOf
  <2>1. [l.at EXCEPT ![k] = i] \in [Keys -> Cells \cup {Nil}] BY <1>2, <1>4
  <2>2. s = [v EXCEPT !.at = [l.at EXCEPT ![k] = i], !.count = n1] BY <1>6 DEF ListsOf
  <2> DEFINE a == [l.at EXCEPT ![k] = i]
  <2>3. a \in [Keys -> Cells \cup {Nil}] /\ s = [v EXCEPT !.at = a, !.count = n1] BY <2>1, <2>2
  <2> HIDE DEF a, s
  <2>4. s \in ListsOf BY <1>6, <1>7, <2>3 DEF ListsOf
  <2>5. /\ s.newest = v.newest /\ s.oldest = v.oldest /\ s.next = v.next /\ s.prev = v.prev
        /\ s.empty = v.empty /\ s.count = n1 /\ s.at = a
    BY <1>6, <2>3 DEF ListsOf
  <2>6. QED BY <1>6, <2>4, <2>5 DEF a
<1> HIDE DEF s
<1>9. Listed(s) = Listed(l) \cup {k} BY <1>2, <1>4, <1>8 DEF Listed
<1>10. k \notin Listed(l) BY DEF Listed
<1>11. \A j \in Listed(l) : s.at[j] = l.at[j] /\ l.at[j] # i BY <1>2, <1>4, <1>8, <1>10 DEF InUse, Listed
<1>12. s.at[k] = i BY <1>2, <1>8
<1>13. InUse(s) = InUse(l) \cup {i} BY <1>9, <1>11, <1>12 DEF InUse
<1>14. \A x, y \in Listed(s) : s.at[x] = s.at[y] => x = y BY <1>1, <1>9, <1>11, <1>12 DEF ListBase
<1>15. Cardinality(Listed(s)) = s.count
  <2>1. Cardinality(Listed(s)) = Cardinality(Listed(l)) + 1 BY <1>2, <1>9, <1>10, FS_AddElement
  <2>2. QED BY <1>1, <1>8, <2>1 DEF ListBase, n1
<1>16. \A m \in s.count .. Capacity - 1 : m \in l.count .. Capacity - 1 /\ m # l.count
  <2>1. l.count \in Nat /\ s.count = l.count + 1 BY <1>2, <1>8 DEF n1
  <2>2. QED BY <2>1, CellsTyped
<1>17. \A m \in s.count .. Capacity - 1 : s.empty[m] \notin InUse(s)
  BY <1>1, <1>3, <1>8, <1>13, <1>16 DEF ListBase, i
<1>18. \A m, n \in s.count .. Capacity - 1 : s.empty[m] = s.empty[n] => m = n
  BY <1>1, <1>8, <1>16 DEF ListBase
<1>19. ListBase(s) BY <1>8, <1>14, <1>15, <1>17, <1>18 DEF ListBase
<1>20. PICK c : IsLine(l, c) BY DEF ListInv
<1> DEFINE d == Joined(l.count, c, i)
<1>21. /\ c \in [1 .. l.count -> Cells] /\ Standing(l.count, c, l.at) = Listed(l)
       /\ L!Older(l) = Ahead(l.count, c, l.at)
  BY <1>1, <1>20, LineShows
<1>22. InUse(l) = {c[n] : n \in 1 .. l.count} BY <1>20 DEF IsLine
<1>23. \A n \in 1 .. l.count : c[n] # i BY <1>4, <1>22
<1>24. Line(s.next, s.prev, s.newest, s.oldest, s.count, d)
  <2>1. Line(l.next, l.prev, l.newest, l.oldest, l.count, c) BY <1>20 DEF IsLine
  <2>2. v.newest = i /\ Enters(l.next, l.prev, l.newest, l.oldest, i, v.next, v.prev, v.oldest)
    BY <1>5 DEF LinkedIs
  <2>3. Line(v.next, v.prev, i, v.oldest, l.count + 1, d) BY <1>2, <1>4, <1>23, <2>1, <2>2, LineIn
  <2>4. QED BY <1>8, <2>2, <2>3 DEF n1
<1>25. JoinedTo(l.count, c, i, d) BY <1>2, <1>4, <1>21, JoinedIs
<1>26. Ahead(l.count + 1, d, s.at) = L!Older(l) \cup (Listed(l) \X {k})
  <2>1. \A j \in Keys \ {k} : s.at[j] = l.at[j] /\ l.at[j] # i BY <1>2, <1>4, <1>8 DEF InUse, Listed
  <2>2. Joins(l.count, c, i, l.at, s.at, k) BY <1>10, <1>12, <1>21, <1>23, <2>1 DEF Joins
  <2>3. Ahead(l.count + 1, d, s.at) = Ahead(l.count, c, l.at) \cup (Standing(l.count, c, l.at) \X {k})
    BY <1>2, <1>4, <2>2, AheadIn
  <2>4. QED BY <1>21, <2>3
<1> HIDE DEF d
<1>27. InUse(s) = {d[n] : n \in 1 .. s.count}
  <2>1. s.count = l.count + 1 BY <1>8 DEF n1
  <2>2. /\ l.count + 1 \in 1 .. l.count + 1 /\ d[l.count + 1] = i
        /\ \A n \in 1 .. l.count + 1 : n = l.count + 1 \/ n \in 1 .. l.count
        /\ \A n \in 1 .. l.count : n \in 1 .. l.count + 1 /\ d[n] = c[n]
    BY <1>25 DEF JoinedTo
  <2>3. QED BY <1>13, <1>22, <2>1, <2>2
<1>28. IsLine(s, d) BY <1>24, <1>27 DEF IsLine
<1>29. L!Older(s) = L!Older(l) \cup (Listed(l) \X {k})
  <2>1. s.count = l.count + 1 /\ L!Older(s) = Ahead(s.count, d, s.at) BY <1>8, <1>19, <1>28, LineShows DEF n1
  <2>2. QED BY <1>26, <2>1
<1>30. QED BY <1>9, <1>19, <1>28, <1>29 DEF ListInv, s

LEMMA ListRemoved ==
  ASSUME NEW l, ListInv(l), NEW k \in Keys, l.at[k] # Nil
  PROVE  /\ ListInv(L!Removed(l, l.at[k])) /\ Listed(L!Removed(l, l.at[k])) = Listed(l) \ {k}
         /\ L!Removed(l, l.at[k]).count = l.count - 1 /\ l.count >= 1
         /\ L!Older(L!Removed(l, l.at[k])) = Spared(L!Older(l), k)
<1> DEFINE i == l.at[k]
           u == L!Unlinked(l, i)
           r == L!Removed(l, i)
           n1 == l.count - 1
<1>1. l \in ListsOf /\ ListBase(l) BY DEF ListInv, ListBase
<1>2. /\ InUse(l) \subseteq Cells /\ IsFiniteSet(Listed(l)) /\ l.count \in Nat /\ l.count <= Capacity
      /\ l.next \in Links /\ l.prev \in Links
      /\ l.empty \in [Cells -> Cells] /\ l.at \in [Keys -> Cells \cup {Nil}]
  BY <1>1, UseTyped
<1>3. k \in Listed(l) /\ i \in InUse(l) /\ i \in Cells /\ i # Nil
  BY <1>2 DEF Listed, InUse
<1>4. \A j \in Keys : l.at[j] = i => j = k BY <1>1, <1>3 DEF ListBase, Listed
<1>5. Cardinality(Listed(l) \ {k}) = l.count - 1 /\ l.count >= 1
  <2>1. Cardinality(Listed(l) \ {k}) = Cardinality(Listed(l)) - 1 /\ IsFiniteSet(Listed(l) \ {k})
    BY <1>2, <1>3, FS_RemoveElement
  <2>2. Cardinality(Listed(l) \ {k}) \in Nat BY <2>1, FS_CardinalityType
  <2>3. QED BY <1>1, <1>2, <2>1, <2>2 DEF ListBase
<1> HIDE DEF i
<1>6. UnlinkedIs(l, i, u) BY <1>1, <1>3, ListFields
<1>60. u.empty = l.empty /\ u.count = l.count /\ u.at = l.at /\ u \in ListsOf BY <1>6 DEF UnlinkedIs
<1> DEFINE a == [j \in Keys |-> IF l.at[j] = i THEN Nil ELSE l.at[j]]
           x == [u.next EXCEPT ![i] = 0]
           p == [u.prev EXCEPT ![i] = 0]
           e == [l.empty EXCEPT ![n1] = i]
<1>7. r = [u EXCEPT !.at = a, !.next = x, !.prev = p, !.count = n1, !.empty = e]
  BY DEF L!Removed, Nil
<1>8. n1 \in Cells /\ n1 \in 0 .. Capacity /\ n1 \in Nat
  <2>1. l.count \in Nat /\ l.count <= Capacity /\ l.count >= 1 BY <1>2, <1>5
  <2>2. QED BY <2>1, CellsTyped
<1>9. a \in [Keys -> Cells \cup {Nil}] /\ e \in [Cells -> Cells] BY <1>2, <1>3, <1>8
<1>10. u.next \in Links /\ u.prev \in Links BY <1>60, UseTyped
<1>11. x \in Links /\ p \in Links BY <1>10, CellsTyped DEF Links
<1> HIDE DEF u, r, n1
<1>12. /\ r \in ListsOf /\ r.newest = u.newest /\ r.oldest = u.oldest /\ r.next = x /\ r.prev = p
       /\ r.at = a /\ r.count = n1 /\ r.empty = e
  <2> HIDE DEF a, x, p, e
  <2>1. r \in ListsOf BY <1>60, <1>7, <1>8, <1>9, <1>11 DEF ListsOf
  <2>2. /\ r.newest = u.newest /\ r.oldest = u.oldest /\ r.next = x /\ r.prev = p
        /\ r.at = a /\ r.count = n1 /\ r.empty = e
    BY <1>60, <1>7 DEF ListsOf
  <2>3. QED BY <2>1, <2>2
<1>13. Listed(r) = Listed(l) \ {k} BY <1>3, <1>4, <1>12 DEF Listed, i
<1>14. \A j \in Listed(r) : r.at[j] = l.at[j] /\ l.at[j] # i BY <1>4, <1>12, <1>13 DEF Listed
<1>15. InUse(r) = InUse(l) \ {i}
  <2>1. \A j \in Listed(l) : (l.at[j] # i) <=> (j # k) BY <1>4 DEF i, Listed
  <2>2. QED BY <1>13, <1>14, <2>1 DEF InUse
<1>16. \A y, z \in Listed(r) : r.at[y] = r.at[z] => y = z BY <1>1, <1>13, <1>14 DEF ListBase
<1>17. Cardinality(Listed(r)) = r.count BY <1>5, <1>12, <1>13 DEF n1
<1>18. \A m \in r.count .. Capacity - 1 : /\ m \in Cells /\ (m = n1 \/ m \in l.count .. Capacity - 1)
                                          /\ r.empty[m] = IF m = n1 THEN i ELSE l.empty[m]
  <2>1. l.count \in Nat /\ l.count >= 1 /\ n1 = l.count - 1 /\ r.count = n1 BY <1>2, <1>5, <1>12 DEF n1
  <2>2. \A m \in r.count .. Capacity - 1 : m \in Cells /\ (m = n1 \/ m \in l.count .. Capacity - 1)
    BY <2>1, CellsTyped
  <2>3. \A m \in Cells : r.empty[m] = IF m = n1 THEN i ELSE l.empty[m] BY <1>2, <1>12
  <2>4. QED BY <2>2, <2>3
<1>19. \A m \in r.count .. Capacity - 1 : r.empty[m] \notin InUse(r) BY <1>1, <1>15, <1>18 DEF ListBase
<1>20. \A m, n \in r.count .. Capacity - 1 : r.empty[m] = r.empty[n] => m = n BY <1>1, <1>3, <1>18 DEF ListBase
<1>21. ListBase(r) BY <1>12, <1>16, <1>17, <1>19, <1>20 DEF ListBase
<1>22. PICK c : IsLine(l, c) BY DEF ListInv
<1>23. /\ c \in [1 .. l.count -> Cells] /\ \A m, n \in 1 .. l.count : c[m] = c[n] => m = n
       /\ L!Older(l) = Ahead(l.count, c, l.at)
  BY <1>1, <1>22, LineShows
<1>24. InUse(l) = {c[n] : n \in 1 .. l.count} BY <1>22 DEF IsLine
<1>25. PICK q \in 1 .. l.count : c[q] = i BY <1>3, <1>24
<1> DEFINE d == Dropped(l.count, c, q)
<1>26. DroppedTo(l.count, c, q, d) BY <1>2, <1>23, DroppedIs
<1>27. Line(u.next, u.prev, u.newest, u.oldest, l.count - 1, d)
  <2>1. Line(l.next, l.prev, l.newest, l.oldest, l.count, c) BY <1>22 DEF IsLine
  <2>2. Leaves(l.next, l.prev, l.newest, l.oldest, c[q], u.next, u.prev, u.newest, u.oldest)
    BY <1>6, <1>25 DEF UnlinkedIs
  <2>3. QED BY <1>2, <2>1, <2>2, LineOut
<1>28. Ahead(l.count - 1, d, r.at) = Spared(L!Older(l), k)
  <2>1. \A j \in Keys \ {k} : r.at[j] = l.at[j] /\ l.at[j] # c[q] BY <1>4, <1>12, <1>25
  <2>2. r.at[k] \in {Nil, c[q]} /\ c[q] = l.at[k] BY <1>12, <1>25 DEF i
  <2> HIDE DEF d
  <2>3. Ahead(l.count - 1, Dropped(l.count, c, q), r.at) = Spared(Ahead(l.count, c, l.at), k)
    <3>1. Quits(l.count, c, q, l.at, r.at, k) BY <1>23, <2>1, <2>2 DEF Quits
    <3>2. QED BY <1>2, <3>1, AheadOut
  <2>4. QED BY <1>23, <2>3 DEF d
<1> HIDE DEF d
<1>29. {d[n] : n \in 1 .. l.count - 1} = InUse(l) \ {i}
  <2>1. /\ \A n \in 1 .. l.count - 1 : n \in 1 .. l.count /\ n + 1 \in 1 .. l.count
        /\ \A n \in 1 .. l.count - 1 : d[n] = IF n < q THEN c[n] ELSE c[n + 1]
    BY <1>26 DEF DroppedTo
  <2>2. \A n \in 1 .. l.count - 1 : d[n] \in InUse(l) /\ d[n] # c[q]
    <3> TAKE n \in 1 .. l.count - 1
    <3>1. PICK m \in 1 .. l.count : m # q /\ d[n] = c[m]
      <4>1. CASE n < q BY <2>1, <4>1
      <4>2. CASE ~(n < q) BY <2>1, <4>2
      <4>3. QED BY <4>1, <4>2
    <3>2. QED BY <1>23, <1>24, <3>1
  <2>3. \A m \in 1 .. l.count : m # q => \E n \in 1 .. l.count - 1 : d[n] = c[m]
    <3> TAKE m \in 1 .. l.count
    <3>1. HAVE m # q
    <3>2. CASE m < q
      <4>1. m \in 1 .. l.count - 1 BY <1>2, <3>2
      <4>2. QED BY <2>1, <3>2, <4>1
    <3>3. CASE ~(m < q)
      <4>1. m - 1 \in 1 .. l.count - 1 /\ ~(m - 1 < q) /\ (m - 1) + 1 = m BY <1>2, <3>1, <3>3
      <4>2. QED BY <2>1, <4>1
    <3>4. QED BY <3>2, <3>3
  <2>4. QED BY <1>24, <1>25, <2>2, <2>3
<1>30. IsLine(r, d)
  <2>1. \A j \in InUse(l) \ {i} : x[j] = u.next[j] /\ p[j] = u.prev[j] BY <1>2, <1>10 DEF Links
  <2>2. \A n \in 1 .. l.count - 1 : x[d[n]] = u.next[d[n]] /\ p[d[n]] = u.prev[d[n]] BY <1>29, <2>1
  <2> HIDE DEF x, p
  <2>3. Line(x, p, u.newest, u.oldest, l.count - 1, d) BY <1>27, <2>2, LineSame
  <2>4. QED BY <1>12, <1>15, <1>29, <2>3 DEF IsLine, n1
<1>31. L!Older(r) = Spared(L!Older(l), k)
  <2>1. r.count = l.count - 1 /\ L!Older(r) = Ahead(r.count, d, r.at) BY <1>12, <1>21, <1>30, LineShows DEF n1
  <2>2. QED BY <1>28, <2>1
<1>32. ListInv(r) BY <1>21, <1>30 DEF ListInv
<1>33. QED BY <1>5, <1>12, <1>13, <1>31, <1>32 DEF r, n1, i

LEMMA ListTouched ==
  ASSUME NEW l, ListInv(l), NEW k \in Keys
  PROVE  /\ ListInv(L!Touched(l, k)) /\ Listed(L!Touched(l, k)) = Listed(l)
         /\ k \notin Listed(l) => L!Touched(l, k) = l
         /\ k \in Listed(l) =>
              L!Older(L!Touched(l, k)) = Spared(L!Older(l), k) \cup ((Listed(l) \ {k}) \X {k})
<1> DEFINE i == l.at[k]
           u == L!Unlinked(l, i)
           v == L!Linked(u, i)
<1>1. CASE i = Nil
  <2>1. L!Touched(l, k) = l /\ k \notin Listed(l) BY <1>1 DEF L!Touched, Nil, Listed
  <2>2. QED BY <2>1
<1>2. CASE i # Nil
  <2>1. l \in ListsOf /\ ListBase(l) BY DEF ListInv, ListBase
  <2>2. InUse(l) \subseteq Cells /\ l.at \in [Keys -> Cells \cup {Nil}] /\ l.next \in Links /\ l.prev \in Links
        /\ l.count \in Nat
    BY <2>1, UseTyped
  <2>3. i \in Cells /\ i \in InUse(l) /\ k \in Listed(l) BY <1>2, <2>2 DEF InUse, Listed
  <2>4. L!Touched(l, k) = v BY <1>2 DEF L!Touched, Nil
  <2>5. \A j \in Keys \ {k} : l.at[j] # i BY <2>1, <2>3 DEF ListBase, Listed
  <2>6. i = l.at[k] OBVIOUS
  <2> HIDE DEF i
  <2>7. UnlinkedIs(l, i, u) BY <2>1, <2>3, ListFields
  <2>8. u \in ListsOf BY <2>7 DEF UnlinkedIs
  <2>9. LinkedIs(u, i, v) BY <2>3, <2>8, ListFields
  <2> HIDE DEF u, v
  <2>10. u.next \in Links /\ u.prev \in Links BY <2>8, UseTyped
  <2>11. PICK c : IsLine(l, c) BY DEF ListInv
  <2>12. /\ c \in [1 .. l.count -> Cells] /\ \A m, n \in 1 .. l.count : c[m] = c[n] => m = n
         /\ Standing(l.count, c, l.at) = Listed(l) /\ L!Older(l) = Ahead(l.count, c, l.at)
    BY <2>1, <2>11, LineShows
  <2>13. InUse(l) = {c[n] : n \in 1 .. l.count} BY <2>11 DEF IsLine
  <2>14. PICK q \in 1 .. l.count : c[q] = i BY <2>3, <2>13
  <2> DEFINE o == l.count - 1
             d == Dropped(l.count, c, q)
             e == Joined(o, d, i)
  <2>15. o \in Nat /\ o + 1 = l.count BY <2>2, <2>14
  <2>16. DroppedTo(l.count, c, q, d) BY <2>2, <2>12, DroppedIs
  <2>17. Line(u.next, u.prev, u.newest, u.oldest, o, d)
    <3>1. Line(l.next, l.prev, l.newest, l.oldest, l.count, c) BY <2>11 DEF IsLine
    <3>2. Leaves(l.next, l.prev, l.newest, l.oldest, c[q], u.next, u.prev, u.newest, u.oldest)
      BY <2>7, <2>14 DEF UnlinkedIs
    <3>3. QED BY <2>2, <3>1, <3>2, LineOut
  <2>18. Quits(l.count, c, q, l.at, l.at, k) BY <2>5, <2>6, <2>12, <2>14 DEF Quits
  <2>19. /\ Ahead(o, d, l.at) = Spared(L!Older(l), k)
         /\ Standing(o, d, l.at) = Listed(l) \ {k}
    BY <2>2, <2>12, <2>18, AheadOut
  <2>20. d \in [1 .. o -> Cells] BY <2>16 DEF DroppedTo
  <2> HIDE DEF o, d
  <2>21. \A n \in 1 .. o : d[n] # i
    <3> SUFFICES ASSUME NEW n \in 1 .. o, d[n] = i PROVE FALSE OBVIOUS
    <3>1. k \in Standing(o, d, l.at) BY <2>6 DEF Standing
    <3>2. QED BY <2>19, <3>1
  <2>22. Line(v.next, v.prev, v.newest, v.oldest, o + 1, e)
    <3>1. v.newest = i /\ Enters(u.next, u.prev, u.newest, u.oldest, i, v.next, v.prev, v.oldest)
      BY <2>9 DEF LinkedIs
    <3>2. QED BY <2>3, <2>10, <2>15, <2>17, <2>21, <3>1, LineIn
  <2>23. Joins(o, d, i, l.at, l.at, k) BY <2>5, <2>6, <2>19, <2>20, <2>21 DEF Joins
  <2>24. Ahead(o + 1, e, l.at) = Ahead(o, d, l.at) \cup (Standing(o, d, l.at) \X {k})
    BY <2>3, <2>15, <2>23, AheadIn
  <2>25. JoinedTo(o, d, i, e) BY <2>3, <2>15, <2>20, JoinedIs
  <2> HIDE DEF e
  <2>26. v \in ListsOf /\ v.at = l.at /\ v.count = l.count /\ v.empty = l.empty
    BY <2>7, <2>9 DEF UnlinkedIs, LinkedIs
  <2>27. Listed(v) = Listed(l) /\ InUse(v) = InUse(l) BY <2>26 DEF Listed, InUse
  <2>28. {e[n] : n \in 1 .. l.count} = InUse(l)
    <3>1. /\ l.count \in 1 .. l.count /\ e[l.count] = i
          /\ \A n \in 1 .. l.count : n = l.count \/ n \in 1 .. o
          /\ \A n \in 1 .. o : n \in 1 .. l.count /\ e[n] = d[n]
      BY <2>15, <2>25 DEF JoinedTo
    <3>2. ASSUME NEW n \in 1 .. o PROVE d[n] \in InUse(l)
      <4>1. /\ n \in 1 .. l.count /\ n + 1 \in 1 .. l.count
            /\ d[n] = IF n < q THEN c[n] ELSE c[n + 1]
        BY <2>16 DEF DroppedTo, o
      <4>2. QED BY <2>13, <4>1
    <3>3. ASSUME NEW x \in InUse(l), x # i PROVE \E n \in 1 .. o : d[n] = x
      <4>1. PICK j \in Listed(l) : l.at[j] = x BY DEF InUse
      <4>2. j \in Standing(o, d, l.at) BY <2>6, <2>19, <3>3, <4>1
      <4>3. QED BY <4>1, <4>2 DEF Standing
    <3>4. \A x \in InUse(l) : \E n \in 1 .. l.count : e[n] = x BY <3>1, <3>3
    <3>5. \A n \in 1 .. l.count : e[n] \in InUse(l) BY <2>3, <3>1, <3>2
    <3>6. QED BY <3>4, <3>5
  <2>29. IsLine(v, e) BY <2>15, <2>22, <2>26, <2>27, <2>28 DEF IsLine
  <2>30. ListBase(v) BY <2>1, <2>26, <2>27 DEF ListBase
  <2>31. L!Older(v) = Ahead(v.count, e, v.at) BY <2>29, <2>30, LineShows
  <2>32. L!Older(v) = Spared(L!Older(l), k) \cup ((Listed(l) \ {k}) \X {k})
    BY <2>15, <2>19, <2>24, <2>26, <2>31
  <2>33. ListInv(v) BY <2>29, <2>30 DEF ListInv
  <2>34. QED BY <2>3, <2>4, <2>27, <2>32, <2>33
<1>3. QED BY <1>1, <1>2

\* insert, after the victim has been removed if there is one: the oldest.
InsertedIs(l, k, s) ==
  \/ /\ l.count < Capacity /\ L!Victims(l) = {}
     /\ L!Older(s) = L!Older(l) \cup (Listed(l) \X {k})
  \/ /\ l.count = Capacity
     /\ \E v \in Listed(l) :
          /\ L!Victims(l) = {v} /\ \A j \in Keys : <<j, v>> \notin L!Older(l)
          /\ L!Older(s) = Spared(L!Older(l), v) \cup ((Listed(l) \ {v}) \X {k})

LEMMA ListInserted ==
  ASSUME NEW l, ListInv(l), NEW k \in Keys, k \notin Listed(l)
  PROVE  /\ ListInv(L!Inserted(l, k)) /\ Listed(L!Inserted(l, k)) = (Listed(l) \ L!Victims(l)) \cup {k}
         /\ InsertedIs(l, k, L!Inserted(l, k))
<1>1. l \in ListsOf /\ ListBase(l) BY DEF ListInv, ListBase
<1>2. /\ l.count \in Nat /\ l.count <= Capacity /\ IsFiniteSet(Listed(l))
      /\ l.at \in [Keys -> Cells \cup {Nil}]
  BY <1>1, UseTyped
<1>3. l.at[k] = Nil BY DEF Listed
<1>4. CASE l.count < Capacity
  <2>1. ~ l.count >= Capacity BY <1>2, <1>4, CellsTyped
  <2>2. L!Inserted(l, k) = L!Stored(l, k) BY <2>1 DEF L!Inserted
  <2>3. L!Victims(l) = {} BY <1>4 DEF L!Victims
  <2>4. QED BY <1>3, <1>4, <2>2, <2>3, ListStored DEF InsertedIs
<1>5. CASE ~ l.count < Capacity
  <2>1. l.count >= Capacity /\ l.count = Capacity /\ 1 \in 1 .. l.count BY <1>2, <1>5, CellsTyped
  <2>2. PICK c : IsLine(l, c) BY DEF ListInv
  <2>3. /\ c \in [1 .. l.count -> Cells] /\ \A m, n \in 1 .. l.count : c[m] = c[n] => m = n
        /\ L!Older(l) = Ahead(l.count, c, l.at)
    BY <1>1, <2>2, LineShows
  <2>4. l.oldest = c[1] /\ l.oldest \in InUse(l) BY <2>1, <2>2, <2>3 DEF IsLine, Line, Place
  <2>5. PICK v \in Listed(l) : l.at[v] = l.oldest BY <2>4 DEF InUse
  <2>6. v \in Keys /\ l.at[v] # Nil BY DEF Listed
  <2>7. L!Victims(l) = {v}
    <3>1. \A j \in Keys : l.at[j] = l.oldest => j = v BY <1>1, <2>5, <2>6 DEF ListBase, Listed
    <3>2. QED BY <1>5, <2>5, <2>6, <3>1 DEF L!Victims
  <2>8. ASSUME NEW j \in Keys, <<j, v>> \in L!Older(l) PROVE FALSE
    <3>1. PICK m \in 1 .. l.count, n \in 1 .. l.count : m < n /\ c[n] = l.at[v]
      BY <2>3, <2>8 DEF Ahead
    <3>2. n = 1 BY <2>1, <2>3, <2>4, <2>5, <3>1
    <3>3. QED BY <3>1, <3>2
  <2> DEFINE r == L!Removed(l, l.oldest)
  <2>9. /\ ListInv(r) /\ Listed(r) = Listed(l) \ {v} /\ r.count = l.count - 1
        /\ L!Older(r) = Spared(L!Older(l), v)
    BY <2>5, <2>6, ListRemoved
  <2>10. L!Inserted(l, k) = L!Stored(r, k) BY <2>1 DEF L!Inserted
  <2> HIDE DEF r
  <2>11. r.count < Capacity BY <1>2, <2>9, CellsTyped
  <2>12. r.at[k] = Nil BY <2>9 DEF Listed
  <2>13. /\ ListInv(L!Stored(r, k)) /\ Listed(L!Stored(r, k)) = Listed(r) \cup {k}
         /\ L!Older(L!Stored(r, k)) = L!Older(r) \cup (Listed(r) \X {k})
    BY <2>9, <2>11, <2>12, ListStored
  <2>14. InsertedIs(l, k, L!Inserted(l, k)) BY <2>1, <2>7, <2>8, <2>9, <2>10, <2>13 DEF InsertedIs
  <2>15. QED BY <2>7, <2>9, <2>10, <2>13, <2>14
<1>6. QED BY <1>4, <1>5

LEMMA ListErased ==
  ASSUME NEW l, ListInv(l), NEW k \in Keys
  PROVE  /\ ListInv(L!Erased(l, k)) /\ Listed(L!Erased(l, k)) = Listed(l) \ {k}
         /\ k \notin Listed(l) => L!Erased(l, k) = l
         /\ k \in Listed(l) => L!Older(L!Erased(l, k)) = Spared(L!Older(l), k)
<1>1. CASE l.at[k] = Nil BY <1>1 DEF L!Erased, Listed, Nil
<1>2. CASE l.at[k] # Nil
  <2>1. L!Erased(l, k) = L!Removed(l, l.at[k]) /\ k \in Listed(l) BY <1>2 DEF L!Erased, Nil, Listed
  <2>2. QED BY <1>2, <2>1, ListRemoved
<1>3. QED BY <1>1, <1>2

-----------------------------------------------------------------------------
(* The rings of LFU.                                                       *)

Freqs == F!Freqs
NoEntry == F!NoEntry
Gone == F!Gone

LEMMA FreqsTyped ==
  /\ TopFreq \in Nat /\ TopFreq >= 1 /\ Freqs = 0 .. TopFreq /\ 0 \in Freqs /\ IsFiniteSet(Freqs)
  /\ Gone = -1 /\ Gone \notin Freqs /\ NoEntry = 0 /\ NoEntry \notin Blocks /\ Blocks \subseteq Nat
  /\ Capacity \in Nat /\ Capacity >= 1
<1>1. TopFreq \in Nat /\ TopFreq >= 1 BY ReplacementAssumption
<1>2. Freqs = 0 .. TopFreq /\ Gone = -1 /\ NoEntry = 0 BY DEF Freqs, Gone, NoEntry, F!Freqs, F!Gone, F!NoEntry
<1>3. IsFiniteSet(Freqs) BY <1>1, <1>2, FS_Interval
<1>4. NoEntry \notin Blocks /\ Blocks \subseteq Nat BY <1>2, ReplacementAssumption
<1>5. QED BY <1>1, <1>2, <1>3, <1>4, CellsTyped

RingsOf ==
  [ring : [Freqs -> Seq(Blocks)], counts : [Freqs -> Nat], max : Freqs, count : 0 .. Capacity,
   at : [Keys -> Blocks \cup {NoEntry}], freq : [Blocks -> Freqs \cup {Gone}], track : [Blocks -> Nat]]

Ringed(l) == {k \in Keys : l.at[k] # NoEntry}
HasFreq(l, f) == {k \in Ringed(l) : l.freq[l.at[k]] = f}

\* The frequencies whose rings lead to a block, and with the one that it has.
Places(ring, b) == {f \in Freqs : \E i \in DOMAIN ring[f] : ring[f][i] = b}
Uses(l, b) == Places(l.ring, b) \cup ({l.freq[b]} \ {Gone})
Tracked(l, b) == Cardinality(Uses(l, b)) <= l.track[b]

\* A ring has a block once, and none that is at a lower frequency.
Once(ring) == \A f \in Freqs : \A i, j \in DOMAIN ring[f] : ring[f][i] = ring[f][j] => i = j
RingsBase(l) ==
  /\ l \in RingsOf
  /\ \A k, j \in Ringed(l) : l.at[k] = l.at[j] => k = j
  /\ Cardinality(Ringed(l)) = l.count
  /\ \A f \in Freqs : l.counts[f] = Cardinality(HasFreq(l, f))
  /\ \A b \in Blocks : l.freq[b] # Gone <=> \E k \in Keys : l.at[k] = b
  /\ \A b \in Blocks : l.freq[b] <= l.max
  /\ Once(l.ring)
  /\ \A b \in Blocks : \A f \in Places(l.ring, b) : l.freq[b] = Gone \/ f <= l.freq[b]

RingsInv(l) == RingsBase(l) /\ \A b \in Blocks : Tracked(l, b)

LEMMA RingsTyped ==
  ASSUME NEW l \in RingsOf
  PROVE  /\ l.ring \in [Freqs -> Seq(Blocks)] /\ l.counts \in [Freqs -> Nat] /\ l.max \in Freqs
         /\ l.count \in Nat /\ l.count <= Capacity /\ l.at \in [Keys -> Blocks \cup {NoEntry}]
         /\ l.freq \in [Blocks -> Freqs \cup {Gone}] /\ l.track \in [Blocks -> Nat]
         /\ IsFiniteSet(Ringed(l)) /\ \A f : IsFiniteSet(HasFreq(l, f))
         /\ \A b \in Blocks : IsFiniteSet(Places(l.ring, b)) /\ IsFiniteSet(Uses(l, b))
<1>1. /\ l.ring \in [Freqs -> Seq(Blocks)] /\ l.counts \in [Freqs -> Nat] /\ l.max \in Freqs
      /\ l.at \in [Keys -> Blocks \cup {NoEntry}]
      /\ l.freq \in [Blocks -> Freqs \cup {Gone}] /\ l.track \in [Blocks -> Nat]
  BY DEF RingsOf
<1>2. l.count \in Nat /\ l.count <= Capacity
  <2>1. l.count \in 0 .. Capacity BY DEF RingsOf
  <2>2. QED BY <2>1, FreqsTyped
<1>3. IsFiniteSet(Ringed(l)) BY ReplacementAssumption, FS_Subset DEF Ringed
<1>4. \A f : IsFiniteSet(HasFreq(l, f)) BY <1>3, FS_Subset DEF HasFreq
<1>5. ASSUME NEW b \in Blocks PROVE IsFiniteSet(Places(l.ring, b)) /\ IsFiniteSet(Uses(l, b))
  <2>1. Places(l.ring, b) \subseteq Freqs /\ Uses(l, b) \subseteq Freqs BY <1>1 DEF Places, Uses
  <2>2. QED BY <2>1, FreqsTyped, FS_Subset
<1>6. QED BY <1>1, <1>2, <1>3, <1>4, <1>5

LEMMA RingsNew == RingsInv(F!NewRings) /\ Ringed(F!NewRings) = {}
<1> DEFINE l == F!NewRings
<1>1. /\ l.ring = [f \in Freqs |-> <<>>] /\ l.counts = [f \in Freqs |-> 0] /\ l.max = 0 /\ l.count = 0
      /\ l.at = [k \in Keys |-> NoEntry] /\ l.freq = [b \in Blocks |-> Gone] /\ l.track = [b \in Blocks |-> 0]
  BY DEF F!NewRings, Freqs, NoEntry, Gone
<1>2. l \in RingsOf
  <2>1. 0 \in 0 .. Capacity /\ 0 \in Freqs BY FreqsTyped
  <2>2. [f \in Freqs |-> <<>>] \in [Freqs -> Seq(Blocks)] OBVIOUS
  <2>3. QED BY <2>1, <2>2 DEF RingsOf, F!NewRings, Freqs, NoEntry, Gone
<1> HIDE DEF l
<1>3. Ringed(l) = {} BY <1>1 DEF Ringed
<1>4. \A f : HasFreq(l, f) = {} BY <1>3 DEF HasFreq
<1>5. \A b \in Blocks : Places(l.ring, b) = {} BY <1>1 DEF Places
<1>6. \A b \in Blocks : Uses(l, b) = {} BY <1>1, <1>5 DEF Uses
<1>7. Cardinality({}) = 0 BY FS_EmptySet
<1>8. ASSUME NEW b \in Blocks PROVE Tracked(l, b)
  <2>1. l.track[b] = 0 /\ Cardinality(Uses(l, b)) = 0 BY <1>1, <1>6, <1>7
  <2>2. QED BY <2>1 DEF Tracked
<1>9. \A b \in Blocks : l.freq[b] <= l.max BY <1>1, FreqsTyped
<1>10. \A b \in Blocks : (l.freq[b] # Gone) <=> \E k \in Keys : l.at[k] = b BY <1>1, FreqsTyped
<1>11. Once(l.ring) BY <1>1 DEF Once
<1>12. RingsBase(l)
  BY <1>1, <1>2, <1>3, <1>4, <1>5, <1>7, <1>9, <1>10, <1>11 DEF RingsBase
<1>13. QED BY <1>3, <1>8, <1>12 DEF RingsInv, l

\* cef_rngque_push of a block that the ring has not.
LEMMA PushedTyped ==
  ASSUME NEW l \in RingsOf, Once(l.ring), NEW f \in Freqs, NEW b \in Blocks, f \notin Places(l.ring, b)
  PROVE  LET p == F!PushedTo(l, f, b) IN
         /\ p \in [Freqs -> Seq(Blocks)] /\ Once(p)
         /\ \A c \in Blocks : Places(p, c) \subseteq Places(l.ring, c) \cup (IF c = b THEN {f} ELSE {})
<1> DEFINE r == l.ring
           q == Append(r[f], b)
           p == F!PushedTo(l, f, b)
<1>1. r \in [Freqs -> Seq(Blocks)] BY RingsTyped
<1>2. r[f] \in Seq(Blocks) BY <1>1
<1>3. /\ q \in Seq(Blocks) /\ Len(q) = Len(r[f]) + 1 /\ q[Len(r[f]) + 1] = b
      /\ \A i \in 1 .. Len(r[f]) : q[i] = r[f][i]
      /\ Len(r[f]) \in Nat /\ DOMAIN q = 1 .. Len(r[f]) + 1 /\ DOMAIN r[f] = 1 .. Len(r[f])
  BY <1>2
<1>4. p = r \/ p = [r EXCEPT ![f] = q] BY DEF F!PushedTo
<1>5. \A i \in DOMAIN r[f] : r[f][i] # b BY DEF Places
<1> HIDE DEF p, q
<1>6. CASE p = r BY <1>1, <1>6 DEF p
<1>7. CASE p = [r EXCEPT ![f] = q]
  <2>1. p \in [Freqs -> Seq(Blocks)] /\ p[f] = q /\ \A g \in Freqs \ {f} : p[g] = r[g] BY <1>1, <1>3, <1>7
  <2>2. \A i, j \in DOMAIN q : q[i] = q[j] => i = j
    <3> TAKE i, j \in DOMAIN q
    <3>1. \A x \in DOMAIN q : x \in DOMAIN r[f] \/ x = Len(r[f]) + 1 BY <1>3
    <3>2. \A x \in DOMAIN r[f] : q[x] = r[f][x] /\ q[x] # b BY <1>3, <1>5
    <3>3. q[Len(r[f]) + 1] = b BY <1>3
    <3>4. \A x, y \in DOMAIN r[f] : r[f][x] = r[f][y] => x = y BY DEF Once
    <3>5. QED BY <3>1, <3>2, <3>3, <3>4
  <2>3. Once(p) BY <2>1, <2>2 DEF Once
  <2>4. ASSUME NEW c \in Blocks, NEW g \in Places(p, c)
        PROVE  g \in Places(r, c) \/ (c = b /\ g = f)
    <3>1. g \in Freqs /\ \E i \in DOMAIN p[g] : p[g][i] = c BY <2>4 DEF Places
    <3>2. CASE g # f BY <2>1, <3>1, <3>2 DEF Places
    <3>3. CASE g = f
      <4>1. PICK i \in DOMAIN q : q[i] = c BY <2>1, <3>1, <3>3
      <4>2. CASE i \in DOMAIN r[f] BY <1>3, <3>3, <4>1, <4>2 DEF Places
      <4>3. CASE i = Len(r[f]) + 1 BY <1>3, <3>3, <4>1, <4>3
      <4>4. QED BY <1>3, <4>2, <4>3
    <3>4. QED BY <3>2, <3>3
  <2>5. \A c \in Blocks : Places(p, c) \subseteq Places(r, c) \cup (IF c = b THEN {f} ELSE {}) BY <2>4
  <2>6. QED BY <2>1, <2>3, <2>5 DEF p
<1>8. QED BY <1>4, <1>6, <1>7

\* Where a key's block stands.
LEMMA BlockOf ==
  ASSUME NEW l, RingsBase(l), NEW k \in Ringed(l)
  PROVE  /\ l.at[k] \in Blocks /\ l.freq[l.at[k]] \in Freqs /\ F!KeyOf(l, l.at[k]) = k
         /\ k \in HasFreq(l, l.freq[l.at[k]]) /\ k \in Keys
         /\ l.counts[l.freq[l.at[k]]] \in Nat \ {0} /\ l.count >= 1
<1>1. l \in RingsOf BY DEF RingsBase
<1>2. k \in Keys /\ l.at[k] # NoEntry BY DEF Ringed
<1>3. l.at[k] \in Blocks BY <1>1, <1>2, RingsTyped
<1>4. l.freq[l.at[k]] # Gone BY <1>2, <1>3 DEF RingsBase
<1>5. l.freq[l.at[k]] \in Freqs BY <1>1, <1>3, <1>4, RingsTyped
<1>6. \A j \in Keys : l.at[j] = l.at[k] => j = k BY <1>2 DEF RingsBase, Ringed
<1>7. F!KeyOf(l, l.at[k]) = k BY <1>2, <1>6 DEF F!KeyOf
<1>8. k \in HasFreq(l, l.freq[l.at[k]]) BY DEF HasFreq
<1>9. \A S : IsFiniteSet(S) /\ k \in S => Cardinality(S) \in Nat \ {0}
  <2> TAKE S
  <2> HAVE IsFiniteSet(S) /\ k \in S
  <2>1. Cardinality(S) \in Nat BY FS_CardinalityType
  <2>2. Cardinality(S) # 0 BY FS_EmptySet
  <2>3. QED BY <2>1, <2>2
<1>10. l.counts[l.freq[l.at[k]]] \in Nat \ {0} BY <1>1, <1>5, <1>8, <1>9, RingsTyped DEF RingsBase
<1>11. l.count \in Nat \ {0} BY <1>1, <1>9, RingsTyped DEF RingsBase
<1>12. QED BY <1>2, <1>3, <1>5, <1>7, <1>8, <1>10, <1>11

\* A block that is free is nowhere.
LEMMA FreeBlock ==
  ASSUME NEW l, RingsInv(l), F!FreeBlocks(l) # {}, NEW b, b = F!Min(F!FreeBlocks(l))
  PROVE  /\ b \in Blocks /\ l.track[b] <= 0 /\ Places(l.ring, b) = {} /\ l.freq[b] = Gone
         /\ \A j \in Keys : l.at[j] # b
<1>1. l \in RingsOf /\ RingsBase(l) BY DEF RingsInv, RingsBase
<1>2. b \in F!FreeBlocks(l)
  <2>1. F!FreeBlocks(l) \subseteq Nat BY FreqsTyped DEF F!FreeBlocks
  <2>2. \E x \in F!FreeBlocks(l) : \A y \in F!FreeBlocks(l) : x <= y BY <2>1, LeastNat
  <2>3. QED BY <2>2 DEF F!Min
<1>3. b \in Blocks /\ l.track[b] <= 0 BY <1>2 DEF F!FreeBlocks
<1>4. Uses(l, b) = {}
  <2>1. IsFiniteSet(Uses(l, b)) BY <1>1, <1>3, RingsTyped
  <2>2. l.track[b] \in Nat BY <1>1, <1>3, RingsTyped
  <2>3. Cardinality(Uses(l, b)) \in Nat /\ Cardinality(Uses(l, b)) <= l.track[b]
    BY <1>3, <2>1, FS_CardinalityType DEF RingsInv, Tracked
  <2>4. Cardinality(Uses(l, b)) = 0 BY <1>3, <2>2, <2>3
  <2>5. QED BY <2>1, <2>4, FS_EmptySet
<1>5. Places(l.ring, b) = {} /\ l.freq[b] = Gone BY <1>4 DEF Uses
<1>6. \A j \in Keys : l.at[j] # b BY <1>1, <1>3, <1>5 DEF RingsBase
<1>7. QED BY <1>3, <1>5, <1>6

\* lfu_store_entry
LEMMA RingsStored ==
  ASSUME NEW l, RingsInv(l), l.count < Capacity, F!FreeBlocks(l) # {}, NEW k \in Keys, l.at[k] = NoEntry
  PROVE  /\ RingsInv(F!Stored(l, k)) /\ Ringed(F!Stored(l, k)) = Ringed(l) \cup {k}
         /\ F!Stored(l, k).count = l.count + 1
<1> DEFINE b == F!Min(F!FreeBlocks(l))
           s == F!Stored(l, k)
<1>1. l \in RingsOf /\ RingsBase(l) BY DEF RingsInv, RingsBase
<1>2. /\ l.ring \in [Freqs -> Seq(Blocks)] /\ l.counts \in [Freqs -> Nat] /\ l.max \in Freqs
      /\ l.count \in Nat /\ l.at \in [Keys -> Blocks \cup {NoEntry}]
      /\ l.freq \in [Blocks -> Freqs \cup {Gone}] /\ l.track \in [Blocks -> Nat]
      /\ IsFiniteSet(Ringed(l)) /\ \A f : IsFiniteSet(HasFreq(l, f))
  BY <1>1, RingsTyped
<1>3. b = F!Min(F!FreeBlocks(l)) OBVIOUS
<1>4. b \in Blocks /\ l.track[b] <= 0 BY <1>3, FreeBlock
<1>6. Places(l.ring, b) = {} /\ l.freq[b] = Gone BY <1>3, FreeBlock
<1>7. \A j \in Keys : l.at[j] # b BY <1>3, FreeBlock
<1> DEFINE p == F!PushedTo(l, 0, b)
           c == [l.counts EXCEPT ![0] = @ + 1]
           n == l.count + 1
           a == [l.at EXCEPT ![k] = b]
           g == [l.freq EXCEPT ![b] = 0]
           t == [l.track EXCEPT ![b] = 1]
<1>8. s = [l EXCEPT !.ring = p, !.counts = c, !.count = n, !.at = a, !.freq = g, !.track = t]
  BY <1>1 DEF F!Stored, RingsOf
<1> HIDE DEF b, s
<1>9. /\ p \in [Freqs -> Seq(Blocks)] /\ Once(p)
      /\ \A d \in Blocks : Places(p, d) \subseteq Places(l.ring, d) \cup (IF d = b THEN {0} ELSE {})
  <2>1. Once(l.ring) /\ 0 \in Freqs /\ 0 \notin Places(l.ring, b) BY <1>1, <1>6, FreqsTyped DEF RingsBase
  <2>2. QED BY <1>1, <1>4, <2>1, PushedTyped
<1>10. c \in [Freqs -> Nat] /\ c[0] = l.counts[0] + 1 /\ \A f \in Freqs \ {0} : c[f] = l.counts[f]
  <2>0. l.counts[0] \in Nat BY <1>2, FreqsTyped
  <2>1. l.counts[0] + 1 \in Nat BY <2>0
  <2>2. QED BY <1>2, <2>1, FreqsTyped
<1>11. n \in Nat /\ n \in 0 .. Capacity
  <2>1. l.count \in Nat BY <1>2
  <2>2. QED BY <2>1, FreqsTyped
<1>12. a \in [Keys -> Blocks \cup {NoEntry}] /\ a[k] = b /\ \A j \in Keys \ {k} : a[j] = l.at[j]
  BY <1>2, <1>4
<1>13. g \in [Blocks -> Freqs \cup {Gone}] /\ g[b] = 0 /\ \A d \in Blocks \ {b} : g[d] = l.freq[d]
  BY <1>2, <1>4, FreqsTyped
<1>14. t \in [Blocks -> Nat] /\ t[b] = 1 /\ \A d \in Blocks \ {b} : t[d] = l.track[d]
  BY <1>2, <1>4
<1> HIDE DEF p, c, n, a, g, t
<1>15. s \in RingsOf BY <1>1, <1>8, <1>9, <1>10, <1>11, <1>12, <1>13, <1>14 DEF RingsOf
<1>16. /\ s.ring = p /\ s.counts = c /\ s.count = n /\ s.at = a /\ s.freq = g /\ s.track = t /\ s.max = l.max
  BY <1>1, <1>8 DEF RingsOf
<1>17. b # NoEntry BY <1>4, FreqsTyped
<1>18. Ringed(s) = Ringed(l) \cup {k} /\ k \notin Ringed(l) BY <1>12, <1>16, <1>17 DEF Ringed
<1>19. \A j \in Ringed(l) : s.at[j] = l.at[j] /\ l.at[j] # b /\ l.at[j] \in Blocks /\ s.freq[s.at[j]] = l.freq[l.at[j]]
  <2> TAKE j \in Ringed(l)
  <2>1. j \in Keys /\ j # k /\ l.at[j] \in Blocks BY <1>1, <1>18, BlockOf
  <2>2. s.at[j] = l.at[j] /\ l.at[j] # b BY <1>7, <1>12, <1>16, <2>1
  <2>3. QED BY <1>13, <1>16, <2>1, <2>2
<1>20. s.at[k] = b /\ s.freq[b] = 0 BY <1>12, <1>13, <1>16
<1>21. \A i, j \in Ringed(s) : s.at[i] = s.at[j] => i = j BY <1>1, <1>18, <1>19, <1>20 DEF RingsBase
<1>22. Cardinality(Ringed(s)) = s.count
  <2>1. Cardinality(Ringed(s)) = Cardinality(Ringed(l)) + 1 BY <1>2, <1>18, FS_AddElement
  <2>2. QED BY <1>1, <1>16, <2>1 DEF RingsBase, n
<1>23. ASSUME NEW f \in Freqs PROVE s.counts[f] = Cardinality(HasFreq(s, f))
  <2>1. l.counts[f] = Cardinality(HasFreq(l, f)) BY <1>1 DEF RingsBase
  <2>2. CASE f = 0
    <3>1. HasFreq(s, f) = HasFreq(l, f) \cup {k} BY <1>18, <1>19, <1>20, <2>2 DEF HasFreq
    <3>2. k \notin HasFreq(l, f) BY <1>18 DEF HasFreq
    <3>3. Cardinality(HasFreq(s, f)) = Cardinality(HasFreq(l, f)) + 1 BY <1>2, <3>1, <3>2, FS_AddElement
    <3>4. QED BY <1>10, <1>16, <2>1, <2>2, <3>3
  <2>3. CASE f # 0
    <3>1. HasFreq(s, f) = HasFreq(l, f) BY <1>18, <1>19, <1>20, <2>3 DEF HasFreq
    <3>2. QED BY <1>10, <1>16, <2>1, <2>3, <3>1
  <2>4. QED BY <2>2, <2>3
<1>24. ASSUME NEW d \in Blocks PROVE (s.freq[d] # Gone) <=> \E j \in Keys : s.at[j] = d
  <2>1. CASE d = b BY <1>20, <2>1, FreqsTyped
  <2>2. CASE d # b
    <3>1. s.freq[d] = l.freq[d] BY <1>13, <1>16, <2>2
    <3>2. \A j \in Keys : s.at[j] = d <=> l.at[j] = d BY <1>12, <1>16, <1>24, <2>2, FreqsTyped
    <3>3. (l.freq[d] # Gone) <=> \E j \in Keys : l.at[j] = d BY <1>1 DEF RingsBase
    <3>4. QED BY <3>1, <3>2, <3>3
  <2>3. QED BY <2>1, <2>2
<1>25. \A d \in Blocks : s.freq[d] <= s.max
  <2>1. \A d \in Blocks : l.freq[d] <= l.max BY <1>1 DEF RingsBase
  <2>2. 0 <= l.max BY <1>2, FreqsTyped
  <2>3. QED BY <1>13, <1>16, <2>1, <2>2
<1>26. ASSUME NEW d \in Blocks, NEW f \in Places(s.ring, d) PROVE s.freq[d] = Gone \/ f <= s.freq[d]
  <2>1. CASE d = b
    <3>1. f = 0 BY <1>6, <1>9, <1>16, <1>26, <2>1
    <3>2. QED BY <1>20, <2>1, <3>1
  <2>2. CASE d # b
    <3>1. f \in Places(l.ring, d) BY <1>9, <1>16, <1>26, <2>2
    <3>2. l.freq[d] = Gone \/ f <= l.freq[d] BY <1>1, <3>1 DEF RingsBase
    <3>3. QED BY <1>13, <1>16, <2>2, <3>2
  <2>3. QED BY <2>1, <2>2
<1>27. RingsBase(s) BY <1>9, <1>15, <1>16, <1>21, <1>22, <1>23, <1>24, <1>25, <1>26 DEF RingsBase
<1>28. ASSUME NEW d \in Blocks PROVE Tracked(s, d)
  <2>1. CASE d = b
    <3>1. Uses(s, d) \subseteq {0} BY <1>6, <1>9, <1>16, <1>20, <2>1 DEF Uses
    <3>2. IsFiniteSet({0}) /\ Cardinality({0}) = 1 BY FS_Singleton
    <3>3. Cardinality(Uses(s, d)) <= 1 BY <3>1, <3>2, FS_Subset
    <3>4. QED BY <1>14, <1>16, <2>1, <3>3 DEF Tracked
  <2>2. CASE d # b
    <3>1. Uses(s, d) \subseteq Uses(l, d) BY <1>9, <1>13, <1>16, <2>2 DEF Uses
    <3>2. IsFiniteSet(Uses(l, d)) BY <1>1, RingsTyped
    <3>3. Cardinality(Uses(s, d)) <= Cardinality(Uses(l, d)) /\ IsFiniteSet(Uses(s, d)) BY <3>1, <3>2, FS_Subset
    <3>4. /\ Cardinality(Uses(s, d)) \in Nat /\ Cardinality(Uses(l, d)) \in Nat /\ l.track[d] \in Nat
          /\ Cardinality(Uses(l, d)) <= l.track[d]
      BY <1>2, <3>2, <3>3, FS_CardinalityType DEF RingsInv, Tracked
    <3>5. Cardinality(Uses(s, d)) <= l.track[d] BY <3>3, <3>4
    <3>6. QED BY <1>14, <1>16, <2>2, <3>5 DEF Tracked
  <2>3. QED BY <2>1, <2>2
<1>29. QED BY <1>16, <1>18, <1>27, <1>28 DEF RingsInv, s, n

\* lfu_remove_entry, of an entry that its track may already have left behind.
LEMMA RingsRemoved ==
  ASSUME NEW l, RingsBase(l), NEW k \in Ringed(l),
         \A d \in Blocks \ {l.at[k]} : Tracked(l, d),
         Cardinality(Places(l.ring, l.at[k])) <= l.track[l.at[k]]
  PROVE  /\ RingsInv(F!Removed(l, l.at[k])) /\ Ringed(F!Removed(l, l.at[k])) = Ringed(l) \ {k}
         /\ F!Removed(l, l.at[k]).count = l.count - 1
<1> DEFINE b == l.at[k]
           f0 == l.freq[b]
           r == F!Removed(l, b)
           c == [l.counts EXCEPT ![f0] = @ - 1]
           n == l.count - 1
           a == [l.at EXCEPT ![k] = NoEntry]
           g == [l.freq EXCEPT ![b] = Gone]
<1>1. l \in RingsOf BY DEF RingsBase
<1>2. /\ l.ring \in [Freqs -> Seq(Blocks)] /\ l.counts \in [Freqs -> Nat] /\ l.max \in Freqs
      /\ l.count \in Nat /\ l.count <= Capacity /\ l.at \in [Keys -> Blocks \cup {NoEntry}]
      /\ l.freq \in [Blocks -> Freqs \cup {Gone}] /\ l.track \in [Blocks -> Nat]
      /\ IsFiniteSet(Ringed(l)) /\ \A f : IsFiniteSet(HasFreq(l, f))
  BY <1>1, RingsTyped
<1>3. /\ b \in Blocks /\ f0 \in Freqs /\ F!KeyOf(l, b) = k /\ k \in HasFreq(l, f0)
      /\ k \in Keys /\ l.counts[f0] \in Nat \ {0} /\ l.count >= 1
  BY BlockOf
<1>4. r = [l EXCEPT !.at = a, !.counts = c, !.count = n, !.freq = g]
  <2>1. r = [l EXCEPT !.at[k] = NoEntry, !.counts[f0] = @ - 1, !.count = @ - 1, !.freq[b] = Gone]
    BY <1>3 DEF F!Removed, NoEntry, Gone
  <2> HIDE DEF r, b, f0
  <2>2. QED BY <1>1, <2>1 DEF RingsOf
<1>5. \A j \in Keys : l.at[j] = b <=> j = k
  BY <1>3, FreqsTyped DEF RingsBase, Ringed
<1>6. \A j \in Ringed(l) : j \in Keys /\ l.at[j] \in Blocks /\ l.freq[l.at[j]] \in Freqs BY BlockOf
<1> HIDE DEF r, b, f0
<1>7. c \in [Freqs -> Nat] /\ c[f0] = l.counts[f0] - 1 /\ \A f \in Freqs \ {f0} : c[f] = l.counts[f]
  <2>1. l.counts[f0] - 1 \in Nat BY <1>3
  <2>2. QED BY <1>2, <1>3, <2>1
<1>8. n \in 0 .. Capacity /\ n = l.count - 1
  <2>1. l.count \in Nat /\ l.count <= Capacity /\ l.count >= 1 BY <1>2, <1>3
  <2>2. QED BY <2>1, FreqsTyped
<1>9. a \in [Keys -> Blocks \cup {NoEntry}] /\ a[k] = NoEntry /\ \A j \in Keys \ {k} : a[j] = l.at[j]
  BY <1>2, <1>3
<1>10. g \in [Blocks -> Freqs \cup {Gone}] /\ g[b] = Gone /\ \A d \in Blocks \ {b} : g[d] = l.freq[d]
  BY <1>2, <1>3
<1> HIDE DEF c, n, a, g
<1>11. r \in RingsOf BY <1>1, <1>4, <1>7, <1>8, <1>9, <1>10 DEF RingsOf
<1>12. /\ r.ring = l.ring /\ r.counts = c /\ r.count = n /\ r.at = a /\ r.freq = g /\ r.track = l.track
       /\ r.max = l.max
  BY <1>1, <1>4 DEF RingsOf
<1>13. Ringed(r) = Ringed(l) \ {k} BY <1>9, <1>12 DEF Ringed
<1>14. \A j \in Ringed(r) : j \in Keys /\ j # k /\ l.at[j] \in Blocks /\ l.at[j] # b /\ r.at[j] = l.at[j]
                            /\ r.freq[r.at[j]] = l.freq[l.at[j]]
  BY <1>5, <1>6, <1>9, <1>10, <1>12, <1>13
<1>15. \A i, j \in Ringed(r) : r.at[i] = r.at[j] => i = j BY <1>13, <1>14 DEF RingsBase
<1>16. Cardinality(Ringed(r)) = r.count
  <2>1. Cardinality(Ringed(r)) = Cardinality(Ringed(l)) - 1 BY <1>2, <1>13, FS_RemoveElement
  <2>2. QED BY <1>8, <1>12, <2>1 DEF RingsBase
<1>17. ASSUME NEW f \in Freqs PROVE r.counts[f] = Cardinality(HasFreq(r, f))
  <2>1. l.counts[f] = Cardinality(HasFreq(l, f)) BY DEF RingsBase
  <2>2. CASE f = f0
    <3>1. HasFreq(r, f) = HasFreq(l, f) \ {k} BY <1>13, <1>14, <2>2 DEF HasFreq
    <3>2. Cardinality(HasFreq(r, f)) = Cardinality(HasFreq(l, f)) - 1
      <4>1. k \in HasFreq(l, f) /\ IsFiniteSet(HasFreq(l, f)) BY <1>2, <1>3, <2>2
      <4>2. QED BY <3>1, <4>1, FS_RemoveElement
    <3>3. QED BY <1>7, <1>12, <2>1, <2>2, <3>2
  <2>3. CASE f # f0
    <3>1. HasFreq(r, f) = HasFreq(l, f) BY <1>3, <1>13, <1>14, <2>3 DEF HasFreq
    <3>2. QED BY <1>7, <1>12, <2>1, <2>3, <3>1
  <2>4. QED BY <2>2, <2>3
<1>18. ASSUME NEW d \in Blocks PROVE (r.freq[d] # Gone) <=> \E j \in Keys : r.at[j] = d
  <2>1. CASE d = b
    <3>1. \A j \in Keys : r.at[j] # b BY <1>3, <1>5, <1>9, <1>12, FreqsTyped
    <3>2. QED BY <1>10, <1>12, <2>1, <3>1
  <2>2. CASE d # b
    <3>1. r.freq[d] = l.freq[d] BY <1>10, <1>12, <2>2
    <3>2. \A j \in Keys : r.at[j] = d <=> l.at[j] = d
      BY <1>5, <1>9, <1>12, <1>18, <2>2, FreqsTyped
    <3>3. (l.freq[d] # Gone) <=> \E j \in Keys : l.at[j] = d BY DEF RingsBase
    <3>4. QED BY <3>1, <3>2, <3>3
  <2>3. QED BY <2>1, <2>2
<1>19. \A d \in Blocks : r.freq[d] <= r.max
  <2>1. \A d \in Blocks : l.freq[d] <= l.max BY DEF RingsBase
  <2>2. Gone <= l.max BY <1>2, FreqsTyped
  <2>3. QED BY <1>10, <1>12, <2>1, <2>2
<1>20. \A d \in Blocks : \A f \in Places(r.ring, d) : r.freq[d] = Gone \/ f <= r.freq[d]
  BY <1>10, <1>12 DEF RingsBase
<1>21. RingsBase(r)
  BY <1>11, <1>12, <1>15, <1>16, <1>17, <1>18, <1>19, <1>20 DEF RingsBase
<1>22. ASSUME NEW d \in Blocks PROVE Tracked(r, d)
  <2>1. CASE d = b
    <3>1. Uses(r, d) = Places(l.ring, d) BY <1>10, <1>12, <2>1 DEF Uses
    <3>2. QED BY <1>12, <2>1, <3>1 DEF Tracked, b
  <2>2. CASE d # b
    <3>1. Uses(r, d) = Uses(l, d) BY <1>10, <1>12, <2>2 DEF Uses
    <3>2. Tracked(l, d) BY <2>2 DEF b
    <3>3. QED BY <1>12, <3>1, <3>2 DEF Tracked
  <2>3. QED BY <2>1, <2>2
<1>23. QED BY <1>8, <1>12, <1>13, <1>21, <1>22 DEF RingsInv, r, b

LEMMA RingsErased ==
  ASSUME NEW l, RingsInv(l), NEW k \in Keys
  PROVE  RingsInv(F!Erased(l, k)) /\ Ringed(F!Erased(l, k)) = Ringed(l) \ {k}
<1>1. CASE l.at[k] = NoEntry BY <1>1 DEF F!Erased, Ringed, NoEntry
<1>2. CASE l.at[k] # NoEntry
  <2>1. k \in Ringed(l) /\ RingsBase(l) /\ l \in RingsOf BY <1>2 DEF Ringed, RingsInv, RingsBase
  <2>2. l.at[k] \in Blocks BY <2>1, BlockOf
  <2> DEFINE P == Places(l.ring, l.at[k])
             R == Uses(l, l.at[k])
  <2>3. IsFiniteSet(R) /\ P \subseteq R BY <2>1, <2>2, RingsTyped DEF Uses
  <2>4. Cardinality(P) <= Cardinality(R) /\ IsFiniteSet(P) BY <2>3, FS_Subset
  <2>5. Cardinality(R) <= l.track[l.at[k]] BY <2>2 DEF RingsInv, Tracked
  <2>6. Cardinality(P) \in Nat /\ Cardinality(R) \in Nat /\ l.track[l.at[k]] \in Nat
    BY <2>1, <2>2, <2>3, <2>4, FS_CardinalityType, RingsTyped
  <2> HIDE DEF R
  <2>7. Cardinality(P) <= l.track[l.at[k]] BY <2>4, <2>5, <2>6
  <2>8. \A d \in Blocks \ {l.at[k]} : Tracked(l, d) BY DEF RingsInv
  <2>9. F!Erased(l, k) = F!Removed(l, l.at[k]) BY <1>2 DEF F!Erased, NoEntry
  <2>10. QED BY <2>1, <2>7, <2>8, <2>9, RingsRemoved
<1>3. QED BY <1>1, <1>2

\* lfu_get_min_freq_ring_having_entry finds a frequency that an entry has.
LEMMA LeastFreq ==
  ASSUME NEW l, RingsBase(l), l.count >= 1
  PROVE  F!MinFreq(l) \in Freqs
<1> DEFINE S == {f \in 0 .. l.max : l.counts[f] # 0}
<1>1. l \in RingsOf BY DEF RingsBase
<1>2. l.max \in Freqs /\ l.count # 0 /\ l.count \in Nat BY <1>1, RingsTyped
<1>3. Ringed(l) # {} BY <1>2, FS_EmptySet DEF RingsBase
<1>4. PICK k : k \in Ringed(l) BY <1>3
<1>5. PICK f \in Freqs : f = l.freq[l.at[k]] /\ l.counts[f] # 0 BY <1>4, BlockOf
<1>6. f <= l.max BY <1>4, <1>5, BlockOf DEF RingsBase
<1>7. S \subseteq Freqs /\ S \subseteq Nat /\ f \in S BY <1>2, <1>5, <1>6, FreqsTyped
<1>8. \E x \in S : \A y \in S : x <= y BY <1>7, LeastNat
<1>9. F!Min(S) \in S BY <1>8 DEF F!Min
<1>10. QED BY <1>7, <1>9 DEF F!MinFreq

\* Once the first of its ring is out, a block has a place less, and only an entry of that
\* frequency may be in more rings than are tracked.
LEMMA RingsPopped ==
  ASSUME NEW l, RingsInv(l), l.count >= 1, ~F!FoundNone(l)
  PROVE  LET b == F!Popped(l)  p == F!AfterPop(l) IN
         /\ RingsBase(p) /\ b \in Blocks /\ p.at = l.at /\ p.freq = l.freq /\ p.count = l.count
         /\ \A d \in Blocks \ {b} : Tracked(p, d)
         /\ Cardinality(Places(p.ring, b)) <= p.track[b]
         /\ l.freq[b] # F!MinFreq(l) => Tracked(p, b)
<1> DEFINE f == F!MinFreq(l)
           b == F!Popped(l)
           p == F!AfterPop(l)
           q == l.ring[f]
           o == [l.ring EXCEPT ![f] = Tail(q)]
           t == [l.track EXCEPT ![b] = @ - 1]
<1>1. l \in RingsOf /\ RingsBase(l) BY DEF RingsInv, RingsBase
<1>2. f \in Freqs BY <1>1, LeastFreq
<1>3. q # <<>> /\ b = Head(q) BY DEF F!FoundNone, F!LastRing, F!Popped
<1>4. p = [l EXCEPT !.ring = o, !.track = t] BY <1>1 DEF F!AfterPop, RingsOf
<1> HIDE DEF f, b, p
<1>5. /\ l.ring \in [Freqs -> Seq(Blocks)] /\ l.track \in [Blocks -> Nat] BY <1>1, RingsTyped
<1>6. q \in Seq(Blocks) BY <1>2, <1>5
<1>7. /\ b \in Blocks /\ 1 \in DOMAIN q /\ q[1] = b /\ Tail(q) \in Seq(Blocks)
      /\ \A i \in DOMAIN Tail(q) : i \in Nat /\ i + 1 \in DOMAIN q /\ i + 1 # 1 /\ Tail(q)[i] = q[i + 1]
  BY <1>3, <1>6
<1>8. f \in Places(l.ring, b) BY <1>2, <1>7 DEF Places
<1>9. f \in Uses(l, b) /\ IsFiniteSet(Uses(l, b)) BY <1>1, <1>7, <1>8, RingsTyped DEF Uses
<1>10. /\ Cardinality(Uses(l, b) \ {f}) <= l.track[b] - 1 /\ IsFiniteSet(Uses(l, b) \ {f})
       /\ l.track[b] \in Nat \ {0} /\ Cardinality(Uses(l, b) \ {f}) \in Nat
  <2>1. Cardinality(Uses(l, b) \ {f}) = Cardinality(Uses(l, b)) - 1 /\ IsFiniteSet(Uses(l, b) \ {f})
    BY <1>9, FS_RemoveElement
  <2>2. Cardinality(Uses(l, b) \ {f}) \in Nat /\ Cardinality(Uses(l, b)) \in Nat BY <1>9, <2>1, FS_CardinalityType
  <2>3. Cardinality(Uses(l, b)) <= l.track[b] BY <1>7 DEF RingsInv, Tracked
  <2>4. l.track[b] \in Nat BY <1>5, <1>7
  <2>5. QED BY <2>1, <2>2, <2>3, <2>4
<1>11. o \in [Freqs -> Seq(Blocks)] /\ o[f] = Tail(q) /\ \A h \in Freqs \ {f} : o[h] = l.ring[h]
  BY <1>2, <1>5, <1>7
<1>12. t \in [Blocks -> Nat] /\ t[b] = l.track[b] - 1 /\ \A d \in Blocks \ {b} : t[d] = l.track[d]
  <2>1. l.track[b] - 1 \in Nat BY <1>10
  <2>2. QED BY <1>5, <1>7, <2>1
<1> HIDE DEF o, t
<1>13. p \in RingsOf BY <1>1, <1>4, <1>11, <1>12 DEF RingsOf
<1>14. /\ p.ring = o /\ p.track = t /\ p.counts = l.counts /\ p.count = l.count /\ p.max = l.max
       /\ p.at = l.at /\ p.freq = l.freq
  BY <1>1, <1>4 DEF RingsOf
<1>15. Once(l.ring) BY <1>1 DEF RingsBase
<1>16. \A i, j \in DOMAIN q : q[i] = q[j] => i = j BY <1>2, <1>15 DEF Once
<1>17. Once(o)
  <2>1. \A i, j \in DOMAIN o[f] : o[f][i] = o[f][j] => i = j
    <3> TAKE i, j \in DOMAIN o[f]
    <3>1. HAVE o[f][i] = o[f][j]
    <3>2. i + 1 = j + 1 BY <1>7, <1>11, <1>16, <3>1
    <3>3. i \in Nat /\ j \in Nat BY <1>7, <1>11
    <3>4. QED BY <3>2, <3>3
  <2>2. QED BY <1>11, <1>15, <2>1 DEF Once
<1>18. ASSUME NEW d \in Blocks, NEW h \in Places(o, d)
       PROVE  h \in Places(l.ring, d) /\ (d = b => h # f)
  <2>1. h \in Freqs /\ \E i \in DOMAIN o[h] : o[h][i] = d BY <1>18 DEF Places
  <2>2. CASE h # f BY <1>11, <2>1, <2>2 DEF Places
  <2>3. CASE h = f
    <3>1. PICK i \in DOMAIN Tail(q) : Tail(q)[i] = d BY <1>11, <2>1, <2>3
    <3>2. i + 1 \in DOMAIN q /\ q[i + 1] = d /\ i + 1 # 1 BY <1>7, <3>1
    <3>3. h \in Places(l.ring, d) BY <2>1, <2>3, <3>2 DEF Places
    <3>4. d # b BY <1>7, <1>16, <3>2
    <3>5. QED BY <3>3, <3>4
  <2>4. QED BY <2>2, <2>3
<1>19. \A d \in Blocks : \A h \in Places(p.ring, d) : p.freq[d] = Gone \/ h <= p.freq[d]
  BY <1>1, <1>14, <1>18 DEF RingsBase
<1>20. Ringed(p) = Ringed(l) /\ \A h : HasFreq(p, h) = HasFreq(l, h) BY <1>14 DEF Ringed, HasFreq
<1>21. RingsBase(p) BY <1>1, <1>13, <1>14, <1>17, <1>19, <1>20 DEF RingsBase
<1>22. ASSUME NEW d \in Blocks \ {b} PROVE Tracked(p, d)
  <2>1. Uses(p, d) \subseteq Uses(l, d) BY <1>14, <1>18 DEF Uses
  <2>2. IsFiniteSet(Uses(l, d)) /\ IsFiniteSet(Uses(p, d)) BY <1>1, <1>13, RingsTyped
  <2>3. Cardinality(Uses(p, d)) <= Cardinality(Uses(l, d)) BY <2>1, <2>2, FS_Subset
  <2>4. /\ Cardinality(Uses(p, d)) \in Nat /\ Cardinality(Uses(l, d)) \in Nat /\ l.track[d] \in Nat
        /\ Cardinality(Uses(l, d)) <= l.track[d]
    BY <1>5, <2>2, FS_CardinalityType DEF RingsInv, Tracked
  <2>5. Cardinality(Uses(p, d)) <= l.track[d] BY <2>3, <2>4
  <2>6. QED BY <1>12, <1>14, <2>5 DEF Tracked
<1>23. ASSUME NEW S, S \subseteq Uses(l, b) \ {f} PROVE Cardinality(S) <= p.track[b]
  <2>1. Cardinality(S) <= Cardinality(Uses(l, b) \ {f}) /\ IsFiniteSet(S) BY <1>10, <1>23, FS_Subset
  <2>2. Cardinality(S) \in Nat BY <2>1, FS_CardinalityType
  <2>3. p.track[b] = l.track[b] - 1 BY <1>12, <1>14
  <2>4. QED BY <1>10, <2>1, <2>2, <2>3
<1>24. Places(p.ring, b) \subseteq Uses(l, b) \ {f} BY <1>7, <1>14, <1>18 DEF Uses
<1>25. l.freq[b] # f => Uses(p, b) \subseteq Uses(l, b) \ {f} BY <1>14, <1>24 DEF Uses
<1>26. l.freq[b] # f => Tracked(p, b) BY <1>23, <1>25 DEF Tracked
<1>27. Cardinality(Places(p.ring, b)) <= p.track[b] BY <1>23, <1>24
<1>28. QED BY <1>7, <1>14, <1>21, <1>22, <1>26, <1>27 DEF f, b, p

LEMMA RingsTouched ==
  ASSUME NEW l, RingsInv(l), NEW k \in Keys
  PROVE  RingsInv(F!Touched(l, k)) /\ Ringed(F!Touched(l, k)) = Ringed(l)
<1> DEFINE b == l.at[k]
           f0 == l.freq[b]
           f1 == f0 + 1
           s == F!Touched(l, k)
<1>1. CASE b = NoEntry \/ f0 >= TopFreq BY <1>1 DEF F!Touched, NoEntry
<1>2. CASE ~(b = NoEntry \/ f0 >= TopFreq)
  <2> DEFINE p == F!PushedTo(l, f1, b)
             c == [l.counts EXCEPT ![f0] = @ - 1, ![f1] = @ + 1]
             g == [l.freq EXCEPT ![b] = f1]
             t == [l.track EXCEPT ![b] = @ + 1]
             m == IF f1 > l.max THEN f1 ELSE l.max
  <2>1. l \in RingsOf /\ RingsBase(l) /\ k \in Ringed(l) BY <1>2 DEF RingsInv, RingsBase, Ringed
  <2>2. /\ l.ring \in [Freqs -> Seq(Blocks)] /\ l.counts \in [Freqs -> Nat] /\ l.max \in Freqs
        /\ l.at \in [Keys -> Blocks \cup {NoEntry}]
        /\ l.freq \in [Blocks -> Freqs \cup {Gone}] /\ l.track \in [Blocks -> Nat]
        /\ \A f : IsFiniteSet(HasFreq(l, f))
    BY <2>1, RingsTyped
  <2>3. b \in Blocks /\ f0 \in Freqs /\ k \in HasFreq(l, f0) /\ l.counts[f0] \in Nat \ {0}
    BY <2>1, BlockOf
  <2>4. s = [l EXCEPT !.ring = p, !.counts = c, !.freq = g, !.track = t, !.max = m]
    <3>1. s = [l EXCEPT !.ring = p, !.freq[b] = f1, !.track[b] = @ + 1,
                        !.counts[f0] = @ - 1, !.counts[f1] = @ + 1, !.max = IF f1 > @ THEN f1 ELSE @]
      BY <1>2 DEF F!Touched, NoEntry
    <3> HIDE DEF s, p, f1, f0, b
    <3>2. QED BY <2>1, <3>1 DEF RingsOf
  <2>5. \A j \in Keys : l.at[j] = b <=> j = k BY <1>2, <2>1, <2>3, FreqsTyped DEF RingsBase, Ringed
  <2>6. \A j \in Ringed(l) : j \in Keys /\ l.at[j] \in Blocks BY <2>1, BlockOf
  <2>7. \A f \in Places(l.ring, b) : f <= f0 BY <2>1, <2>3, FreqsTyped DEF RingsBase
  <2>8. f1 \in Freqs /\ f1 # f0 /\ f0 < f1 /\ ~(f1 <= f0) BY <1>2, <2>3, FreqsTyped
  <2>9. f1 \notin Places(l.ring, b) BY <2>7, <2>8
  <2>10. /\ p \in [Freqs -> Seq(Blocks)] /\ Once(p)
         /\ \A d \in Blocks : Places(p, d) \subseteq Places(l.ring, d) \cup (IF d = b THEN {f1} ELSE {})
    <3>1. Once(l.ring) BY <2>1 DEF RingsBase
    <3> HIDE DEF f1, b
    <3>2. QED BY <2>1, <2>3, <2>8, <2>9, <3>1, PushedTyped
  <2> HIDE DEF s, f1, f0, b
  <2>11. /\ c \in [Freqs -> Nat] /\ c[f0] = l.counts[f0] - 1 /\ c[f1] = l.counts[f1] + 1
         /\ \A f \in Freqs \ {f0, f1} : c[f] = l.counts[f]
    <3>1. l.counts[f0] - 1 \in Nat BY <2>3
    <3>2. l.counts[f1] \in Nat BY <2>2, <2>8
    <3>3. l.counts[f1] + 1 \in Nat BY <3>2
    <3>4. QED BY <2>2, <2>3, <2>8, <3>1, <3>3
  <2>12. g \in [Blocks -> Freqs \cup {Gone}] /\ g[b] = f1 /\ \A d \in Blocks \ {b} : g[d] = l.freq[d]
    BY <2>2, <2>3, <2>8
  <2>13. t \in [Blocks -> Nat] /\ t[b] = l.track[b] + 1 /\ \A d \in Blocks \ {b} : t[d] = l.track[d]
    <3>1. l.track[b] \in Nat BY <2>2, <2>3
    <3>2. l.track[b] + 1 \in Nat BY <3>1
    <3>3. QED BY <2>2, <2>3, <3>2
  <2>14. m \in Freqs /\ f1 <= m /\ l.max <= m BY <2>2, <2>8, FreqsTyped
  <2> HIDE DEF p, c, g, t, m
  <2>15. s \in RingsOf BY <2>1, <2>4, <2>10, <2>11, <2>12, <2>13, <2>14 DEF RingsOf
  <2>16. /\ s.ring = p /\ s.counts = c /\ s.count = l.count /\ s.at = l.at /\ s.freq = g /\ s.track = t
         /\ s.max = m
    BY <2>1, <2>4 DEF RingsOf
  <2>17. Ringed(s) = Ringed(l) BY <2>16 DEF Ringed
  <2>18. \A j \in Ringed(l) : s.freq[s.at[j]] = IF j = k THEN f1 ELSE l.freq[l.at[j]]
    BY <2>5, <2>6, <2>12, <2>16 DEF b
  <2>19. l.freq[l.at[k]] = f0 BY DEF f0, b
  <2>20. ASSUME NEW f \in Freqs PROVE s.counts[f] = Cardinality(HasFreq(s, f))
    <3>1. l.counts[f] = Cardinality(HasFreq(l, f)) /\ IsFiniteSet(HasFreq(l, f)) BY <2>1, <2>2 DEF RingsBase
    <3>2. CASE f = f0
      <4>1. HasFreq(s, f) = HasFreq(l, f) \ {k} BY <2>8, <2>17, <2>18, <3>2 DEF HasFreq
      <4>2. k \in HasFreq(l, f) BY <2>3, <3>2
      <4>3. Cardinality(HasFreq(s, f)) = Cardinality(HasFreq(l, f)) - 1 BY <3>1, <4>1, <4>2, FS_RemoveElement
      <4>4. QED BY <2>11, <2>16, <3>1, <3>2, <4>3
    <3>3. CASE f = f1
      <4>1. HasFreq(s, f) = HasFreq(l, f) \cup {k} BY <2>1, <2>17, <2>18, <3>3 DEF HasFreq
      <4>2. k \notin HasFreq(l, f) BY <2>8, <2>19, <3>3 DEF HasFreq
      <4>3. Cardinality(HasFreq(s, f)) = Cardinality(HasFreq(l, f)) + 1 BY <3>1, <4>1, <4>2, FS_AddElement
      <4>4. QED BY <2>11, <2>16, <3>1, <3>3, <4>3
    <3>4. CASE f # f0 /\ f # f1
      <4>1. HasFreq(s, f) = HasFreq(l, f) BY <2>17, <2>18, <2>19, <3>4 DEF HasFreq
      <4>2. QED BY <2>11, <2>16, <3>1, <3>4, <4>1
    <3>5. QED BY <3>2, <3>3, <3>4
  <2>21. ASSUME NEW d \in Blocks PROVE (s.freq[d] # Gone) <=> \E j \in Keys : s.at[j] = d
    <3>1. CASE d = b BY <2>1, <2>8, <2>12, <2>16, <3>1, FreqsTyped DEF b, Ringed
    <3>2. CASE d # b
      <4>1. s.freq[d] = l.freq[d] /\ s.at = l.at BY <2>12, <2>16, <3>2
      <4>2. (l.freq[d] # Gone) <=> \E j \in Keys : l.at[j] = d BY <2>1 DEF RingsBase
      <4>3. QED BY <4>1, <4>2
    <3>3. QED BY <3>1, <3>2
  <2>22. ASSUME NEW d \in Blocks PROVE s.freq[d] <= s.max
    <3>1. l.freq[d] <= l.max BY <2>1 DEF RingsBase
    <3>2. l.freq[d] \in Int /\ l.max \in Int /\ m \in Int /\ l.max <= m BY <2>2, <2>14, FreqsTyped
    <3>3. l.freq[d] <= m BY <3>1, <3>2
    <3>4. QED BY <2>12, <2>14, <2>16, <3>3
  <2>23. ASSUME NEW d \in Blocks, NEW f \in Places(s.ring, d) PROVE s.freq[d] = Gone \/ f <= s.freq[d]
    <3>1. CASE d = b
      <4>1. f \in Places(l.ring, b) \/ f = f1 BY <2>10, <2>16, <2>23, <3>1
      <4>2. f \in Freqs BY <2>23 DEF Places
      <4>3. f <= f1 BY <2>3, <2>7, <2>8, <4>1, <4>2, FreqsTyped
      <4>4. QED BY <2>12, <2>16, <3>1, <4>3
    <3>2. CASE d # b
      <4>1. f \in Places(l.ring, d) BY <2>10, <2>16, <2>23, <3>2
      <4>2. l.freq[d] = Gone \/ f <= l.freq[d] BY <2>1, <4>1 DEF RingsBase
      <4>3. QED BY <2>12, <2>16, <3>2, <4>2
    <3>3. QED BY <3>1, <3>2
  <2>24. /\ \A i, j \in Ringed(s) : s.at[i] = s.at[j] => i = j
         /\ Cardinality(Ringed(s)) = s.count
    BY <2>1, <2>16, <2>17 DEF RingsBase
  <2>25. RingsBase(s)
    BY <2>10, <2>15, <2>16, <2>20, <2>21, <2>22, <2>23, <2>24 DEF RingsBase
  <2>26. ASSUME NEW d \in Blocks PROVE Tracked(s, d)
    <3>1. IsFiniteSet(Uses(l, d)) BY <2>1, RingsTyped
    <3>2. /\ Cardinality(Uses(l, d)) \in Nat /\ l.track[d] \in Nat
          /\ Cardinality(Uses(l, d)) <= l.track[d]
      BY <2>2, <3>1, FS_CardinalityType DEF RingsInv, Tracked
    <3>3. CASE d = b
      <4>1. Uses(s, d) \subseteq Uses(l, d) \cup {f1} BY <2>10, <2>12, <2>16, <3>3 DEF Uses
      <4>2. /\ IsFiniteSet(Uses(l, d) \cup {f1})
            /\ Cardinality(Uses(l, d) \cup {f1}) <= Cardinality(Uses(l, d)) + 1
            /\ Cardinality(Uses(l, d) \cup {f1}) \in Nat
        <5>1. /\ IsFiniteSet(Uses(l, d) \cup {f1})
              /\ \/ Cardinality(Uses(l, d) \cup {f1}) = Cardinality(Uses(l, d))
                 \/ Cardinality(Uses(l, d) \cup {f1}) = Cardinality(Uses(l, d)) + 1
          BY <3>1, FS_AddElement
        <5>2. QED BY <3>2, <5>1
      <4>3. Cardinality(Uses(s, d)) <= Cardinality(Uses(l, d) \cup {f1}) /\ IsFiniteSet(Uses(s, d))
        BY <4>1, <4>2, FS_Subset
      <4>4. Cardinality(Uses(s, d)) \in Nat BY <4>3, FS_CardinalityType
      <4>5. s.track[d] = l.track[d] + 1 BY <2>13, <2>16, <3>3
      <4>6. Cardinality(Uses(s, d)) <= s.track[d] BY <3>2, <4>2, <4>3, <4>4, <4>5
      <4>7. QED BY <4>6 DEF Tracked
    <3>4. CASE d # b
      <4>1. Uses(s, d) \subseteq Uses(l, d) BY <2>10, <2>12, <2>16, <3>4 DEF Uses
      <4>2. Cardinality(Uses(s, d)) <= Cardinality(Uses(l, d)) /\ IsFiniteSet(Uses(s, d))
        BY <3>1, <4>1, FS_Subset
      <4>3. Cardinality(Uses(s, d)) \in Nat BY <4>2, FS_CardinalityType
      <4>4. Cardinality(Uses(s, d)) <= l.track[d] BY <3>2, <4>2, <4>3
      <4>5. QED BY <2>13, <2>16, <3>4, <4>4 DEF Tracked
    <3>5. QED BY <3>3, <3>4
  <2>27. QED BY <2>17, <2>25, <2>26 DEF RingsInv, s
<1>3. QED BY <1>1, <1>2

-----------------------------------------------------------------------------
(* What the rings of LFU stand for.                                        *)

RingWaiting(l) == [f \in Freqs |-> F!Live(l, f)]
RingPassed(l) == [f \in Freqs |-> HasFreq(l, f) \ F!Live(l, f)]

\* Which of two goes first at a frequency.
OlderAt(l, f) ==
  {x \in Keys \X Keys :
     /\ x[1] \in F!Live(l, f) /\ x[2] \in F!Live(l, f)
     /\ \E i, n \in DOMAIN l.ring[f] : i < n /\ l.ring[f][i] = l.at[x[1]] /\ l.ring[f][n] = l.at[x[2]]}

LEMMA OlderSplit == ASSUME NEW l PROVE \A x : x \in F!Older(l) <=> \E f \in Freqs : x \in OlderAt(l, f)
BY DEF F!Older, OlderAt, Freqs

LEMMA LiveIs ==
  ASSUME NEW l, NEW f \in Freqs
  PROVE  \A k : k \in F!Live(l, f) <=> k \in HasFreq(l, f) /\ \E i \in DOMAIN l.ring[f] : l.ring[f][i] = l.at[k]
BY DEF F!Live, HasFreq, Ringed, NoEntry

\* A ring stands for what it did when it and the entries of its frequency are the same.
LEMMA SameAt ==
  ASSUME NEW l, NEW s, NEW f \in Freqs, HasFreq(s, f) = HasFreq(l, f), s.ring[f] = l.ring[f],
         \A j \in HasFreq(l, f) : s.at[j] = l.at[j]
  PROVE  F!Live(s, f) = F!Live(l, f) /\ OlderAt(s, f) = OlderAt(l, f)
<1> DEFINE q == l.ring[f]
<1>1. s.ring[f] = q OBVIOUS
<1> HIDE DEF q
<1>2. \A k : k \in F!Live(l, f) <=> k \in HasFreq(l, f) /\ \E i \in DOMAIN q : q[i] = l.at[k] BY LiveIs DEF q
<1>3. \A k : k \in F!Live(s, f) <=> k \in HasFreq(s, f) /\ \E i \in DOMAIN q : q[i] = s.at[k] BY <1>1, LiveIs
<1>4. F!Live(s, f) = F!Live(l, f)
  <2>1. \A k : k \in F!Live(s, f) <=> k \in F!Live(l, f) BY <1>2, <1>3
  <2>2. QED BY <2>1
<1>5. \A j \in F!Live(l, f) : s.at[j] = l.at[j] BY <1>2
<1>6. ASSUME NEW x \in Keys \X Keys PROVE x \in OlderAt(s, f) <=> x \in OlderAt(l, f)
  <2>1. x \in OlderAt(l, f) <=>
          /\ x[1] \in F!Live(l, f) /\ x[2] \in F!Live(l, f)
          /\ \E i, n \in DOMAIN q : i < n /\ q[i] = l.at[x[1]] /\ q[n] = l.at[x[2]]
    BY DEF OlderAt, q
  <2>2. x \in OlderAt(s, f) <=>
          /\ x[1] \in F!Live(l, f) /\ x[2] \in F!Live(l, f)
          /\ \E i, n \in DOMAIN q : i < n /\ q[i] = s.at[x[1]] /\ q[n] = s.at[x[2]]
    BY <1>1, <1>4 DEF OlderAt
  <2>3. QED BY <1>5, <2>1, <2>2
<1>7. OlderAt(s, f) = OlderAt(l, f)
  <2>1. OlderAt(s, f) \subseteq Keys \X Keys /\ OlderAt(l, f) \subseteq Keys \X Keys BY DEF OlderAt
  <2>2. QED BY <1>6, <2>1
<1>8. QED BY <1>4, <1>7

Lacks(s, k) == [f \in Freqs |-> s[f] \ {k}]

\* The key k alone has no frequency any more.
Forgets(l, s, k) ==
  /\ s.at[k] = NoEntry \/ s.freq[s.at[k]] \notin Freqs
  /\ \A j \in Keys \ {k} : s.at[j] = l.at[j] /\ (l.at[j] # NoEntry => s.freq[l.at[j]] = l.freq[l.at[j]])

LEMMA RingsLeft ==
  ASSUME NEW l, NEW s, NEW k, s.ring = l.ring, Forgets(l, s, k)
  PROVE  /\ RingWaiting(s) = Lacks(RingWaiting(l), k) /\ RingPassed(s) = Lacks(RingPassed(l), k)
         /\ F!Older(s) = Spared(F!Older(l), k)
<1>1. ASSUME NEW f \in Freqs PROVE HasFreq(s, f) = HasFreq(l, f) \ {k}
  BY DEF HasFreq, Ringed, Forgets
<1>2. ASSUME NEW f \in Freqs PROVE F!Live(s, f) = F!Live(l, f) \ {k}
  <2>1. \A j \in HasFreq(l, f) \ {k} : s.at[j] = l.at[j] BY DEF HasFreq, Ringed, Forgets
  <2>2. QED BY <1>1, <2>1, LiveIs
<1>3. ASSUME NEW f \in Freqs PROVE OlderAt(s, f) = Spared(OlderAt(l, f), k)
  <2>1. \A j \in F!Live(l, f) \ {k} : s.at[j] = l.at[j] BY LiveIs DEF HasFreq, Ringed, Forgets
  <2>2. \A x \in OlderAt(s, f) : x \in Spared(OlderAt(l, f), k) BY <1>2, <2>1 DEF OlderAt, Spared
  <2>3. \A x \in Spared(OlderAt(l, f), k) : x \in OlderAt(s, f) BY <1>2, <2>1 DEF OlderAt, Spared
  <2>4. \A x \in Spared(OlderAt(l, f), k) : x \in OlderAt(l, f) BY DEF Spared
  <2>5. QED BY <2>2, <2>3
<1>4. F!Older(s) = Spared(F!Older(l), k)
  <2>1. \A x : x \in F!Older(s) <=> x \in F!Older(l) /\ x[1] # k /\ x[2] # k BY <1>3, OlderSplit DEF Spared
  <2>2. QED BY <2>1 DEF Spared
<1>5. RingWaiting(s) = Lacks(RingWaiting(l), k) BY <1>2 DEF RingWaiting, Lacks
<1>6. RingPassed(s) = Lacks(RingPassed(l), k) BY <1>1, <1>2 DEF RingPassed, Lacks
<1>7. QED BY <1>4, <1>5, <1>6

\* The key k alone is given the block b and the frequency f.
Gives(l, s, k, b, f) ==
  /\ l.at[k] = NoEntry \/ l.freq[l.at[k]] \notin Freqs
  /\ s.at[k] = b /\ s.freq[b] = f
  /\ \A j \in Keys \ {k} : /\ s.at[j] = l.at[j] /\ l.at[j] # b
                           /\ l.at[j] # NoEntry => s.freq[l.at[j]] = l.freq[l.at[j]]

\* It comes to the end of the ring, or is passed over if that is full.
ComesTo(ring, w, p, o, s, k, f) ==
  \/ /\ Len(ring[f]) # Room
     /\ RingWaiting(s) = [w EXCEPT ![f] = @ \cup {k}] /\ RingPassed(s) = p
     /\ F!Older(s) = o \cup (w[f] \X {k})
  \/ /\ Len(ring[f]) = Room
     /\ RingWaiting(s) = w /\ RingPassed(s) = [p EXCEPT ![f] = @ \cup {k}] /\ F!Older(s) = o

LEMMA RingsCome ==
  ASSUME NEW l, NEW s, NEW k \in Keys, NEW b \in Blocks, NEW f \in Freqs,
         l.ring \in [Freqs -> Seq(Blocks)], f \notin Places(l.ring, b),
         s.ring = F!PushedTo(l, f, b), Gives(l, s, k, b, f)
  PROVE  ComesTo(l.ring, RingWaiting(l), RingPassed(l), F!Older(l), s, k, f)
<1> DEFINE q == l.ring[f]
<1>1. b # NoEntry BY FreqsTyped
<1>2. /\ \A g \in Freqs \ {f} : HasFreq(s, g) = HasFreq(l, g)
      /\ HasFreq(s, f) = HasFreq(l, f) \cup {k}
      /\ \A g \in Freqs : k \notin HasFreq(l, g)
  BY <1>1 DEF HasFreq, Ringed, Gives
<1>3. \A j \in Keys \ {k} : s.at[j] = l.at[j] BY DEF Gives
<1>4. s.at[k] = b BY DEF Gives
<1>5. q \in Seq(Blocks) /\ \A i \in DOMAIN q : q[i] # b BY DEF Places
<1>6. \A g \in Freqs : HasFreq(l, g) \subseteq Keys \ {k} BY <1>2 DEF HasFreq, Ringed
<1>7. \A g \in Freqs : F!Live(l, g) \subseteq HasFreq(l, g) BY LiveIs
<1>8. CASE Len(q) = Room
  <2>1. s.ring = l.ring BY <1>8 DEF F!PushedTo
  <2>2. ASSUME NEW g \in Freqs PROVE F!Live(s, g) = F!Live(l, g)
    <3>1. \A j \in F!Live(s, g) : j # k
      <4>1. CASE g = f BY <1>4, <1>5, <2>1, <4>1, LiveIs
      <4>2. CASE g # f BY <1>2, <4>2, LiveIs
      <4>3. QED BY <4>1, <4>2
    <3>2. \A j \in HasFreq(s, g) \ {k} : j \in HasFreq(l, g) /\ s.at[j] = l.at[j] BY <1>2, <1>3, <1>6
    <3>3. \A j \in HasFreq(l, g) : j \in HasFreq(s, g) /\ s.at[j] = l.at[j] BY <1>2, <1>3, <1>6
    <3>4. \A j : j \in F!Live(s, g) <=> j \in F!Live(l, g)
      <4> TAKE j
      <4>1. j \in F!Live(s, g) => j \in F!Live(l, g) BY <2>1, <3>1, <3>2, LiveIs
      <4>2. j \in F!Live(l, g) => j \in F!Live(s, g) BY <2>1, <3>3, LiveIs
      <4>3. QED BY <4>1, <4>2
    <3>5. QED BY <3>4
  <2>3. ASSUME NEW g \in Freqs PROVE OlderAt(s, g) = OlderAt(l, g)
    <3>1. \A j \in F!Live(l, g) : s.at[j] = l.at[j] BY <1>3, <1>6, <1>7
    <3>2. QED BY <2>1, <2>2, <3>1 DEF OlderAt
  <2>4. \A x : x \in F!Older(s) <=> x \in F!Older(l) BY <2>3, OlderSplit
  <2>5. F!Older(s) = F!Older(l) BY <2>4
  <2>6. RingWaiting(s) = RingWaiting(l) BY <2>2 DEF RingWaiting
  <2>7. RingPassed(s) = [RingPassed(l) EXCEPT ![f] = @ \cup {k}]
    <3>1. \A g \in Freqs \ {f} : HasFreq(s, g) \ F!Live(s, g) = HasFreq(l, g) \ F!Live(l, g) BY <1>2, <2>2
    <3>2. HasFreq(s, f) \ F!Live(s, f) = (HasFreq(l, f) \ F!Live(l, f)) \cup {k} BY <1>2, <1>7, <2>2
    <3>3. QED BY <3>1, <3>2 DEF RingPassed
  <2>8. QED BY <1>8, <2>5, <2>6, <2>7 DEF ComesTo
<1>9. CASE Len(q) # Room
  <2> DEFINE q2 == Append(q, b)
             m == Len(q)
  <2>1. s.ring = [l.ring EXCEPT ![f] = q2] BY <1>9 DEF F!PushedTo
  <2>2. s.ring[f] = q2 /\ \A g \in Freqs \ {f} : s.ring[g] = l.ring[g] BY <2>1
  <2>3. /\ m \in Nat /\ DOMAIN q = 1 .. m /\ DOMAIN q2 = 1 .. m + 1 /\ q2[m + 1] = b
        /\ \A i \in DOMAIN q : q2[i] = q[i]
    BY <1>5
  <2> HIDE DEF q2, m
  <2>4. \A i \in DOMAIN q2 : i \in DOMAIN q \/ i = m + 1 BY <2>3
  <2>5. \A i \in DOMAIN q : i \in DOMAIN q2 /\ i < m + 1 BY <2>3
  <2>6. m + 1 \in DOMAIN q2 BY <2>3
  <2>7. ASSUME NEW g \in Freqs \ {f} PROVE F!Live(s, g) = F!Live(l, g) /\ OlderAt(s, g) = OlderAt(l, g)
    <3>1. \A j \in HasFreq(l, g) : s.at[j] = l.at[j] BY <1>3, <1>6
    <3>2. QED BY <1>2, <2>2, <3>1, SameAt
  <2>8. ASSUME NEW j \in HasFreq(l, f), NEW i \in DOMAIN q2
        PROVE  q2[i] = s.at[j] <=> (i \in DOMAIN q /\ q[i] = l.at[j])
    <3>1. j \in Keys \ {k} /\ s.at[j] = l.at[j] /\ l.at[j] # b BY <1>3, <1>6 DEF Gives
    <3>2. QED BY <2>3, <2>4, <3>1
  <2>9. F!Live(s, f) = F!Live(l, f) \cup {k}
    <3>1. \A j \in HasFreq(l, f) : j \in F!Live(s, f) <=> j \in F!Live(l, f) BY <1>2, <2>2, <2>5, <2>8, LiveIs
    <3>2. k \in F!Live(s, f) BY <1>2, <1>4, <2>2, <2>3, <2>6, LiveIs
    <3>3. F!Live(s, f) \subseteq HasFreq(l, f) \cup {k} BY <1>2, LiveIs
    <3>4. QED BY <1>7, <3>1, <3>2, <3>3
  <2>10. OlderAt(s, f) = OlderAt(l, f) \cup (F!Live(l, f) \X {k})
    <3>1. ASSUME NEW x \in OlderAt(s, f) PROVE x \in OlderAt(l, f) \cup (F!Live(l, f) \X {k})
      <4>1. x \in Keys \X Keys /\ x[1] \in F!Live(s, f) /\ x[2] \in F!Live(s, f) BY DEF OlderAt
      <4>2. PICK i \in DOMAIN q2, n \in DOMAIN q2 : i < n /\ q2[i] = s.at[x[1]] /\ q2[n] = s.at[x[2]]
        BY <2>2 DEF OlderAt
      <4>3. x[1] # k
        <5>1. SUFFICES ASSUME x[1] = k PROVE FALSE OBVIOUS
        <5>2. i = m + 1 BY <1>4, <1>5, <2>3, <2>4, <4>2, <5>1
        <5>3. n \in 1 .. m + 1 BY <2>3
        <5>4. QED BY <2>3, <4>2, <5>2, <5>3
      <4>4. x[1] \in F!Live(l, f) /\ i \in DOMAIN q /\ q[i] = l.at[x[1]]
        <5>1. x[1] \in F!Live(l, f) BY <2>9, <4>1, <4>3
        <5>2. QED BY <1>7, <2>8, <4>2, <5>1
      <4>5. CASE x[2] = k BY <4>1, <4>4, <4>5
      <4>6. CASE x[2] # k
        <5>1. x[2] \in F!Live(l, f) BY <2>9, <4>1, <4>6
        <5>2. n \in DOMAIN q /\ q[n] = l.at[x[2]] BY <1>7, <2>8, <4>2, <5>1
        <5>3. QED BY <4>1, <4>2, <4>4, <5>1, <5>2 DEF OlderAt
      <4>7. QED BY <4>5, <4>6
    <3>2. ASSUME NEW x \in OlderAt(l, f) PROVE x \in OlderAt(s, f)
      <4>1. x \in Keys \X Keys /\ x[1] \in F!Live(l, f) /\ x[2] \in F!Live(l, f) BY DEF OlderAt
      <4>2. PICK i \in DOMAIN q, n \in DOMAIN q : i < n /\ q[i] = l.at[x[1]] /\ q[n] = l.at[x[2]] BY DEF OlderAt
      <4>3. q2[i] = s.at[x[1]] /\ q2[n] = s.at[x[2]] /\ i \in DOMAIN q2 /\ n \in DOMAIN q2
        BY <1>7, <2>5, <2>8, <4>1, <4>2
      <4>4. QED BY <2>2, <2>9, <4>1, <4>2, <4>3 DEF OlderAt
    <3>3. ASSUME NEW j \in F!Live(l, f) PROVE <<j, k>> \in OlderAt(s, f)
      <4>1. PICK i \in DOMAIN q : q[i] = l.at[j] BY LiveIs
      <4>2. q2[i] = s.at[j] /\ i \in DOMAIN q2 /\ i < m + 1 BY <1>7, <2>5, <2>8, <4>1
      <4>3. q2[m + 1] = s.at[k] /\ m + 1 \in DOMAIN q2 BY <1>4, <2>3, <2>6
      <4>4. j \in Keys /\ j \in F!Live(s, f) /\ k \in F!Live(s, f) BY <1>6, <1>7, <2>9
      <4>5. QED BY <2>2, <4>2, <4>3, <4>4 DEF OlderAt
    <3>4. \A x \in F!Live(l, f) \X {k} : x \in OlderAt(s, f)
      <4> TAKE x \in F!Live(l, f) \X {k}
      <4>1. PICK j \in F!Live(l, f) : x = <<j, k>> OBVIOUS
      <4>2. QED BY <3>3, <4>1
    <3>5. QED BY <3>1, <3>2, <3>4
  <2>11. F!Older(s) = F!Older(l) \cup (F!Live(l, f) \X {k})
    <3>1. \A x : x \in F!Older(s) <=> x \in F!Older(l) \/ x \in F!Live(l, f) \X {k}
      BY <2>7, <2>10, OlderSplit
    <3>2. QED BY <3>1
  <2>12. RingWaiting(s) = [RingWaiting(l) EXCEPT ![f] = @ \cup {k}] BY <2>7, <2>9 DEF RingWaiting
  <2>13. RingPassed(s) = RingPassed(l)
    <3>1. \A g \in Freqs \ {f} : HasFreq(s, g) \ F!Live(s, g) = HasFreq(l, g) \ F!Live(l, g) BY <1>2, <2>7
    <3>2. HasFreq(s, f) \ F!Live(s, f) = HasFreq(l, f) \ F!Live(l, f) BY <1>2, <2>9
    <3>3. QED BY <3>1, <3>2 DEF RingPassed
  <2>14. F!Live(l, f) = RingWaiting(l)[f] BY DEF RingWaiting
  <2>15. QED BY <1>9, <2>11, <2>12, <2>13, <2>14 DEF ComesTo
<1>10. QED BY <1>8, <1>9

\* What is popped and has not the frequency of the ring was not seen there.
Pops(l, s, f) ==
  /\ l.ring \in [Freqs -> Seq(Blocks)] /\ l.ring[f] # <<>>
  /\ s.ring = [l.ring EXCEPT ![f] = Tail(@)] /\ s.at = l.at /\ s.freq = l.freq
  /\ \A k \in HasFreq(l, f) : l.at[k] # Head(l.ring[f])

LEMMA PopUnseen ==
  ASSUME NEW l, NEW s, NEW f \in Freqs, Pops(l, s, f)
  PROVE  RingWaiting(s) = RingWaiting(l) /\ RingPassed(s) = RingPassed(l) /\ F!Older(s) = F!Older(l)
<1> DEFINE q == l.ring[f]
           t == Tail(q)
<1>1. q \in Seq(Blocks) /\ q # <<>> /\ \A k \in HasFreq(l, f) : l.at[k] # Head(q) BY DEF Pops
<1>2. s.ring[f] = t /\ \A g \in Freqs \ {f} : s.ring[g] = l.ring[g] BY DEF Pops
<1> HIDE DEF q
<1>3. /\ \A i \in DOMAIN t : i \in Nat /\ i + 1 \in DOMAIN q /\ t[i] = q[i + 1]
      /\ \A i \in DOMAIN q : i \in Nat /\ (i = 1 \/ i - 1 \in DOMAIN t)
      /\ q[1] = Head(q)
  BY <1>1
<1> HIDE DEF t
<1>4. s.at = l.at /\ \A g \in Freqs : HasFreq(s, g) = HasFreq(l, g) BY DEF Pops, HasFreq, Ringed
<1>5. ASSUME NEW k \in HasFreq(l, f), NEW i \in DOMAIN q, q[i] = l.at[k]
      PROVE  i - 1 \in DOMAIN t /\ t[i - 1] = l.at[k]
  <2>1. i # 1 BY <1>1, <1>3, <1>5
  <2>2. i - 1 \in DOMAIN t /\ (i - 1) + 1 = i BY <1>3, <2>1
  <2>3. QED BY <1>3, <1>5, <2>2
<1>6. F!Live(s, f) = F!Live(l, f)
  <2>1. \A k : k \in F!Live(s, f) <=> k \in HasFreq(l, f) /\ \E i \in DOMAIN t : t[i] = l.at[k]
    BY <1>2, <1>4, LiveIs
  <2>2. \A k : k \in F!Live(l, f) <=> k \in HasFreq(l, f) /\ \E i \in DOMAIN q : q[i] = l.at[k] BY LiveIs DEF q
  <2>3. \A k : k \in F!Live(s, f) => k \in F!Live(l, f) BY <1>3, <2>1, <2>2
  <2>4. \A k : k \in F!Live(l, f) => k \in F!Live(s, f) BY <1>5, <2>1, <2>2
  <2>5. \A k : k \in F!Live(s, f) <=> k \in F!Live(l, f) BY <2>3, <2>4
  <2>6. QED BY <2>5
<1>7. \A g \in Freqs \ {f} : F!Live(s, g) = F!Live(l, g) /\ OlderAt(s, g) = OlderAt(l, g)
  <2> TAKE g \in Freqs \ {f}
  <2>1. QED BY <1>2, <1>4, SameAt
<1>8. OlderAt(s, f) = OlderAt(l, f)
  <2>1. ASSUME NEW x \in OlderAt(s, f) PROVE x \in OlderAt(l, f)
    <3>1. PICK i \in DOMAIN t, n \in DOMAIN t : i < n /\ t[i] = l.at[x[1]] /\ t[n] = l.at[x[2]]
      BY <1>2, <1>4 DEF OlderAt
    <3>2. i + 1 \in DOMAIN q /\ n + 1 \in DOMAIN q /\ i + 1 < n + 1 /\ q[i + 1] = l.at[x[1]] /\ q[n + 1] = l.at[x[2]]
      BY <1>3, <3>1
    <3>3. QED BY <1>6, <3>2 DEF OlderAt, q
  <2>2. ASSUME NEW x \in OlderAt(l, f) PROVE x \in OlderAt(s, f)
    <3>1. x[1] \in HasFreq(l, f) /\ x[2] \in HasFreq(l, f) BY LiveIs DEF OlderAt
    <3>2. PICK i \in DOMAIN q, n \in DOMAIN q : i < n /\ q[i] = l.at[x[1]] /\ q[n] = l.at[x[2]] BY DEF OlderAt, q
    <3>3. i - 1 \in DOMAIN t /\ n - 1 \in DOMAIN t /\ t[i - 1] = l.at[x[1]] /\ t[n - 1] = l.at[x[2]]
      BY <1>5, <3>1, <3>2
    <3>4. i - 1 < n - 1 BY <1>3, <3>2
    <3>5. QED BY <1>2, <1>4, <1>6, <3>3, <3>4 DEF OlderAt
  <2>3. QED BY <2>1, <2>2
<1>9. \A x : x \in F!Older(s) <=> x \in F!Older(l) BY <1>7, <1>8, OlderSplit
<1>10. F!Older(s) = F!Older(l) BY <1>9
<1>11. \A g \in Freqs : F!Live(s, g) = F!Live(l, g) BY <1>6, <1>7
<1>12. RingWaiting(s) = RingWaiting(l) /\ RingPassed(s) = RingPassed(l) BY <1>4, <1>11 DEF RingWaiting, RingPassed
<1>13. QED BY <1>10, <1>12

\* lfu_store_entry
LEMMA StoredShows ==
  ASSUME NEW l, RingsInv(l), F!FreeBlocks(l) # {}, NEW k \in Keys, l.at[k] = NoEntry
  PROVE  ComesTo(l.ring, RingWaiting(l), RingPassed(l), F!Older(l), F!Stored(l, k), k, 0)
<1> DEFINE b == F!Min(F!FreeBlocks(l))
           s == F!Stored(l, k)
<1>1. l \in RingsOf BY DEF RingsInv, RingsBase
<1>2. b \in Blocks /\ Places(l.ring, b) = {} /\ \A j \in Keys : l.at[j] # b BY FreeBlock
<1>3. /\ l.ring \in [Freqs -> Seq(Blocks)] /\ l.at \in [Keys -> Blocks \cup {NoEntry}]
      /\ l.freq \in [Blocks -> Freqs \cup {Gone}]
  BY <1>1, RingsTyped
<1>4. s.ring = F!PushedTo(l, 0, b) /\ s.at = [l.at EXCEPT ![k] = b] /\ s.freq = [l.freq EXCEPT ![b] = 0]
  BY <1>1 DEF F!Stored, RingsOf
<1> HIDE DEF b, s
<1>5. Gives(l, s, k, b, 0) BY <1>2, <1>3, <1>4 DEF Gives
<1>6. 0 \in Freqs /\ 0 \notin Places(l.ring, b) BY <1>2, FreqsTyped
<1>7. QED BY <1>2, <1>3, <1>4, <1>5, <1>6, RingsCome DEF s

\* lfu_remove_entry
RemovedIs(l, r, k) ==
  /\ Forgets(l, r, k) /\ r.ring = l.ring /\ r.at = [l.at EXCEPT ![k] = NoEntry]
  /\ r.freq = [l.freq EXCEPT ![l.at[k]] = Gone]

LEMMA RemovedFields ==
  ASSUME NEW l, RingsBase(l), NEW k \in Ringed(l), NEW r, r = F!Removed(l, l.at[k])
  PROVE  RemovedIs(l, r, k)
<1> DEFINE b == l.at[k]
<1>1. l \in RingsOf BY DEF RingsBase
<1>2. k \in Keys /\ b \in Blocks /\ F!KeyOf(l, b) = k BY BlockOf
<1>3. l.at \in [Keys -> Blocks \cup {NoEntry}] /\ l.freq \in [Blocks -> Freqs \cup {Gone}] BY <1>1, RingsTyped
<1>4. r.ring = l.ring /\ r.at = [l.at EXCEPT ![k] = NoEntry] /\ r.freq = [l.freq EXCEPT ![b] = Gone]
  BY <1>1, <1>2 DEF F!Removed, NoEntry, Gone, RingsOf
<1>5. \A j \in Keys : l.at[j] = b => j = k BY <1>2, FreqsTyped DEF RingsBase, Ringed
<1>6. \A j \in Keys \ {k} : r.at[j] = l.at[j] /\ (l.at[j] # NoEntry => l.at[j] \in Blocks \ {b}) BY <1>3, <1>4, <1>5
<1>7. \A j \in Keys \ {k} : l.at[j] # NoEntry => r.freq[l.at[j]] = l.freq[l.at[j]] BY <1>3, <1>4, <1>6
<1>8. r.at[k] = NoEntry BY <1>2, <1>3, <1>4
<1>9. Forgets(l, r, k) BY <1>6, <1>7, <1>8 DEF Forgets
<1>10. QED BY <1>4, <1>9 DEF RemovedIs

\* erase
LEMMA ErasedShows ==
  ASSUME NEW l, RingsInv(l), NEW k \in Keys, NEW r, r = F!Erased(l, k)
  PROVE  /\ k \notin Ringed(l) => r = l
         /\ k \in Ringed(l) => /\ RingWaiting(r) = Lacks(RingWaiting(l), k)
                               /\ RingPassed(r) = Lacks(RingPassed(l), k)
                               /\ F!Older(r) = Spared(F!Older(l), k)
<1>1. CASE k \notin Ringed(l) BY <1>1 DEF F!Erased, Ringed, NoEntry
<1>2. CASE k \in Ringed(l)
  <2>1. r = F!Removed(l, l.at[k]) BY <1>2 DEF F!Erased, Ringed, NoEntry
  <2>2. RingsBase(l) BY DEF RingsInv
  <2>3. RemovedIs(l, r, k) BY <1>2, <2>1, <2>2, RemovedFields
  <2>4. r.ring = l.ring /\ Forgets(l, r, k) BY <2>3 DEF RemovedIs
  <2>5. QED BY <1>2, <2>4, RingsLeft
<1>3. QED BY <1>1, <1>2

\* hit
LEMMA TouchedShows ==
  ASSUME NEW l, RingsInv(l), NEW k \in Keys, NEW s, s = F!Touched(l, k)
  PROVE  \/ s = l
         \/ \E f \in Freqs :
              /\ k \in HasFreq(l, f) /\ f + 1 \in Freqs
              /\ ComesTo(l.ring, Lacks(RingWaiting(l), k), Lacks(RingPassed(l), k), Spared(F!Older(l), k), s, k, f + 1)
<1> DEFINE b == l.at[k]
           f == l.freq[b]
<1>1. CASE b = NoEntry \/ f >= TopFreq BY <1>1 DEF F!Touched, NoEntry
<1>2. CASE ~(b = NoEntry \/ f >= TopFreq)
  <2>1. l \in RingsOf /\ RingsBase(l) /\ k \in Ringed(l) BY <1>2 DEF RingsInv, RingsBase, Ringed
  <2>2. /\ l.ring \in [Freqs -> Seq(Blocks)] /\ l.at \in [Keys -> Blocks \cup {NoEntry}]
        /\ l.freq \in [Blocks -> Freqs \cup {Gone}]
    BY <2>1, RingsTyped
  <2>3. b \in Blocks /\ f \in Freqs /\ k \in HasFreq(l, f) BY <2>1, BlockOf
  <2>4. \A j \in Keys : l.at[j] = b => j = k BY <2>1, <2>3, FreqsTyped DEF RingsBase, Ringed
  <2>5. f + 1 \in Freqs /\ f + 1 > f BY <1>2, <2>3, FreqsTyped
  <2>6. f + 1 \notin Places(l.ring, b)
    <3>1. SUFFICES ASSUME f + 1 \in Places(l.ring, b) PROVE FALSE OBVIOUS
    <3>2. l.freq[b] = Gone \/ f + 1 <= l.freq[b] BY <2>1, <2>3, <3>1 DEF RingsBase
    <3>3. QED BY <2>3, <2>5, <3>2, FreqsTyped
  <2>7. s.ring = F!PushedTo(l, f + 1, b) /\ s.at = l.at /\ s.freq = [l.freq EXCEPT ![b] = f + 1]
    BY <1>2, <2>1 DEF F!Touched, NoEntry, RingsOf
  <2>8. b = l.at[k] OBVIOUS
  <2> DEFINE x == [ring |-> l.ring, at |-> l.at, freq |-> [l.freq EXCEPT ![b] = Gone]]
             f1 == f + 1
  <2>9. x.ring = l.ring /\ x.at = l.at /\ x.freq = [l.freq EXCEPT ![b] = Gone] OBVIOUS
  <2>10. s.ring = F!PushedTo(x, f1, b) BY <2>7, <2>9 DEF F!PushedTo
  <2>11. f1 \in Freqs /\ f1 \notin Places(x.ring, b) /\ s.freq = [l.freq EXCEPT ![b] = f1] BY <2>5, <2>6, <2>7, <2>9
  <2> HIDE DEF x, f1, b
  <2>12. \A j \in Keys \ {k} : l.at[j] # b /\ (l.at[j] # NoEntry => l.at[j] \in Blocks \ {b}) BY <2>2, <2>4
  <2>13. \A j \in Keys \ {k} : l.at[j] # NoEntry => x.freq[l.at[j]] = l.freq[l.at[j]] /\ s.freq[l.at[j]] = l.freq[l.at[j]]
    BY <2>2, <2>9, <2>11, <2>12
  <2>14. x.freq[b] = Gone /\ s.freq[b] = f1 BY <2>2, <2>3, <2>9, <2>11
  <2>15. Forgets(l, x, k) BY <2>8, <2>9, <2>13, <2>14, FreqsTyped DEF Forgets
  <2>16. Gives(x, s, k, b, f1) BY <2>7, <2>8, <2>9, <2>12, <2>13, <2>14, FreqsTyped DEF Gives
  <2>17. /\ RingWaiting(x) = Lacks(RingWaiting(l), k) /\ RingPassed(x) = Lacks(RingPassed(l), k)
         /\ F!Older(x) = Spared(F!Older(l), k)
    BY <2>9, <2>15, RingsLeft
  <2>18. x.ring \in [Freqs -> Seq(Blocks)] BY <2>2, <2>9
  <2>19. ComesTo(x.ring, RingWaiting(x), RingPassed(x), F!Older(x), s, k, f1)
    BY <2>3, <2>10, <2>11, <2>16, <2>18, RingsCome
  <2>20. ComesTo(l.ring, Lacks(RingWaiting(l), k), Lacks(RingPassed(l), k), Spared(F!Older(l), k), s, k, f1)
    BY <2>9, <2>17, <2>19
  <2>21. QED BY <2>3, <2>11, <2>20 DEF f1, b
<1>3. QED BY <1>1, <1>2

\* The loop of insert: what is popped in vain changes nothing, ...
LEMMA PopFields ==
  ASSUME NEW l, RingsInv(l), l.count >= 1, ~F!FoundNone(l), NEW f, f = F!MinFreq(l), NEW b, b = F!Popped(l),
         NEW p, p = F!AfterPop(l)
  PROVE  /\ f \in Freqs /\ b \in Blocks /\ l.ring \in [Freqs -> Seq(Blocks)]
         /\ l.ring[f] # <<>> /\ b = Head(l.ring[f])
         /\ p.ring = [l.ring EXCEPT ![f] = Tail(@)] /\ p.at = l.at /\ p.freq = l.freq
<1>1. l \in RingsOf /\ RingsBase(l) BY DEF RingsInv, RingsBase
<1>2. f \in Freqs BY <1>1, LeastFreq
<1>3. b \in Blocks BY RingsPopped
<1>4. l.ring \in [Freqs -> Seq(Blocks)] BY <1>1, RingsTyped
<1>5. l.ring[f] # <<>> /\ b = Head(l.ring[f]) BY DEF F!FoundNone, F!LastRing, F!Popped
<1>6. p.ring = [l.ring EXCEPT ![f] = Tail(@)] /\ p.at = l.at /\ p.freq = l.freq
  BY <1>1 DEF F!AfterPop, RingsOf
<1>7. QED BY <1>2, <1>3, <1>4, <1>5, <1>6

LEMMA StaleShows ==
  ASSUME NEW l, RingsInv(l), l.count >= 1, ~F!FoundNone(l), ~F!IsVictim(l), NEW p, p = F!AfterPop(l)
  PROVE  RingWaiting(p) = RingWaiting(l) /\ RingPassed(p) = RingPassed(l) /\ F!Older(p) = F!Older(l)
<1> DEFINE f == F!MinFreq(l)
           b == F!Popped(l)
<1>1. l.freq[b] # f BY DEF F!IsVictim
<1> HIDE DEF f, b
<1>2. /\ f \in Freqs /\ b \in Blocks /\ l.ring \in [Freqs -> Seq(Blocks)]
      /\ l.ring[f] # <<>> /\ b = Head(l.ring[f])
      /\ p.ring = [l.ring EXCEPT ![f] = Tail(@)] /\ p.at = l.at /\ p.freq = l.freq
  BY PopFields DEF f, b
<1>3. \A k \in HasFreq(l, f) : l.at[k] # Head(l.ring[f]) BY <1>1, <1>2 DEF HasFreq
<1>4. Pops(l, p, f) BY <1>2, <1>3 DEF Pops
<1>5. QED BY <1>2, <1>4, PopUnseen

\* ... and the victim is the oldest that waits.
LEMMA VictimShows ==
  ASSUME NEW l, RingsInv(l), l.count >= 1, ~F!FoundNone(l), NEW v \in Ringed(l), l.at[v] = F!Popped(l),
         F!IsVictim(l), NEW r, r = F!Removed(F!AfterPop(l), F!Popped(l))
  PROVE  /\ v \in F!Live(l, F!MinFreq(l)) /\ \A j : <<j, v>> \notin F!Older(l)
         /\ RingWaiting(r) = Lacks(RingWaiting(l), v) /\ RingPassed(r) = RingPassed(l)
         /\ F!Older(r) = Spared(F!Older(l), v)
         /\ \A f \in Freqs : Len(r.ring[f]) \in Nat /\ Len(r.ring[f]) <= Len(l.ring[f])
<1> DEFINE f == F!MinFreq(l)
           b == F!Popped(l)
           p == F!AfterPop(l)
           q == l.ring[f]
           x == F!Removed(l, b)
<1>1. l.freq[b] = f /\ RingsBase(l) BY DEF F!IsVictim, RingsInv
<1>2. RingsBase(p) /\ p.at = l.at /\ p.freq = l.freq BY RingsPopped
<1> HIDE DEF f, b, p
<1>3. /\ f \in Freqs /\ b \in Blocks /\ l.ring \in [Freqs -> Seq(Blocks)]
      /\ q # <<>> /\ b = Head(q) /\ p.ring = [l.ring EXCEPT ![f] = Tail(@)]
  BY PopFields DEF f, b, p
<1>4. q \in Seq(Blocks) BY <1>3
<1>5. l.at[v] = b /\ v \in Keys BY DEF b, Ringed
<1>6. v \in HasFreq(l, f) /\ \A g \in Freqs : v \in HasFreq(l, g) => g = f BY <1>1, <1>5 DEF HasFreq
<1>7. 1 \in DOMAIN q /\ q[1] = b BY <1>3, <1>4
<1>8. v \in F!Live(l, f) BY <1>3, <1>5, <1>6, <1>7, LiveIs
<1>9. ASSUME NEW j, <<j, v>> \in F!Older(l) PROVE FALSE
  <2>1. PICK g \in Freqs : <<j, v>> \in OlderAt(l, g) BY <1>9, OlderSplit
  <2>2. v \in F!Live(l, g) /\ \E i, n \in DOMAIN l.ring[g] : i < n /\ l.ring[g][n] = l.at[v] BY <2>1 DEF OlderAt
  <2>3. g = f BY <1>6, <2>2, LiveIs
  <2>4. PICK i \in DOMAIN q, n \in DOMAIN q : i < n /\ q[n] = b BY <1>5, <2>2, <2>3
  <2>5. Once(l.ring) BY <1>1 DEF RingsBase
  <2>6. n = 1 BY <1>3, <1>7, <2>4, <2>5 DEF Once
  <2>7. i \in 1 .. Len(q) BY <1>4, <2>4
  <2>8. QED BY <1>4, <2>4, <2>6, <2>7
<1>10. /\ r.ring = p.ring /\ r.at = [l.at EXCEPT ![v] = NoEntry] /\ r.freq = [l.freq EXCEPT ![b] = Gone]
  <2>1. v \in Ringed(p) /\ r = F!Removed(p, p.at[v]) BY <1>2, <1>5 DEF Ringed, p, b
  <2>2. RemovedIs(p, r, v) BY <1>2, <2>1, RemovedFields
  <2>3. QED BY <1>2, <1>5, <2>2 DEF RemovedIs
<1>11. /\ Forgets(l, x, v) /\ x.ring = l.ring /\ x.at = [l.at EXCEPT ![v] = NoEntry]
       /\ x.freq = [l.freq EXCEPT ![b] = Gone]
  <2>1. RemovedIs(l, x, v) BY <1>1, <1>5, RemovedFields
  <2>2. QED BY <1>5, <2>1 DEF RemovedIs
<1> HIDE DEF x
<1>12. /\ RingWaiting(x) = Lacks(RingWaiting(l), v) /\ RingPassed(x) = Lacks(RingPassed(l), v)
       /\ F!Older(x) = Spared(F!Older(l), v)
  BY <1>11, RingsLeft
<1>13. Lacks(RingPassed(l), v) = RingPassed(l)
  <2>1. \A g \in Freqs : v \notin HasFreq(l, g) \ F!Live(l, g) BY <1>6, <1>8
  <2>2. \A g \in Freqs : (HasFreq(l, g) \ F!Live(l, g)) \ {v} = HasFreq(l, g) \ F!Live(l, g) BY <2>1
  <2>3. QED BY <2>2 DEF Lacks, RingPassed
<1>14. Pops(x, r, f)
  <2>1. \A k \in HasFreq(x, f) : x.at[k] # b
    <3> TAKE k \in HasFreq(x, f)
    <3>1. x.freq[x.at[k]] = f /\ k \in Keys BY DEF HasFreq, Ringed
    <3>2. x.freq[b] = Gone BY <1>1, <1>3, <1>11, RingsTyped DEF RingsBase
    <3>3. QED BY <1>3, <3>1, <3>2, FreqsTyped
  <2>2. QED BY <1>3, <1>10, <1>11, <2>1 DEF Pops
<1>15. RingWaiting(r) = RingWaiting(x) /\ RingPassed(r) = RingPassed(x) /\ F!Older(r) = F!Older(x)
  BY <1>3, <1>14, PopUnseen
<1>16. ASSUME NEW g \in Freqs PROVE Len(r.ring[g]) \in Nat /\ Len(r.ring[g]) <= Len(l.ring[g])
  <2>1. r.ring[g] = IF g = f THEN Tail(q) ELSE l.ring[g] BY <1>3, <1>10
  <2>2. l.ring[g] \in Seq(Blocks) BY <1>3
  <2>3. Len(Tail(q)) \in Nat /\ Len(Tail(q)) <= Len(q) BY <1>3, <1>4
  <2>4. QED BY <2>1, <2>2, <2>3
<1>17. QED BY <1>8, <1>9, <1>12, <1>13, <1>15, <1>16 DEF f

-----------------------------------------------------------------------------
(* The libraries under the calls of the plugin.                            *)

IInv ==
  /\ alg \in {"lru", "fifo", "lfu"} /\ failed \in BOOLEAN /\ pending \in Keys \cup {NoKey}
  /\ ListInv(list) /\ RingsInv(rings)
  /\ table = IF alg = "lfu" THEN Ringed(rings) ELSE Listed(list)
  /\ pending # NoKey => alg = "lfu" /\ pending \notin table /\ rings.count = Capacity

LEMMA InitHolds == Init => IInv
BY ListNew, RingsNew DEF Init, IInv

LEMMA ListInsertKeeps == ASSUME IInv, NEW k \in Keys, ListInsert(k) PROVE IInv'
<1>1. k \notin Listed(list) /\ table = Listed(list) /\ alg # "lfu" /\ pending = NoKey
  BY DEF IInv, ListInsert, Free
<1>2. list' = L!Inserted(list, k) /\ table' = (table \ L!Victims(list)) \cup {k}
  BY DEF ListInsert
<1>3. ListInv(list') /\ Listed(list') = table' BY <1>1, <1>2, ListInserted DEF IInv
<1>4. QED BY <1>1, <1>3 DEF IInv, ListInsert

LEMMA RingInsertKeeps == ASSUME IInv, NEW k \in Keys, RingInsert(k) PROVE IInv'
<1>1. /\ k \notin table /\ table = Ringed(rings) /\ alg = "lfu" /\ rings.at[k] = NoEntry
      /\ pending = NoKey /\ RingsInv(rings)
  BY DEF IInv, RingInsert, Free, NoEntry
<1>2. rings.count \in Nat /\ rings.count <= Capacity BY <1>1, RingsTyped DEF RingsInv, RingsBase
<1>3. CASE rings.count >= Capacity
  <2>1. rings.count = Capacity BY <1>2, <1>3, FreqsTyped
  <2>2. QED BY <1>1, <1>3, <2>1 DEF IInv, RingInsert
<1>4. CASE ~ rings.count >= Capacity
  <2>1. rings.count < Capacity BY <1>2, <1>4, FreqsTyped
  <2>2. /\ F!FreeBlocks(rings) # {} /\ rings' = F!Stored(rings, k) /\ table' = table \cup {k}
        /\ UNCHANGED <<alg, list, pending, failed>>
    BY <1>4 DEF RingInsert
  <2>3. RingsInv(rings') /\ Ringed(rings') = table' BY <1>1, <2>1, <2>2, RingsStored
  <2>4. QED BY <1>1, <2>2, <2>3 DEF IInv
<1>5. QED BY <1>3, <1>4

LEMMA PopsKeep == ASSUME IInv, pending # NoKey, ~F!FoundNone(rings), PopStale \/ PopVictim PROVE IInv'
<1> DEFINE b == F!Popped(rings)
           p == F!AfterPop(rings)
<1>1. /\ pending \in Keys /\ alg = "lfu" /\ pending \notin table /\ rings.count = Capacity
      /\ table = Ringed(rings) /\ RingsInv(rings) /\ RingsBase(rings) /\ rings \in RingsOf
  BY DEF IInv, RingsInv, RingsBase
<1>2. rings.count >= 1 BY <1>1, FreqsTyped
<1>3. /\ RingsBase(p) /\ b \in Blocks /\ p.at = rings.at /\ p.freq = rings.freq /\ p.count = rings.count
      /\ \A d \in Blocks \ {b} : Tracked(p, d)
      /\ Cardinality(Places(p.ring, b)) <= p.track[b]
      /\ rings.freq[b] # F!MinFreq(rings) => Tracked(p, b)
  BY <1>1, <1>2, RingsPopped
<1>4. Ringed(p) = Ringed(rings) BY <1>3 DEF Ringed
<1> HIDE DEF p
<1>5. CASE PopStale
  <2>1. rings' = p /\ UNCHANGED <<alg, list, pending, table, failed>> BY <1>5 DEF PopStale, p
  <2>2. Tracked(p, b) BY <1>3, <1>5 DEF PopStale, F!IsVictim
  <2>3. RingsInv(p) BY <1>3, <2>2 DEF RingsInv
  <2>4. QED BY <1>1, <1>3, <1>4, <2>1, <2>3 DEF IInv
<1>6. CASE PopVictim
  <2> DEFINE rest == F!Removed(p, b)
             k == F!KeyOf(rings, b)
  <2>1. /\ rings.freq[b] = F!MinFreq(rings) /\ F!FreeBlocks(rest) # {}
        /\ rings' = F!Stored(rest, pending) /\ table' = (table \ {k}) \cup {pending}
        /\ pending' = NoKey /\ UNCHANGED <<alg, list, failed>>
    BY <1>6 DEF PopVictim, F!IsVictim, p
  <2>2. F!MinFreq(rings) \in Freqs BY <1>1, <1>2, LeastFreq
  <2>30. rings.freq[b] # Gone BY <2>1, <2>2, FreqsTyped
  <2>31. \A d \in Blocks : (rings.freq[d] # Gone) <=> \E j \in Keys : rings.at[j] = d BY <1>1 DEF RingsBase
  <2>3. PICK v \in Keys : rings.at[v] = b BY <1>3, <2>30, <2>31
  <2>4. v \in Ringed(rings) BY <1>3, <2>3, FreqsTyped DEF Ringed
  <2>5. k = v BY <1>1, <2>3, <2>4, BlockOf
  <2>6. v \in Ringed(p) /\ p.at[v] = b BY <1>3, <1>4, <2>3, <2>4
  <2> HIDE DEF b, k
  <2>7. RingsInv(rest) /\ Ringed(rest) = Ringed(p) \ {v} /\ rest.count = p.count - 1
    BY <1>3, <2>6, RingsRemoved
  <2> HIDE DEF rest
  <2>8. rest.count < Capacity BY <1>1, <1>3, <2>7, FreqsTyped
  <2>9. rest.at[pending] = NoEntry BY <1>1, <1>4, <2>7 DEF Ringed
  <2>10. RingsInv(rings') /\ Ringed(rings') = Ringed(rest) \cup {pending}
    BY <1>1, <2>1, <2>7, <2>8, <2>9, RingsStored
  <2>11. table' = Ringed(rings') BY <1>1, <1>4, <2>1, <2>5, <2>7, <2>10
  <2>12. QED BY <1>1, <2>1, <2>10, <2>11 DEF IInv
<1>7. QED BY <1>5, <1>6

LEMMA EraseKeeps == ASSUME IInv, NEW k \in Keys, Erase(k) PROVE IInv'
<1>1. pending = NoKey /\ ListInv(list) /\ RingsInv(rings) BY DEF IInv, Erase, Free
<1>2. CASE alg = "lfu"
  <2>1. rings' = F!Erased(rings, k) /\ table' = Ringed(rings) \ {k} /\ UNCHANGED <<alg, list, pending, failed>>
    BY <1>2 DEF IInv, Erase
  <2>2. RingsInv(rings') /\ Ringed(rings') = table' BY <1>1, <2>1, RingsErased
  <2>3. QED BY <1>1, <1>2, <2>1, <2>2 DEF IInv
<1>3. CASE alg # "lfu"
  <2>1. list' = L!Erased(list, k) /\ table' = Listed(list) \ {k} /\ UNCHANGED <<alg, rings, pending, failed>>
    BY <1>3 DEF IInv, Erase
  <2>2. ListInv(list') /\ Listed(list') = table' BY <1>1, <2>1, ListErased
  <2>3. QED BY <1>1, <1>3, <2>1, <2>2 DEF IInv
<1>4. QED BY <1>2, <1>3

LEMMA HitKeeps == ASSUME IInv, NEW k \in Keys, Hit(k) PROVE IInv'
<1>1. pending = NoKey /\ ListInv(list) /\ RingsInv(rings) /\ UNCHANGED <<alg, pending, table, failed>>
  BY DEF IInv, Hit, Free
<1>2. ListInv(list') /\ Listed(list') = Listed(list)
  <2>1. list' = L!Touched(list, k) \/ list' = list BY DEF Hit, IInv, L!Ignored
  <2>2. QED BY <1>1, <2>1, ListTouched
<1>3. RingsInv(rings') /\ Ringed(rings') = Ringed(rings)
  <2>1. rings' = F!Touched(rings, k) \/ rings' = rings BY DEF Hit
  <2>2. QED BY <1>1, <2>1, RingsTouched
<1>4. QED BY <1>1, <1>2, <1>3 DEF IInv

LEMMA NextHolds == IInv /\ [Next]_vars => IInv'
<1> SUFFICES ASSUME IInv, [Next]_vars PROVE IInv' OBVIOUS
<1>1. CASE UNCHANGED vars BY <1>1 DEF vars, IInv
<1>2. CASE PopNothing BY <1>2 DEF PopNothing, IInv
<1>3. CASE PopStale BY <1>3, PopsKeep DEF PopStale
<1>4. CASE PopVictim BY <1>4, PopsKeep DEF PopVictim
<1>5. ASSUME NEW k \in Keys, ListInsert(k) PROVE IInv' BY <1>5, ListInsertKeeps
<1>6. ASSUME NEW k \in Keys, RingInsert(k) PROVE IInv' BY <1>6, RingInsertKeeps
<1>7. ASSUME NEW k \in Keys, Erase(k) PROVE IInv' BY <1>7, EraseKeeps
<1>8. ASSUME NEW k \in Keys, Hit(k) PROVE IInv' BY <1>8, HitKeeps
<1>9. QED BY <1>1, <1>2, <1>3, <1>4, <1>5, <1>6, <1>7, <1>8 DEF Next

LEMMA ShowsConsistent == IInv => Consistent
<1> SUFFICES ASSUME IInv PROVE Consistent OBVIOUS
<1>0. ListInv(list) /\ RingsInv(rings) BY DEF IInv
<1>1. /\ ListBase(list) /\ list \in ListsOf /\ RingsInv(rings) /\ RingsBase(rings) /\ rings \in RingsOf
  <2>1. ListBase(list) /\ RingsBase(rings) BY <1>0 DEF ListInv, RingsInv
  <2>2. QED BY <1>0, <2>1 DEF ListBase, RingsBase
<1>2. TypeOK
  <2>1. /\ list.count \in 0 .. Capacity /\ list.at \in [Keys -> L!Cells \cup {L!Nil}]
    BY <1>1 DEF ListsOf, Cells, Nil
  <2>2. /\ rings.count \in 0 .. Capacity /\ rings.at \in [Keys -> Blocks \cup {F!NoEntry}]
        /\ rings.freq \in [Blocks -> F!Freqs \cup {F!Gone}] /\ rings.track \in [Blocks -> Nat]
    BY <1>1 DEF RingsOf, Freqs, Gone, NoEntry
  <2>3. table \subseteq Keys BY DEF IInv, Ringed, Listed
  <2>4. QED BY <2>1, <2>2, <2>3 DEF TypeOK, IInv
<1>3. SameKeys
  <2>1. CASE alg = "lfu"
    <3>1. table = Ringed(rings) /\ Ringed(rings) = {k \in Keys : rings.at[k] # F!NoEntry}
      BY <2>1 DEF IInv, Ringed, NoEntry
    <3>2. Cardinality(Ringed(rings)) = rings.count /\ rings.count <= Capacity
      BY <1>1, RingsTyped DEF RingsBase
    <3>3. \A k, j \in Ringed(rings) : rings.at[k] = rings.at[j] => k = j BY <1>1 DEF RingsBase
    <3>4. \A f \in F!Freqs : rings.counts[f] = Cardinality({k \in Ringed(rings) : rings.freq[rings.at[k]] = f})
      BY <1>1 DEF RingsBase, HasFreq, Freqs
    <3> DEFINE held == {k \in Keys : rings.at[k] # F!NoEntry}
    <3>5. /\ held = table /\ Cardinality(held) <= Capacity /\ Cardinality(held) = rings.count
          /\ \A k \in held, j \in held : rings.at[k] = rings.at[j] => k = j
          /\ \A f \in F!Freqs : rings.counts[f] = Cardinality({k \in held : rings.freq[rings.at[k]] = f})
      BY <3>1, <3>2, <3>3, <3>4
    <3>6. QED BY <2>1, <3>5 DEF SameKeys
  <2>2. CASE alg # "lfu"
    <3>1. table = Listed(list) /\ Listed(list) = {k \in Keys : list.at[k] # L!Nil}
      BY <2>2 DEF IInv, Listed, Nil
    <3>2. Cardinality(Listed(list)) = list.count /\ list.count <= Capacity BY <1>1, UseTyped DEF ListBase
    <3>3. \A k, j \in Listed(list) : list.at[k] = list.at[j] => k = j BY <1>1 DEF ListBase
    <3> DEFINE held == {k \in Keys : list.at[k] # L!Nil}
    <3>4. /\ held = table /\ Cardinality(held) <= Capacity /\ Cardinality(held) = list.count
          /\ \A k \in held, j \in held : list.at[k] = list.at[j] => k = j
      BY <3>1, <3>2, <3>3
    <3>5. QED BY <2>2, <3>4 DEF SameKeys
  <2>3. QED BY <2>1, <2>2
<1>4. RingsOwn
  <2> SUFFICES ASSUME NEW b \in Blocks
               PROVE  rings.track[b] >= Cardinality(Places(rings.ring, b))
    BY DEF RingsOwn, Places, Freqs
  <2>1. IsFiniteSet(Uses(rings, b)) /\ Places(rings.ring, b) \subseteq Uses(rings, b)
    BY <1>1, RingsTyped DEF Uses
  <2>2. /\ Cardinality(Places(rings.ring, b)) <= Cardinality(Uses(rings, b))
        /\ IsFiniteSet(Places(rings.ring, b))
    BY <2>1, FS_Subset
  <2>3. Cardinality(Uses(rings, b)) <= rings.track[b] BY <1>1 DEF RingsInv, Tracked
  <2>4. rings.track[b] \in Nat BY <1>1, RingsTyped
  <2>5. Cardinality(Uses(rings, b)) \in Nat /\ Cardinality(Places(rings.ring, b)) \in Nat
    BY <2>1, <2>2, FS_CardinalityType
  <2>6. QED BY <2>2, <2>3, <2>4, <2>5
<1>5. QED BY <1>2, <1>3, <1>4 DEF Consistent

\* In every state of the libraries (lru.c, fifo.c, lfu.c) the keys they hold are those of the
\* plugin's table, no more than the capacity, each in an entry of its own; the counts are right,
\* and no block of LFU is given out while a ring still leads to it.
THEOREM ConsistentAlways == Spec => []Consistent
<1>1. IInv /\ [Next]_vars => IInv' BY NextHolds
<1>2. QED BY InitHolds, <1>1, ShowsConsistent, PTL DEF Spec

-----------------------------------------------------------------------------
(* What the plugin was promised.                                           *)

ListWaiting(l) == [f \in Freqs |-> IF f = 0 THEN Listed(l) ELSE {}]
Nothing == [f \in Freqs |-> {}]

LEMMA Views ==
  ASSUME IInv
  PROVE  /\ alg = "lfu" => /\ Waiting = RingWaiting(rings) /\ Passed = RingPassed(rings)
                           /\ Order = F!Older(rings)
         /\ alg # "lfu" => /\ Waiting = ListWaiting(list) /\ Passed = Nothing
                           /\ Order = L!Older(list)
<1>1. ASSUME alg = "lfu" PROVE Waiting = RingWaiting(rings) /\ Passed = RingPassed(rings) /\ Order = F!Older(rings)
  BY <1>1 DEF Waiting, Passed, Order, RingWaiting, RingPassed, HasFreq, Ringed, Freqs, NoEntry
<1>2. ASSUME alg # "lfu" PROVE Waiting = ListWaiting(list) /\ Passed = Nothing /\ Order = L!Older(list)
  <2>1. L!Lined(list) = Listed(list) BY LineShows DEF IInv, ListInv
  <2>2. QED BY <1>2, <2>1 DEF Waiting, Passed, Order, ListWaiting, Nothing, Freqs
<1>3. QED BY <1>1, <1>2

LEMMA ViewsNext ==
  ASSUME IInv'
  PROVE  /\ alg' = "lfu" => /\ Waiting' = RingWaiting(rings') /\ Passed' = RingPassed(rings')
                            /\ Order' = F!Older(rings')
         /\ alg' # "lfu" => /\ Waiting' = ListWaiting(list') /\ Passed' = Nothing
                            /\ Order' = L!Older(list')
<1>1. ASSUME alg' = "lfu"
      PROVE  Waiting' = RingWaiting(rings') /\ Passed' = RingPassed(rings') /\ Order' = F!Older(rings')
  BY <1>1 DEF Waiting, Passed, Order, RingWaiting, RingPassed, HasFreq, Ringed, Freqs, NoEntry
<1>2. ASSUME alg' # "lfu" PROVE Waiting' = ListWaiting(list') /\ Passed' = Nothing /\ Order' = L!Older(list')
  <2>1. ListInv(list') BY DEF IInv
  <2>2. L!Lined(list') = Listed(list') BY <2>1, LineShows DEF ListInv
  <2>3. QED BY <1>2, <2>2 DEF Waiting, Passed, Order, ListWaiting, Nothing, Freqs
<1>3. QED BY <1>1, <1>2

\* What the promise counts and compares.
LEMMA HeldIs ==
  ASSUME IInv
  PROVE  /\ Promise!Held = table /\ Promise!Freqs = Freqs
         /\ alg = "lfu" => /\ Cardinality(Promise!Held) = rings.count
                           /\ \A f \in Freqs : Promise!AtFreq(f) = HasFreq(rings, f)
         /\ alg # "lfu" => /\ Cardinality(Promise!Held) = list.count
                           /\ \A f \in Freqs : Promise!AtFreq(f) = ListWaiting(list)[f]
<1>1. Promise!Freqs = Freqs BY DEF Promise!Freqs, Freqs, F!Freqs
<1>2. ListInv(list) /\ RingsInv(rings) BY DEF IInv
<1>3. ListBase(list) /\ RingsBase(rings) BY <1>2 DEF ListInv, RingsInv
<1>4. CASE alg = "lfu"
  <2>1. Waiting = RingWaiting(rings) /\ Passed = RingPassed(rings) BY <1>4, Views
  <2>2. \A f \in Freqs : Promise!AtFreq(f) = HasFreq(rings, f)
    <3> TAKE f \in Freqs
    <3>1. Waiting[f] = F!Live(rings, f) /\ Passed[f] = HasFreq(rings, f) \ F!Live(rings, f)
      BY <2>1 DEF RingWaiting, RingPassed
    <3>2. F!Live(rings, f) \subseteq HasFreq(rings, f) BY LiveIs
    <3>3. QED BY <3>1, <3>2 DEF Promise!AtFreq
  <2>3. \A k : k \in Promise!Held <=> \E f \in Freqs : k \in HasFreq(rings, f) BY <1>1, <2>2 DEF Promise!Held
  <2>4. \A k \in Ringed(rings) : \E f \in Freqs : k \in HasFreq(rings, f) BY <1>3, BlockOf
  <2>5. \A f \in Freqs : HasFreq(rings, f) \subseteq Ringed(rings) BY DEF HasFreq
  <2>6. Promise!Held = Ringed(rings) BY <2>3, <2>4, <2>5
  <2>7. table = Ringed(rings) BY <1>4 DEF IInv
  <2>8. Cardinality(Ringed(rings)) = rings.count BY <1>3 DEF RingsBase
  <2>9. QED BY <1>1, <1>4, <2>2, <2>6, <2>7, <2>8
<1>5. CASE alg # "lfu"
  <2>1. Waiting = ListWaiting(list) /\ Passed = Nothing BY <1>5, Views
  <2>2. \A f \in Freqs : Promise!AtFreq(f) = ListWaiting(list)[f] BY <2>1 DEF Promise!AtFreq, Nothing
  <2>3. \A k : k \in Promise!Held <=> \E f \in Freqs : k \in ListWaiting(list)[f] BY <1>1, <2>2 DEF Promise!Held
  <2>4. \A k : k \in Promise!Held <=> k \in Listed(list) BY <2>3, FreqsTyped DEF ListWaiting
  <2>5. Promise!Held = Listed(list) BY <2>4
  <2>6. table = Listed(list) BY <1>5 DEF IInv
  <2>7. Cardinality(Listed(list)) = list.count BY <1>3 DEF ListBase
  <2>8. QED BY <1>1, <1>5, <2>2, <2>5, <2>6, <2>7
<1>6. QED BY <1>4, <1>5

LEMMA LowestIs ==
  ASSUME IInv
  PROVE  /\ alg = "lfu" => Promise!Lowest = F!MinFreq(rings)
         /\ alg # "lfu" /\ Listed(list) # {} => Promise!Lowest = 0
<1> DEFINE S == {f \in Promise!Freqs : Promise!AtFreq(f) # {}}
<1>1. Promise!Lowest = Promise!Min(S) BY DEF Promise!Lowest
<1>2. ASSUME alg = "lfu" PROVE Promise!Lowest = F!MinFreq(rings)
  <2> DEFINE U == {f \in 0 .. rings.max : rings.counts[f] # 0}
  <2>1. RingsInv(rings) BY DEF IInv
  <2>2. RingsBase(rings) /\ rings \in RingsOf BY <2>1 DEF RingsInv, RingsBase
  <2>3. /\ rings.max \in Freqs /\ \A f : IsFiniteSet(HasFreq(rings, f)) BY <2>2, RingsTyped
  <2>4. S = {f \in Freqs : HasFreq(rings, f) # {}} BY <1>2, HeldIs
  <2>5. \A f \in Freqs : rings.counts[f] # 0 <=> HasFreq(rings, f) # {} BY <2>2, <2>3, FS_EmptySet DEF RingsBase
  <2>6. \A f \in 0 .. rings.max : f \in Freqs BY <2>3, FreqsTyped
  <2>7. \A f \in Freqs : HasFreq(rings, f) # {} => f \in 0 .. rings.max
    <3> TAKE f \in Freqs
    <3>1. HAVE HasFreq(rings, f) # {}
    <3>2. PICK k : k \in HasFreq(rings, f) BY <3>1
    <3>3. k \in Ringed(rings) /\ rings.freq[rings.at[k]] = f BY <3>2 DEF HasFreq
    <3>4. f <= rings.max BY <2>2, <3>3, BlockOf DEF RingsBase
    <3>5. QED BY <2>3, <3>4, FreqsTyped
  <2>8. S = U BY <2>4, <2>5, <2>6, <2>7
  <2>9. F!MinFreq(rings) = F!Min(U) BY DEF F!MinFreq
  <2> HIDE DEF S, U
  <2>10. Promise!Min(S) = F!Min(U) BY <2>8 DEF Promise!Min, F!Min
  <2>11. QED BY <1>1, <2>9, <2>10
<1>3. ASSUME alg # "lfu", Listed(list) # {} PROVE Promise!Lowest = 0
  <2>1. \A f \in Freqs : Promise!AtFreq(f) = IF f = 0 THEN Listed(list) ELSE {}
    BY <1>3, HeldIs DEF ListWaiting
  <2>2. S = {0} BY <1>3, <2>1, HeldIs, FreqsTyped
  <2> HIDE DEF S
  <2>3. Promise!Min({0}) = 0
    <3>1. \E x \in {0} : \A y \in {0} : x <= y OBVIOUS
    <3>2. QED BY <3>1 DEF Promise!Min
  <2>4. QED BY <1>1, <2>2, <2>3
<1>4. QED BY <1>2, <1>3

LEMMA CountIs == \A S : Promise!Cardinality(S) = Cardinality(S)
BY DEF Cardinality, Promise!Cardinality

\* What a step owes to the promise.
Step == [Promise!Next]_<<alg, Waiting, Passed, Order, failed>>
FullPass == \A f \in F!Freqs : \A k \in Passed'[f] \ Passed[f] : Len(rings.ring[f]) >= Room
Keeps == Step /\ FullPass

LEMMA Stays == ASSUME UNCHANGED <<alg, Waiting, Passed, Order, failed>> PROVE Keeps
BY DEF Keeps, Step, FullPass

\* The names of the promise
LEMMA Names ==
  /\ \A s, k : Promise!Out(s, k) = [f \in Promise!Freqs |-> s[f] \ {k}]
  /\ \A k : Promise!Without(k) = Spared(Order, k)
<1>1. \A s, k : Promise!Out(s, k) = [f \in Promise!Freqs |-> s[f] \ {k}] BY DEF Promise!Out
<1>2. \A k : Promise!Without(k) = Spared(Order, k) BY DEF Promise!Without, Spared
<1>3. QED BY <1>1, <1>2

LEMMA OutIs == ASSUME IInv PROVE \A s, k : Promise!Out(s, k) = Lacks(s, k)
BY HeldIs, Names DEF Lacks

\* LFU lets a key wait or, at a full ring, passes it over.
LEMMA RingEnters ==
  ASSUME IInv', alg = "lfu", alg' = "lfu", NEW ring, NEW w, NEW p, NEW o, NEW k, NEW f,
         ComesTo(ring, w, p, o, rings', k, f)
  PROVE  Promise!EnterOrPass(w, p, o, k, f)
<1>1. Waiting' = RingWaiting(rings') /\ Passed' = RingPassed(rings') /\ Order' = F!Older(rings') BY ViewsNext
<1>2. CASE Len(ring[f]) # Room
  <2>1. /\ RingWaiting(rings') = [w EXCEPT ![f] = @ \cup {k}] /\ RingPassed(rings') = p
        /\ F!Older(rings') = o \cup (w[f] \X {k})
    BY <1>2 DEF ComesTo
  <2>2. QED BY <1>1, <2>1 DEF Promise!EnterOrPass
<1>3. CASE Len(ring[f]) = Room
  <2>1. /\ RingWaiting(rings') = w /\ RingPassed(rings') = [p EXCEPT ![f] = @ \cup {k}] /\ F!Older(rings') = o
    BY <1>3 DEF ComesTo
  <2>2. QED BY <1>1, <2>1 DEF Promise!EnterOrPass
<1>4. QED BY <1>2, <1>3

\* The others that are passed over were so before.
Passes(ring, p, f) ==
  /\ DOMAIN p = Freqs /\ \A g \in Freqs : p[g] \subseteq Passed[g]
  /\ Len(ring[f]) \in Nat /\ Len(rings.ring[f]) \in Nat /\ Len(ring[f]) <= Len(rings.ring[f])

LEMMA RingFull ==
  ASSUME IInv', alg' = "lfu", NEW ring, NEW w, NEW p, NEW o, NEW k, NEW f \in Freqs,
         ComesTo(ring, w, p, o, rings', k, f), Passes(ring, p, f)
  PROVE  FullPass
<1>1. Passed' = RingPassed(rings') BY ViewsNext
<1>2. CASE Len(ring[f]) # Room
  <2>1. RingPassed(rings') = p BY <1>2 DEF ComesTo
  <2>2. QED BY <1>1, <2>1 DEF FullPass, Passes, Freqs
<1>3. CASE Len(ring[f]) = Room
  <2>1. RingPassed(rings') = [p EXCEPT ![f] = @ \cup {k}] BY <1>3 DEF ComesTo
  <2>2. \A g \in Freqs \ {f} : Passed'[g] = p[g] BY <1>1, <2>1 DEF Passes
  <2>3. Len(rings.ring[f]) >= Room BY <1>3, ReplacementAssumption DEF Passes
  <2>4. ASSUME NEW g \in Freqs, NEW j \in Passed'[g] \ Passed[g] PROVE Len(rings.ring[g]) >= Room
    <3>1. g = f BY <2>2, <2>4 DEF Passes
    <3>2. QED BY <2>3, <3>1
  <2>5. QED BY <2>4 DEF FullPass, Freqs
<1>4. QED BY <1>2, <1>3

\* A ring's length is a number.
LEMMA RingLengths == ASSUME IInv PROVE \A f \in Freqs : Len(rings.ring[f]) \in Nat
<1>1. RingsInv(rings) BY DEF IInv
<1>2. rings.ring \in [Freqs -> Seq(Blocks)] BY <1>1, RingsTyped DEF RingsInv, RingsBase
<1>3. QED BY <1>2

\* LRU and FIFO pass none over.
LEMMA NonePassed == ASSUME IInv, IInv', alg # "lfu", alg' = alg PROVE FullPass
<1>1. Passed = Nothing /\ Passed' = Nothing BY Views, ViewsNext
<1>2. QED BY <1>1 DEF FullPass

LEMMA RingInsertPromised == ASSUME IInv, IInv', NEW k \in Keys, RingInsert(k) PROVE Keeps
<1>1. /\ k \notin table /\ alg = "lfu" /\ alg' = "lfu" /\ rings.at[k] = NoEntry /\ ~failed /\ failed' = failed
      /\ RingsInv(rings)
  BY DEF IInv, RingInsert, Free, NoEntry
<1>2. RingsBase(rings) /\ rings.count \in Nat /\ rings.count <= Capacity
  BY <1>1, RingsTyped DEF RingsInv, RingsBase
<1>3. Waiting = RingWaiting(rings) /\ Passed = RingPassed(rings) /\ Order = F!Older(rings) BY <1>1, Views
<1>4. CASE rings.count >= Capacity
  <2>1. rings' = rings /\ alg' = alg BY <1>1, <1>4 DEF RingInsert
  <2>2. Waiting' = Waiting /\ Passed' = Passed /\ Order' = Order BY <1>1, <1>3, <2>1, ViewsNext
  <2>3. QED BY <1>1, <2>2, Stays
<1>5. CASE ~ rings.count >= Capacity
  <2>1. F!FreeBlocks(rings) # {} /\ rings' = F!Stored(rings, k) BY <1>5 DEF RingInsert
  <2>2. ComesTo(rings.ring, Waiting, Passed, Order, rings', k, 0) BY <1>1, <1>3, <2>1, StoredShows
  <2>3. Promise!EnterOrPass(Waiting, Passed, Order, k, 0) BY <1>1, <2>2, RingEnters
  <2>4. /\ k \notin Promise!Held /\ Cardinality(Promise!Held) < Capacity
    BY <1>1, <1>2, <1>5, HeldIs, FreqsTyped
  <2>5. Promise!Insert(k) BY <1>1, <2>3, <2>4, CountIs DEF Promise!Insert
  <2>6. Step BY <2>5 DEF Step, Promise!Next
  <2>7. Passes(rings.ring, Passed, 0) BY <1>3, RingLengths, FreqsTyped DEF Passes, RingPassed
  <2>8. FullPass BY <1>1, <2>2, <2>7, RingFull, FreqsTyped
  <2>9. QED BY <2>6, <2>8 DEF Keeps
<1>6. QED BY <1>4, <1>5

LEMMA PopNothingPromised == ASSUME IInv, IInv', PopNothing PROVE Keeps
<1>1. /\ alg = "lfu" /\ rings.count = Capacity /\ RingsInv(rings) /\ RingsBase(rings)
      /\ F!FoundNone(rings) /\ ~failed /\ failed' = TRUE
      /\ UNCHANGED <<alg, list, rings, pending, table>>
  BY DEF IInv, PopNothing, RingsInv
<1>2. rings.count >= 1 BY <1>1, FreqsTyped
<1> DEFINE f == F!MinFreq(rings)
<1>3. f \in Freqs BY <1>1, <1>2, LeastFreq
<1>4. rings.ring[f] = <<>> BY <1>1 DEF F!FoundNone, F!LastRing
<1> HIDE DEF f
<1>5. Waiting = RingWaiting(rings) BY <1>1, Views
<1>6. Promise!Lowest = f BY <1>1, LowestIs DEF f
<1>7. Waiting[f] = {}
  <2>1. DOMAIN rings.ring[f] = {} BY <1>4
  <2>2. F!Live(rings, f) = {} BY <1>3, <2>1, LiveIs
  <2>3. QED BY <1>3, <1>5, <2>2 DEF RingWaiting
<1>8. UNCHANGED <<alg, Waiting, Passed, Order>> BY <1>1 DEF Waiting, Passed, Order
<1>9. Cardinality(Promise!Held) = Capacity BY <1>1, HeldIs
<1>10. Promise!Fail BY <1>1, <1>6, <1>7, <1>8, <1>9, CountIs DEF Promise!Fail
<1>11. Step BY <1>10 DEF Step, Promise!Next
<1>12. FullPass BY <1>8 DEF FullPass
<1>13. QED BY <1>11, <1>12 DEF Keeps

LEMMA PopStalePromised == ASSUME IInv, IInv', PopStale PROVE Keeps
<1>1. /\ alg = "lfu" /\ alg' = "lfu" /\ rings.count = Capacity /\ RingsInv(rings) /\ failed' = failed
      /\ ~F!FoundNone(rings) /\ ~F!IsVictim(rings) /\ rings' = F!AfterPop(rings)
  BY DEF IInv, PopStale
<1>2. rings.count >= 1 BY <1>1, FreqsTyped
<1>3. RingWaiting(rings') = RingWaiting(rings) /\ RingPassed(rings') = RingPassed(rings)
      /\ F!Older(rings') = F!Older(rings)
  BY <1>1, <1>2, StaleShows
<1>4. UNCHANGED <<alg, Waiting, Passed, Order, failed>> BY <1>1, <1>3, Views, ViewsNext
<1>5. QED BY <1>4, Stays

LEMMA PopVictimPromised == ASSUME IInv, IInv', PopVictim PROVE Keeps
<1> DEFINE b == F!Popped(rings)
           p == F!AfterPop(rings)
           rest == F!Removed(p, b)
           f == F!MinFreq(rings)
<1>1. /\ pending \in Keys /\ alg = "lfu" /\ alg' = "lfu" /\ pending \notin table /\ rings.count = Capacity
      /\ table = Ringed(rings) /\ RingsInv(rings) /\ RingsBase(rings) /\ ~failed /\ failed' = failed
  BY DEF IInv, PopVictim, RingsInv
<1>2. rings.count >= 1 BY <1>1, FreqsTyped
<1>3. /\ F!IsVictim(rings) /\ ~F!FoundNone(rings) /\ F!FreeBlocks(rest) # {}
      /\ rings' = F!Stored(rest, pending)
  BY DEF PopVictim
<1>4. /\ RingsBase(p) /\ b \in Blocks /\ p.at = rings.at /\ p.freq = rings.freq
      /\ \A d \in Blocks \ {b} : Tracked(p, d)
      /\ Cardinality(Places(p.ring, b)) <= p.track[b]
  BY <1>1, <1>2, <1>3, RingsPopped
<1>5. f \in Freqs BY <1>1, <1>2, LeastFreq
<1>6. rings.freq[b] # Gone BY <1>3, <1>5, FreqsTyped DEF F!IsVictim
<1> HIDE DEF p, b, f
<1>7. PICK v \in Ringed(rings) : rings.at[v] = b
  <2>1. PICK v \in Keys : rings.at[v] = b BY <1>1, <1>4, <1>6 DEF RingsBase
  <2>2. v \in Ringed(rings) BY <1>4, <2>1, FreqsTyped DEF Ringed
  <2>3. QED BY <2>1, <2>2
<1>8. v \in Ringed(p) /\ p.at[v] = b /\ v \in Keys BY <1>4, <1>7 DEF Ringed
<1>9. RingsInv(rest) /\ Ringed(rest) = Ringed(p) \ {v} BY <1>4, <1>8, RingsRemoved
<1>10. rest.at[pending] = NoEntry BY <1>1, <1>4, <1>9 DEF Ringed
<1>11. /\ v \in F!Live(rings, f) /\ \A j : <<j, v>> \notin F!Older(rings)
       /\ RingWaiting(rest) = Lacks(RingWaiting(rings), v) /\ RingPassed(rest) = RingPassed(rings)
       /\ F!Older(rest) = Spared(F!Older(rings), v)
       /\ \A g \in Freqs : Len(rest.ring[g]) \in Nat /\ Len(rest.ring[g]) <= Len(rings.ring[g])
  BY <1>1, <1>2, <1>3, <1>7, VictimShows DEF b, p, f
<1> HIDE DEF rest
<1>12. ComesTo(rest.ring, RingWaiting(rest), RingPassed(rest), F!Older(rest), rings', pending, 0)
  BY <1>1, <1>3, <1>9, <1>10, StoredShows
<1>13. Waiting = RingWaiting(rings) /\ Passed = RingPassed(rings) /\ Order = F!Older(rings) BY <1>1, Views
<1>14. ComesTo(rest.ring, Promise!Out(Waiting, v), Passed, Promise!Without(v), rings', pending, 0)
  <2>1. Promise!Out(Waiting, v) = Lacks(Waiting, v) /\ Promise!Without(v) = Spared(Order, v) BY OutIs, Names
  <2>2. QED BY <1>11, <1>12, <1>13, <2>1
<1>15. Promise!EnterOrPass(Promise!Out(Waiting, v), Passed, Promise!Without(v), pending, 0)
  BY <1>1, <1>14, RingEnters
<1>16. v \in Promise!Oldest(Promise!Lowest)
  <2>1. Promise!Lowest = f BY <1>1, LowestIs DEF f
  <2>2. Waiting[f] = F!Live(rings, f) BY <1>5, <1>13 DEF RingWaiting
  <2>3. QED BY <1>11, <1>13, <2>1, <2>2 DEF Promise!Oldest
<1>17. pending \notin Promise!Held /\ Cardinality(Promise!Held) = Capacity BY <1>1, HeldIs
<1>18. Promise!Insert(pending) BY <1>1, <1>15, <1>16, <1>17, CountIs DEF Promise!Insert
<1>19. Step BY <1>1, <1>18 DEF Step, Promise!Next
<1>20. Passes(rest.ring, Passed, 0) BY <1>11, <1>13, RingLengths, FreqsTyped DEF Passes, RingPassed
<1>21. FullPass BY <1>1, <1>14, <1>20, RingFull, FreqsTyped
<1>22. QED BY <1>19, <1>21 DEF Keeps

LEMMA ErasePromised == ASSUME IInv, IInv', NEW k \in Keys, Erase(k) PROVE Keeps
<1>1. /\ ListInv(list) /\ RingsInv(rings) /\ alg' = alg /\ failed' = failed /\ ~failed
  BY DEF IInv, Erase, Free
<1>2. CASE alg = "lfu"
  <2>1. rings' = F!Erased(rings, k) /\ table = Ringed(rings) BY <1>2 DEF IInv, Erase
  <2>2. Waiting = RingWaiting(rings) /\ Passed = RingPassed(rings) /\ Order = F!Older(rings) BY <1>2, Views
  <2>3. Waiting' = RingWaiting(rings') /\ Passed' = RingPassed(rings') /\ Order' = F!Older(rings')
    BY <1>1, <1>2, ViewsNext
  <2>4. CASE k \notin Ringed(rings)
    <3>1. rings' = rings BY <1>1, <2>1, <2>4, ErasedShows
    <3>2. UNCHANGED <<alg, Waiting, Passed, Order, failed>> BY <1>1, <2>2, <2>3, <3>1
    <3>3. QED BY <3>2, Stays
  <2>5. CASE k \in Ringed(rings)
    <3>1. /\ RingWaiting(rings') = Lacks(RingWaiting(rings), k) /\ RingPassed(rings') = Lacks(RingPassed(rings), k)
          /\ F!Older(rings') = Spared(F!Older(rings), k)
      BY <1>1, <2>1, <2>5, ErasedShows
    <3>2. Waiting' = Lacks(Waiting, k) /\ Passed' = Lacks(Passed, k) /\ Order' = Spared(Order, k)
      BY <2>2, <2>3, <3>1
    <3>3. /\ Waiting' = Promise!Out(Waiting, k) /\ Passed' = Promise!Out(Passed, k)
          /\ Order' = Promise!Without(k)
      BY <3>2, OutIs, Names
    <3>4. k \in Promise!Held BY <2>1, <2>5, HeldIs
    <3>5. Promise!Erase(k) BY <1>1, <3>3, <3>4 DEF Promise!Erase
    <3>6. Step BY <3>5 DEF Step, Promise!Next
    <3>7. FullPass BY <3>2 DEF FullPass, Lacks, Freqs
    <3>8. QED BY <3>6, <3>7 DEF Keeps
  <2>6. QED BY <2>4, <2>5
<1>3. CASE alg # "lfu"
  <2>1. list' = L!Erased(list, k) /\ table = Listed(list) BY <1>3 DEF IInv, Erase
  <2>2. Waiting = ListWaiting(list) /\ Passed = Nothing /\ Order = L!Older(list) BY <1>3, Views
  <2>3. Waiting' = ListWaiting(list') /\ Passed' = Nothing /\ Order' = L!Older(list') BY <1>1, <1>3, ViewsNext
  <2>4. CASE k \notin Listed(list)
    <3>1. list' = list BY <1>1, <2>1, <2>4, ListErased
    <3>2. UNCHANGED <<alg, Waiting, Passed, Order, failed>> BY <1>1, <2>2, <2>3, <3>1
    <3>3. QED BY <3>2, Stays
  <2>5. CASE k \in Listed(list)
    <3>1. Listed(list') = Listed(list) \ {k} /\ L!Older(list') = Spared(L!Older(list), k)
      BY <1>1, <2>1, <2>5, ListErased
    <3>2. Waiting' = Lacks(Waiting, k)
      <4>1. \A f \in Freqs : (IF f = 0 THEN Listed(list') ELSE {}) = (IF f = 0 THEN Listed(list) ELSE {}) \ {k}
        BY <3>1
      <4>2. QED BY <2>2, <2>3, <4>1 DEF ListWaiting, Lacks
    <3>3. Passed' = Lacks(Passed, k)
      <4>1. {} \ {k} = {} OBVIOUS
      <4>2. QED BY <2>2, <2>3, <4>1 DEF Nothing, Lacks
    <3>4. /\ Waiting' = Promise!Out(Waiting, k) /\ Passed' = Promise!Out(Passed, k)
          /\ Order' = Promise!Without(k)
      <4>1. Order' = Spared(Order, k) BY <2>2, <2>3, <3>1
      <4>2. QED BY <3>2, <3>3, <4>1, OutIs, Names
    <3>5. k \in Promise!Held BY <2>1, <2>5, HeldIs
    <3>6. Promise!Erase(k) BY <1>1, <3>4, <3>5 DEF Promise!Erase
    <3>7. Step BY <3>6 DEF Step, Promise!Next
    <3>8. QED BY <1>1, <1>3, <3>7, NonePassed DEF Keeps
  <2>6. QED BY <2>4, <2>5
<1>4. QED BY <1>2, <1>3

\* A key has one frequency.
LEMMA FreqIs ==
  ASSUME IInv, alg = "lfu", NEW f \in Freqs, NEW k, k \in HasFreq(rings, f)
  PROVE  Promise!FreqOf(k) = f
<1>1. Promise!Freqs = Freqs /\ \A g \in Freqs : Promise!AtFreq(g) = HasFreq(rings, g) BY HeldIs
<1>2. \A g \in Freqs : k \in HasFreq(rings, g) => g = f BY DEF HasFreq
<1>3. \A g \in Promise!Freqs : k \in Promise!AtFreq(g) <=> g = f BY <1>1, <1>2
<1>4. f \in Promise!Freqs BY <1>1
<1>5. QED BY <1>3, <1>4 DEF Promise!FreqOf

LEMMA RingHitPromised ==
  ASSUME IInv, IInv', alg = "lfu", alg' = alg, failed' = failed, ~failed, NEW k \in Keys,
         rings' = F!Touched(rings, k)
  PROVE  Keeps
<1>1. RingsInv(rings) /\ table = Ringed(rings) BY DEF IInv
<1>2. Waiting = RingWaiting(rings) /\ Passed = RingPassed(rings) /\ Order = F!Older(rings) BY Views
<1>3. Waiting' = RingWaiting(rings') /\ Passed' = RingPassed(rings') /\ Order' = F!Older(rings') BY ViewsNext
<1>4. CASE rings' = rings
  <2>1. UNCHANGED <<alg, Waiting, Passed, Order, failed>> BY <1>2, <1>3, <1>4
  <2>2. QED BY <2>1, Stays
<1>5. CASE rings' # rings
  <2>1. PICK f \in Freqs :
          /\ k \in HasFreq(rings, f) /\ f + 1 \in Freqs
          /\ ComesTo(rings.ring, Lacks(RingWaiting(rings), k), Lacks(RingPassed(rings), k),
                     Spared(F!Older(rings), k), rings', k, f + 1)
    BY <1>1, <1>5, TouchedShows
  <2> DEFINE w == Promise!Out(Waiting, k)
             p == Promise!Out(Passed, k)
             o == Promise!Without(k)
             g == f + 1
  <2>2. w = Lacks(Waiting, k) /\ p = Lacks(Passed, k) /\ o = Spared(Order, k) BY OutIs, Names
  <2> HIDE DEF w, p, o
  <2>3. ComesTo(rings.ring, w, p, o, rings', k, g) BY <1>2, <2>1, <2>2
  <2>4. g \in Freqs /\ g \in Promise!Freqs BY <2>1, HeldIs
  <2>5. Promise!FreqOf(k) = f BY <2>1, FreqIs
  <2>6. k \in Promise!Held BY <1>1, <2>1, HeldIs DEF HasFreq
  <2>7. g = Promise!FreqOf(k) + 1 BY <2>5
  <2> HIDE DEF g
  <2>8. Promise!EnterOrPass(w, p, o, k, g) BY <2>3, RingEnters
  <2>9. Promise!Hit(k) BY <2>4, <2>6, <2>7, <2>8 DEF Promise!Hit, w, p, o
  <2>10. Step BY <2>9 DEF Step, Promise!Next
  <2>11. Passes(rings.ring, p, g) BY <2>2, <2>4, RingLengths DEF Passes, Lacks
  <2>12. FullPass BY <2>3, <2>4, <2>11, RingFull
  <2>13. QED BY <2>10, <2>12 DEF Keeps
<1>6. QED BY <1>4, <1>5

\* A list with k as its newest lets k wait last.
LEMMA ListEnters ==
  ASSUME IInv, IInv', alg # "lfu", alg' = alg, NEW S, NEW o, NEW k, Listed(list') = S \cup {k},
         L!Older(list') = o \cup (S \X {k})
  PROVE  Promise!EnterOrPass([f \in Freqs |-> IF f = 0 THEN S ELSE {}], Passed, o, k, 0)
<1> DEFINE w == [f \in Freqs |-> IF f = 0 THEN S ELSE {}]
<1>1. Waiting' = ListWaiting(list') /\ Passed' = Nothing /\ Order' = L!Older(list') BY ViewsNext
<1>2. Passed' = Passed BY <1>1, Views
<1>3. 0 \in Freqs /\ w[0] = S BY FreqsTyped
<1>4. Waiting' = [w EXCEPT ![0] = @ \cup {k}] BY <1>1, <1>3 DEF ListWaiting
<1>5. Order' = o \cup (w[0] \X {k}) BY <1>1, <1>3
<1> HIDE DEF w
<1>6. Promise!EnterOrPass(w, Passed, o, k, 0) BY <1>2, <1>4, <1>5 DEF Promise!EnterOrPass
<1>7. QED BY <1>6 DEF w

\* What a list holds without k.
LEMMA ListLeft ==
  ASSUME IInv, alg # "lfu", NEW k
  PROVE  /\ Promise!Out(Waiting, k) = [f \in Freqs |-> IF f = 0 THEN Listed(list) \ {k} ELSE {}]
         /\ Promise!Out(Passed, k) = Passed /\ Promise!Without(k) = Spared(L!Older(list), k)
<1>1. Waiting = ListWaiting(list) /\ Passed = Nothing /\ Order = L!Older(list) BY Views
<1>2. {} \ {k} = {} OBVIOUS
<1>3. Lacks(Waiting, k) = [f \in Freqs |-> IF f = 0 THEN Listed(list) \ {k} ELSE {}]
  BY <1>1, <1>2 DEF Lacks, ListWaiting
<1>4. Lacks(Passed, k) = Passed BY <1>1, <1>2 DEF Lacks, Nothing
<1>5. QED BY <1>1, <1>3, <1>4, OutIs, Names

LEMMA ListHitPromised ==
  ASSUME IInv, IInv', alg = "lru", alg' = alg, failed' = failed, ~failed, NEW k \in Keys,
         list' = L!Touched(list, k)
  PROVE  Keeps
<1>1. ListInv(list) /\ table = Listed(list) BY DEF IInv
<1>2. CASE k \notin Listed(list)
  <2>1. list' = list BY <1>1, <1>2, ListTouched
  <2>2. UNCHANGED <<alg, Waiting, Passed, Order, failed>> BY <2>1, Views, ViewsNext
  <2>3. QED BY <2>2, Stays
<1>3. CASE k \in Listed(list)
  <2> DEFINE S == Listed(list) \ {k}
             o == Spared(L!Older(list), k)
  <2>1. Listed(list') = Listed(list) /\ L!Older(list') = o \cup (S \X {k})
    BY <1>1, <1>3, ListTouched
  <2>2. Listed(list') = S \cup {k} BY <1>3, <2>1
  <2> HIDE DEF S, o
  <2>3. Promise!EnterOrPass([f \in Freqs |-> IF f = 0 THEN S ELSE {}], Passed, o, k, 0)
    BY <2>1, <2>2, ListEnters
  <2>4. Promise!EnterOrPass(Promise!Out(Waiting, k), Promise!Out(Passed, k), Promise!Without(k), k, 0)
    BY <2>3, ListLeft DEF S, o
  <2>5. k \in Promise!Held /\ 0 \in Promise!Freqs BY <1>1, <1>3, HeldIs, FreqsTyped
  <2>6. Promise!Hit(k) BY <2>4, <2>5 DEF Promise!Hit
  <2>7. Step BY <2>6 DEF Step, Promise!Next
  <2>8. QED BY <2>7, NonePassed DEF Keeps
<1>4. QED BY <1>2, <1>3

LEMMA HitPromised == ASSUME IInv, IInv', NEW k \in Keys, Hit(k) PROVE Keeps
<1>1. alg \in {"lru", "fifo", "lfu"} /\ alg' = alg /\ failed' = failed /\ ~failed BY DEF IInv, Hit, Free
<1>2. CASE alg = "lfu"
  <2>1. rings' = F!Touched(rings, k) BY <1>2 DEF Hit
  <2>2. QED BY <1>1, <1>2, <2>1, RingHitPromised
<1>3. CASE alg = "lru"
  <2>1. list' = L!Touched(list, k) BY <1>3 DEF Hit
  <2>2. QED BY <1>1, <1>3, <2>1, ListHitPromised
<1>4. CASE alg = "fifo"
  <2>1. list' = list BY <1>4 DEF Hit, L!Ignored
  <2>2. UNCHANGED <<alg, Waiting, Passed, Order, failed>> BY <1>1, <1>4, <2>1, Views, ViewsNext
  <2>3. QED BY <2>2, Stays
<1>5. QED BY <1>1, <1>2, <1>3, <1>4

LEMMA ListInsertPromised == ASSUME IInv, IInv', NEW k \in Keys, ListInsert(k) PROVE Keeps
<1>1. /\ ListInv(list) /\ table = Listed(list) /\ k \notin Listed(list) /\ alg # "lfu" /\ alg' = alg
      /\ failed' = failed /\ ~failed /\ list' = L!Inserted(list, k)
  BY DEF IInv, ListInsert, Free
<1>2. Listed(list') = (Listed(list) \ L!Victims(list)) \cup {k} /\ InsertedIs(list, k, list')
  BY <1>1, ListInserted
<1>3. k \notin Promise!Held /\ Cardinality(Promise!Held) = list.count BY <1>1, HeldIs
<1>4. Waiting = ListWaiting(list) /\ Order = L!Older(list) BY <1>1, Views
<1>5. ASSUME list.count < Capacity, L!Victims(list) = {},
             L!Older(list') = L!Older(list) \cup (Listed(list) \X {k})
      PROVE  Promise!Insert(k)
  <2>1. Listed(list') = Listed(list) \cup {k} BY <1>2, <1>5
  <2>2. Promise!EnterOrPass([f \in Freqs |-> IF f = 0 THEN Listed(list) ELSE {}], Passed, Order, k, 0)
    BY <1>1, <1>4, <1>5, <2>1, ListEnters
  <2>3. Promise!EnterOrPass(Waiting, Passed, Order, k, 0) BY <1>4, <2>2 DEF ListWaiting
  <2>4. Promise!Insert(k) BY <1>1, <1>3, <1>5, <2>3, CountIs DEF Promise!Insert
  <2>5. QED BY <2>4
<1>6. ASSUME list.count = Capacity, NEW v \in Listed(list), L!Victims(list) = {v},
             \A j \in Keys : <<j, v>> \notin L!Older(list),
             L!Older(list') = Spared(L!Older(list), v) \cup ((Listed(list) \ {v}) \X {k})
      PROVE  Promise!Insert(k)
  <2> DEFINE S == Listed(list) \ {v}
             o == Spared(L!Older(list), v)
  <2>1. Listed(list') = S \cup {k} /\ L!Older(list') = o \cup (S \X {k}) BY <1>2, <1>6
  <2> HIDE DEF S, o
  <2>2. Promise!EnterOrPass([f \in Freqs |-> IF f = 0 THEN S ELSE {}], Passed, o, k, 0)
    BY <1>1, <2>1, ListEnters
  <2>3. Promise!EnterOrPass(Promise!Out(Waiting, v), Passed, Promise!Without(v), k, 0)
    BY <1>1, <2>2, ListLeft DEF S, o
  <2>4. Promise!Lowest = 0 BY <1>1, <1>6, LowestIs
  <2>5. Waiting[0] = Listed(list) /\ Listed(list) \subseteq Keys BY <1>4, FreqsTyped DEF ListWaiting, Listed
  <2>6. v \in Promise!Oldest(Promise!Lowest) BY <1>4, <1>6, <2>4, <2>5 DEF Promise!Oldest
  <2>7. QED BY <1>1, <1>3, <1>6, <2>3, <2>6, CountIs DEF Promise!Insert
<1>7. Promise!Insert(k) BY <1>1, <1>2, <1>3, <1>5, <1>6 DEF InsertedIs
<1>8. Step BY <1>7 DEF Step, Promise!Next
<1>9. QED BY <1>1, <1>8, NonePassed DEF Keeps

LEMMA KeepsAll == ASSUME IInv, [Next]_vars PROVE Keeps
<1>1. IInv' BY NextHolds
<1>2. CASE UNCHANGED vars
  <2>1. UNCHANGED <<alg, Waiting, Passed, Order, failed>> BY <1>2 DEF vars, Waiting, Passed, Order
  <2>2. QED BY <2>1, Stays
<1>3. CASE PopNothing BY <1>1, <1>3, PopNothingPromised
<1>4. CASE PopStale BY <1>1, <1>4, PopStalePromised
<1>5. CASE PopVictim BY <1>1, <1>5, PopVictimPromised
<1>6. ASSUME NEW k \in Keys, ListInsert(k) PROVE Keeps BY <1>1, <1>6, ListInsertPromised
<1>7. ASSUME NEW k \in Keys, RingInsert(k) PROVE Keeps BY <1>1, <1>7, RingInsertPromised
<1>8. ASSUME NEW k \in Keys, Erase(k) PROVE Keeps BY <1>1, <1>8, ErasePromised
<1>9. ASSUME NEW k \in Keys, Hit(k) PROVE Keeps BY <1>1, <1>9, HitPromised
<1>10. QED BY <1>2, <1>3, <1>4, <1>5, <1>6, <1>7, <1>8, <1>9 DEF Next

LEMMA PromisedFirst == ASSUME Init PROVE Promise!Init
<1>1. IInv BY InitHolds
<1>2. /\ alg \in {"lru", "fifo", "lfu"} /\ failed = FALSE /\ list = L!NewList /\ rings = F!NewRings BY DEF Init
<1>3. Promise!Freqs = Freqs BY <1>1, HeldIs
<1>4. CASE alg = "lfu"
  <2>1. Ringed(rings) = {} BY <1>2, RingsNew
  <2>2. \A f \in Freqs : HasFreq(rings, f) = {} BY <2>1 DEF HasFreq
  <2>3. \A f \in Freqs : F!Live(rings, f) = {} BY <2>2, LiveIs
  <2>4. \A f \in Freqs : OlderAt(rings, f) = {} BY <2>3 DEF OlderAt
  <2>5. F!Older(rings) = {} BY <2>4, OlderSplit
  <2>6. RingWaiting(rings) = Nothing /\ RingPassed(rings) = Nothing
    BY <2>2, <2>3 DEF RingWaiting, RingPassed, Nothing
  <2>7. Waiting = Nothing /\ Passed = Nothing /\ Order = {} BY <1>1, <1>4, <2>5, <2>6, Views
  <2>8. QED BY <1>2, <1>3, <2>7 DEF Promise!Init, Nothing
<1>5. CASE alg # "lfu"
  <2>1. Listed(list) = {} /\ L!Older(list) = {} BY <1>2, ListNew
  <2>2. ListWaiting(list) = Nothing BY <2>1 DEF ListWaiting, Nothing
  <2>3. Waiting = Nothing /\ Passed = Nothing /\ Order = {} BY <1>1, <1>5, <2>1, <2>2, Views
  <2>4. QED BY <1>2, <1>3, <2>3 DEF Promise!Init, Nothing
<1>6. QED BY <1>4, <1>5

\* The libraries implement the evictions that Eviction states (lru.c, fifo.c, lfu.c): the victim
\* of LRU is the key inserted or hit longest ago, of FIFO the one inserted longest ago, of LFU the
\* oldest of those that wait at the lowest frequency in use, whatever the links and the rings hold
\* beside them; and LFU passes a key over only when it comes to a ring that is full.
THEOREM PromiseKept == Spec => Promised
<1>1. IInv /\ [Next]_vars => IInv' BY NextHolds
<1>2. IInv /\ [Next]_vars => [Promise!Next]_<<alg, Waiting, Passed, Order, failed>>
  BY KeepsAll DEF Keeps, Step
<1>3. IInv /\ [Next]_vars =>
        [\A f \in F!Freqs : \A k \in Passed'[f] \ Passed[f] : Len(rings.ring[f]) >= Room]_vars
  BY KeepsAll DEF Keeps, FullPass
<1>4. Init => Promise!Init BY PromisedFirst
<1>5. QED BY InitHolds, <1>1, <1>2, <1>3, <1>4, PTL
  DEF Spec, Promised, KeepsPromise, Promise!Spec, PassedIfFull

=============================================================================
