--------------------------- MODULE TransmitProofs ---------------------------
(***************************************************************************)
(* Frames on their way out of cefnetd: for every size of the ring, of the  *)
(* pool and of the frames, and any number of peers and faces, no block of  *)
(* the pool has two holders, tx_que is a queue, and frames reach those     *)
(* they were addressed to, in order.                                       *)
(***************************************************************************)
EXTENDS Transmit, WellFoundedInduction, SequenceTheorems, TLAPS

-----------------------------------------------------------------------------
(* Places on a circle of n: how far y is ahead of x, and what a step of    *)
(* either does to that.                                                    *)

LEMMA Round ==
  ASSUME NEW n \in Nat, n > 0, NEW x \in Int, -n <= x, x < 2 * n
  PROVE  x % n = IF x < 0 THEN x + n ELSE IF x < n THEN x ELSE x - n
OBVIOUS

LEMMA Rest ==
  ASSUME NEW n \in Nat, n > 0, NEW x \in Int
  PROVE  x % n \in 0 .. n - 1
OBVIOUS

LEMMA Step ==
  ASSUME NEW n \in Nat, n > 0, NEW x \in 0 .. n - 1
  PROVE  /\ x % n = x
         /\ (x + 1) % n = IF x = n - 1 THEN 0 ELSE x + 1
         /\ (x + 1) % n \in 0 .. n - 1
BY Round

LEMMA Gap ==
  ASSUME NEW n \in Nat, n > 0, NEW x \in 0 .. n - 1, NEW y \in 0 .. n - 1
  PROVE  /\ (y - x) % n = IF x <= y THEN y - x ELSE y - x + n
         /\ (y - x) % n \in 0 .. n - 1
<1>1. (y - x) % n = IF x <= y THEN y - x ELSE y - x + n BY Round
<1>2. QED BY <1>1

LEMMA GapGrows ==
  ASSUME NEW n \in Nat, n > 0, NEW x \in 0 .. n - 1, NEW y \in 0 .. n - 1, (y + 1) % n # x
  PROVE  /\ (y - x) % n \in 0 .. n - 2
         /\ (((y + 1) % n) - x) % n = ((y - x) % n) + 1
<1> DEFINE z == (y + 1) % n
<1>1. z \in 0 .. n - 1 /\ z = IF y = n - 1 THEN 0 ELSE y + 1 BY Step
<1>2. z # x OBVIOUS
<1> HIDE DEF z
<1>3. (z - x) % n = IF x <= z THEN z - x ELSE z - x + n BY <1>1, Gap
<1>4. (y - x) % n = IF x <= y THEN y - x ELSE y - x + n BY Gap
<1>5. (y - x) % n \in 0 .. n - 2 /\ (z - x) % n = ((y - x) % n) + 1 BY <1>1, <1>2, <1>3, <1>4
<1>6. QED BY <1>5 DEF z

LEMMA GapShrinks ==
  ASSUME NEW n \in Nat, n > 0, NEW x \in 0 .. n - 1, NEW y \in 0 .. n - 1, x # y
  PROVE  /\ (y - x) % n \in 1 .. n - 1
         /\ (y - ((x + 1) % n)) % n = ((y - x) % n) - 1
<1> DEFINE z == (x + 1) % n
<1>1. z \in 0 .. n - 1 /\ z = IF x = n - 1 THEN 0 ELSE x + 1 BY Step
<1> HIDE DEF z
<1>3. (y - z) % n = IF z <= y THEN y - z ELSE y - z + n BY <1>1, Gap
<1>4. (y - x) % n = IF x <= y THEN y - x ELSE y - x + n BY Gap
<1>5. (y - x) % n \in 1 .. n - 1 /\ (y - z) % n = ((y - x) % n) - 1 BY <1>1, <1>3, <1>4
<1>6. QED BY <1>5 DEF z

LEMMA Inside ==
  ASSUME NEW n \in Nat, n > 0, NEW x \in 0 .. n - 1, NEW y \in 0 .. n - 1, NEW i \in 0 .. n - 1
  PROVE  /\ (x + i) % n \in 0 .. n - 1
         /\ (x + i) % n = y <=> i = (y - x) % n
<1>1. (x + i) % n = IF x + i < n THEN x + i ELSE x + i - n BY Round
<1>2. (y - x) % n = IF x <= y THEN y - x ELSE y - x + n BY Gap
<1>3. QED BY <1>1, <1>2

LEMMA Shift ==
  ASSUME NEW n \in Nat, n > 0, NEW x \in 0 .. n - 1, NEW i \in 0 .. n - 2
  PROVE  (((x + 1) % n) + i) % n = (x + (i + 1)) % n
<1> DEFINE z == (x + 1) % n
<1>1. z \in 0 .. n - 1 /\ z = IF x = n - 1 THEN 0 ELSE x + 1 BY Step
<1> HIDE DEF z
<1>2. (z + i) % n = IF z + i < n THEN z + i ELSE z + i - n BY <1>1, Round
<1>3. (x + (i + 1)) % n = IF x + (i + 1) < n THEN x + (i + 1) ELSE x + (i + 1) - n BY Round
<1>4. (z + i) % n = (x + (i + 1)) % n BY <1>1, <1>2, <1>3
<1>5. QED BY <1>4 DEF z

-----------------------------------------------------------------------------
(* The ring as a sequence.                                                 *)

Count(q) == (q.bottom - q.top) % Slots
Item(q, i) == q.body[(q.top + i) % Slots]

Rings == [top : 0 .. Slots - 1, bottom : 0 .. Slots - 1, body : [0 .. Slots - 1 -> Int]]

LEMMA Sizes ==
  /\ Slots \in Nat /\ Slots > 0 /\ Slots >= 2
  /\ Increment \in Nat /\ Increment > 0 /\ Increment >= 4 /\ Slots <= Increment
  /\ BlockSize \in Nat /\ BlockSize >= Increment
BY TransmitAssumption

LEMMA RingPush ==
  ASSUME NEW q \in Rings, NEW b \in Int, ~R!IsFull(q)
  PROVE  LET r == R!Pushed(q, b) IN
         /\ r \in Rings /\ Count(q) \in 0 .. Slots - 2 /\ Count(r) = Count(q) + 1
         /\ \A i \in 0 .. Count(q) - 1 : Item(r, i) = Item(q, i)
         /\ Item(r, Count(q)) = b
         /\ r.top = q.top
         /\ \A s \in 0 .. Slots - 1 : R!Behind(s) = q.top => r.body[s] = q.body[s]
<1> DEFINE r == R!Pushed(q, b)
<1>1. PICK t \in 0 .. Slots - 1, m \in 0 .. Slots - 1 : q.top = t /\ q.bottom = m BY DEF Rings
<1>2. q.body \in [0 .. Slots - 1 -> Int] BY DEF Rings
<1>3. r.top = t /\ r.bottom = (m + 1) % Slots /\ r.body = [q.body EXCEPT ![m] = b]
  BY <1>1 DEF Rings, R!Pushed, R!Behind
<1>4. (m + 1) % Slots \in 0 .. Slots - 1 BY Sizes, Step
<1>5. r \in Rings
  <2>1. r \in [top : {t}, bottom : {(m + 1) % Slots}, body : {[q.body EXCEPT ![m] = b]}]
    BY <1>1 DEF Rings, R!Pushed, R!Behind
  <2>2. [q.body EXCEPT ![m] = b] \in [0 .. Slots - 1 -> Int] BY <1>2
  <2> DEFINE x == (m + 1) % Slots
             d == [q.body EXCEPT ![m] = b]
  <2>3. x \in 0 .. Slots - 1 /\ d \in [0 .. Slots - 1 -> Int] BY <1>4, <2>2
  <2>4. r \in [top : {t}, bottom : {x}, body : {d}] BY <2>1
  <2> HIDE DEF x, d, r
  <2>5. QED BY <2>3, <2>4 DEF Rings
<1> HIDE DEF r
<1>6. (m + 1) % Slots # t BY <1>1 DEF R!IsFull, R!Behind
<1> DEFINE c == (m - t) % Slots
<1>7. Count(q) = c /\ Count(r) = (((m + 1) % Slots) - t) % Slots BY <1>1, <1>3 DEF Count
<1>8. c \in 0 .. Slots - 2 /\ (((m + 1) % Slots) - t) % Slots = c + 1 BY <1>6, Sizes, GapGrows
<1>9. \A i \in 0 .. c : (t + i) % Slots \in 0 .. Slots - 1 /\ ((t + i) % Slots = m <=> i = c)
  <2>1. \A i \in 0 .. Slots - 1 : (t + i) % Slots \in 0 .. Slots - 1 /\ ((t + i) % Slots = m <=> i = c)
    BY Sizes, Inside
  <2> HIDE DEF c
  <2>2. \A i \in 0 .. c : i \in 0 .. Slots - 1 BY <1>8, Sizes
  <2>3. QED BY <2>1, <2>2, Zenon
<1> HIDE DEF c
<1>10. \A i \in 0 .. c - 1 : Item(r, i) = Item(q, i)
  <2> TAKE i \in 0 .. c - 1
  <2>1. i \in 0 .. c /\ i # c BY <1>8, Sizes
  <2>2. (t + i) % Slots \in 0 .. Slots - 1 /\ (t + i) % Slots # m BY <1>9, <2>1, Zenon
  <2>3. QED BY <1>1, <1>2, <1>3, <2>2 DEF Item
<1>11. Item(r, c) = b
  <2>1. c \in 0 .. c BY <1>8, Sizes
  <2>2. (t + c) % Slots = m BY <1>9, <2>1, Zenon
  <2>3. QED BY <1>1, <1>2, <1>3, <2>2 DEF Item
<1>12. \A s \in 0 .. Slots - 1 : R!Behind(s) = q.top => r.body[s] = q.body[s]
  BY <1>1, <1>2, <1>3, <1>6 DEF R!Behind
<1>13. QED BY <1>1, <1>3, <1>5, <1>7, <1>8, <1>10, <1>11, <1>12 DEF r

LEMMA RingPop ==
  ASSUME NEW q \in Rings, ~R!IsEmpty(q)
  PROVE  LET r == R!Popped(q) IN
         /\ r \in Rings /\ Count(q) \in 1 .. Slots - 1 /\ Count(r) = Count(q) - 1
         /\ \A i \in 0 .. Count(r) - 1 : Item(r, i) = Item(q, i + 1)
         /\ Item(q, 0) = q.body[q.top] /\ r.body = q.body
         /\ R!Behind(q.top) = r.top
<1> DEFINE r == R!Popped(q)
<1>1. PICK t \in 0 .. Slots - 1, m \in 0 .. Slots - 1 : q.top = t /\ q.bottom = m BY DEF Rings
<1>2. q.body \in [0 .. Slots - 1 -> Int] BY DEF Rings
<1>3. r.top = (t + 1) % Slots /\ r.bottom = m /\ r.body = q.body
  BY <1>1 DEF Rings, R!Popped, R!Behind
<1>4. (t + 1) % Slots \in 0 .. Slots - 1 BY Sizes, Step
<1>5. r \in Rings
  <2>1. r \in [top : {(t + 1) % Slots}, bottom : {m}, body : {q.body}]
    BY <1>1 DEF Rings, R!Popped, R!Behind
  <2>2. QED BY <1>1, <1>2, <1>4, <2>1 DEF Rings
<1> HIDE DEF r
<1> DEFINE c == (m - t) % Slots
<1>6. Count(q) = c /\ Count(r) = (m - ((t + 1) % Slots)) % Slots BY <1>1, <1>3 DEF Count
<1>7. t # m BY <1>1 DEF R!IsEmpty
<1>8. c \in 1 .. Slots - 1 /\ (m - ((t + 1) % Slots)) % Slots = c - 1 BY <1>7, Sizes, GapShrinks
<1>9. \A i \in 0 .. c - 2 : Item(r, i) = Item(q, i + 1)
  <2> TAKE i \in 0 .. c - 2
  <2>1. i \in 0 .. Slots - 2 BY <1>8, Sizes
  <2>2. (((t + 1) % Slots) + i) % Slots = (t + (i + 1)) % Slots BY <2>1, Sizes, Shift, Zenon
  <2>3. QED BY <1>1, <1>3, <2>2 DEF Item
<1>10. Item(q, 0) = q.body[t]
  <2>1. t + 0 = t /\ t % Slots = t BY Sizes, Step
  <2>2. QED BY <1>1, <2>1 DEF Item
<1> HIDE DEF c
<1>11. c \in Nat /\ Count(r) - 1 = c - 2 BY <1>6, <1>8, Sizes
<1>12. QED BY <1>1, <1>3, <1>5, <1>6, <1>8, <1>9, <1>10, <1>11 DEF r, R!Behind

-----------------------------------------------------------------------------
(* The pool as the sequence of blocks it may give; the last of them it     *)
(* gives only when another has come back.                                  *)

Avail(p) == (p.tail - p.head) % p.num
Spare(p, i) == p.free[(p.head + i) % p.num]

PoolOf(n) == [free : [0 .. n - 1 -> 0 .. n - 1], head : 0 .. n - 1, tail : 0 .. n - 1, num : {n}]
Pools == PoolOf(Increment) \cup PoolOf(2 * Increment)

\* The bits of the two masks that occur.
LEMMA Masks ==
  /\ P!And(0, 0) = 0 /\ P!And(1, 0) = 0
  /\ P!And(0, 1) = 0 /\ P!And(1, 1) = 1 /\ P!And(2, 1) = 0
<1> DEFINE Is(x, m, z) == \A w \in P!Weights : (z \div w) % 2 = ((x \div w) % 2) * ((m \div w) % 2)
<1>1. Is(0, 0, 0) /\ Is(1, 0, 0) /\ Is(0, 1, 0) /\ Is(1, 1, 1) /\ Is(2, 1, 0) BY DEF P!Weights
<1>2. ~Is(0, 1, 1) /\ ~Is(1, 1, 0) /\ ~Is(2, 1, 1) BY DEF P!Weights
<1>3. QED BY <1>1, <1>2 DEF P!And

\* The place behind another is the next one, round the whole pool.
LEMMA NextPlace ==
  ASSUME NEW p, NEW n \in {Increment, 2 * Increment}, p.num = n, NEW x \in 0 .. n - 1
  PROVE  P!Next1(p, x) = (x + 1) % n
<1> DEFINE N == Increment
           a(k) == P!And((x + 1) \div N, (k \div N) - 1)
<1>1. CASE n = N
  <2>1. p.num = N /\ x \in 0 .. N - 1 /\ N \in Nat /\ N > 0 BY <1>1, Sizes
  <2>2. N \div N = 1 BY <2>1
  <2>3. a(N) = 0
    <3>1. CASE x = N - 1
      <4>1. (x + 1) \div N = 1 BY <2>1, <2>2, <3>1
      <4>2. QED BY <4>1, <2>2, Masks
    <3>2. CASE x < N - 1
      <4>1. (x + 1) \div N = 0 BY <2>1, <3>2
      <4>2. QED BY <4>1, <2>2, Masks
    <3>3. QED BY <2>1, <3>1, <3>2
  <2>4. P!Next1(p, x) = ((x + 1) % N) + N * a(N) BY <2>1 DEF P!Next1
  <2>5. (x + 1) % N \in Int BY <2>1
  <2> HIDE DEF a
  <2>6. QED BY <1>1, <2>1, <2>3, <2>4, <2>5
<1>2. CASE n = 2 * N
  <2>1. p.num = 2 * N /\ x \in 0 .. 2 * N - 1 /\ N \in Nat /\ N > 0 BY <1>2, Sizes
  <2>2. (2 * N) \div N = 2 BY <2>1
  <2>3. P!Next1(p, x) = ((x + 1) % N) + N * a(2 * N) BY <2>1 DEF P!Next1
  <2>4. CASE x = 2 * N - 1
    <3>1. (x + 1) \div N = 2 BY <2>1, <2>2, <2>4
    <3>2. a(2 * N) = 0 BY <2>2, <3>1, Masks
    <3>3. (x + 1) % N = 0 BY <2>1, <2>4
    <3>4. (x + 1) % (2 * N) = 0 BY <2>1, <2>4
    <3> HIDE DEF a
    <3>5. QED BY <1>2, <2>1, <2>3, <3>2, <3>3, <3>4
  <2>5. CASE x < N - 1
    <3>1. (x + 1) \div N = 0 BY <2>1, <2>5
    <3>2. a(2 * N) = 0 BY <2>2, <3>1, Masks
    <3>3. (x + 1) % N = x + 1 BY <2>1, <2>5
    <3>4. (x + 1) % (2 * N) = x + 1 BY <2>1, <2>5
    <3> HIDE DEF a
    <3>5. QED BY <1>2, <2>1, <2>3, <3>2, <3>3, <3>4
  <2>6. CASE x >= N - 1 /\ x # 2 * N - 1
    <3>1. (x + 1) \div N = 1 BY <2>1, <2>6
    <3>2. a(2 * N) = 1 BY <2>2, <3>1, Masks
    <3>3. (x + 1) % N = x + 1 - N BY <2>1, <2>6, Round
    <3>4. (x + 1) % (2 * N) = x + 1 BY <2>1, <2>6
    <3> HIDE DEF a
    <3>5. QED BY <1>2, <2>1, <2>3, <3>2, <3>3, <3>4
  <2>7. QED BY <2>1, <2>4, <2>5, <2>6
<1>3. QED BY <1>1, <1>2

\* A pool that does not look empty gives its first block.
LEMMA PoolGives ==
  ASSUME NEW p \in Pools, ~P!LooksEmpty(p)
  PROVE  LET r == P!AfterAlloc(p) IN
         /\ r \in Pools /\ r.num = p.num
         /\ Avail(p) \in 1 .. p.num - 1 /\ Avail(r) = Avail(p) - 1
         /\ \A i \in 0 .. Avail(r) : Spare(r, i) = Spare(p, i + 1)
         /\ P!Source(p) = p /\ P!Allocated(p) = Spare(p, 0)
<1> DEFINE r == P!AfterAlloc(p)
<1>0. PICK n \in {Increment, 2 * Increment} : p \in PoolOf(n) BY DEF Pools
<1>1. PICK h \in 0 .. n - 1, e \in 0 .. n - 1 : p.num = n /\ p.head = h /\ p.tail = e
  BY <1>0 DEF PoolOf
<1>2. /\ n \in {Increment, 2 * Increment} /\ n \in Nat /\ n > 0 /\ n >= 2
      /\ h \in 0 .. n - 1 /\ e \in 0 .. n - 1 /\ p.free \in [0 .. n - 1 -> 0 .. n - 1]
  <2>1. n \in Nat /\ n > 0 /\ n >= 2 BY Sizes
  <2>2. p.free \in [0 .. n - 1 -> 0 .. n - 1] BY <1>0 DEF PoolOf
  <2>3. QED BY <2>1, <2>2
<1>3. P!Source(p) = p BY DEF P!Source
<1>4. P!Next1(p, h) = (h + 1) % n BY <1>1, NextPlace, Zenon
<1>5. r.num = n /\ r.free = p.free /\ r.tail = e /\ r.head = (h + 1) % n
  BY <1>0, <1>1, <1>3, <1>4 DEF PoolOf, P!AfterAlloc
<1>6. (h + 1) % n \in 0 .. n - 1 BY <1>2, Step
<1>7. r \in Pools
  <2>1. r \in [free : {p.free}, head : {(h + 1) % n}, tail : {e}, num : {n}]
    BY <1>0, <1>1, <1>3, <1>4 DEF PoolOf, P!AfterAlloc
  <2>2. r \in PoolOf(n) BY <1>2, <1>5, <1>6, <2>1 DEF PoolOf
  <2>3. QED BY <2>2 DEF Pools
<1> HIDE DEF r
<1> DEFINE c == (e - h) % n
<1>8. Avail(p) = c /\ Avail(r) = (e - ((h + 1) % n)) % n BY <1>1, <1>5 DEF Avail
<1>9. h # e BY <1>1 DEF P!LooksEmpty
<1>10. c \in 1 .. n - 1 /\ (e - ((h + 1) % n)) % n = c - 1 BY <1>2, <1>9, GapShrinks
<1> HIDE DEF c
<1>11. \A i \in 0 .. c - 1 : Spare(r, i) = Spare(p, i + 1)
  <2> TAKE i \in 0 .. c - 1
  <2>1. i \in 0 .. n - 2 BY <1>2, <1>10
  <2>2. (((h + 1) % n) + i) % n = (h + (i + 1)) % n BY <1>2, <2>1, Shift, Zenon
  <2>3. QED BY <1>1, <1>5, <2>2 DEF Spare
<1>12. P!Allocated(p) = Spare(p, 0)
  <2>0. h + 0 = h BY <1>2
  <2>1. h + 0 = h /\ h % n = h BY <1>2, <2>0, Step, Zenon
  <2>2. QED BY <1>1, <1>3, <2>1 DEF P!Allocated, Spare
<1>13. QED BY <1>1, <1>3, <1>5, <1>7, <1>8, <1>10, <1>11, <1>12 DEF r

\* One that looks empty takes a second chunk and gives the first block of that.
LEMMA PoolGrows ==
  ASSUME NEW p \in Pools, P!LooksEmpty(p), p.num = Increment
  PROVE  LET r == P!AfterAlloc(p) IN
         /\ r \in Pools /\ r.num = 2 * Increment
         /\ Avail(p) = 0 /\ Avail(r) = Increment - 2
         /\ \A i \in 0 .. Avail(r) : Spare(r, i) = Increment + 1 + i
         /\ P!Source(p).num = 2 * Increment /\ P!Allocated(p) = Increment
<1> DEFINE r == P!AfterAlloc(p)
           g == P!Grown(p)
           N == Increment
<1>1. P!Source(p) = g BY DEF P!Source
<1>2. N \in Nat /\ N >= 4 /\ p \in PoolOf(N)
  <2>1. N \in Nat /\ N >= 4 BY Sizes
  <2>2. QED BY <2>1 DEF Pools, PoolOf
<1>3. p.free \in [0 .. N - 1 -> 0 .. N - 1] /\ p.head \in 0 .. N - 1 /\ p.tail = p.head
  BY <1>2 DEF PoolOf, P!LooksEmpty
<1>4. /\ g.num = 2 * N /\ g.head = N /\ g.tail = 2 * N - 1
      /\ g.free = [i \in 0 .. 2 * N - 1 |-> IF i < N THEN p.free[i] ELSE i]
  BY <1>2 DEF P!Grown
<1>5. g.free \in [0 .. 2 * N - 1 -> 0 .. 2 * N - 1] BY <1>2, <1>3, <1>4
<1>6. P!Next1(g, g.head) = N + 1
  <2>0. N \in 0 .. 2 * N - 1 /\ 2 * N \in {Increment, 2 * Increment} BY <1>2
  <2>1. P!Next1(g, N) = (N + 1) % (2 * N) BY <1>4, <2>0, NextPlace, Zenon
  <2>2. (N + 1) % (2 * N) = N + 1 BY <1>2
  <2>3. QED BY <1>4, <2>1, <2>2
<1>7. r \in [free : {g.free}, head : {N + 1}, tail : {2 * N - 1}, num : {2 * N}]
  BY <1>1, <1>4, <1>6 DEF P!AfterAlloc, P!Grown
<1> HIDE DEF r, g
<1>8. r.free = g.free /\ r.head = N + 1 /\ r.tail = 2 * N - 1 /\ r.num = 2 * N BY <1>7
<1>9. r \in Pools
  <2>0. N + 1 \in 0 .. 2 * N - 1 /\ 2 * N - 1 \in 0 .. 2 * N - 1 BY <1>2
  <2> HIDE DEF N
  <2>1. r \in PoolOf(2 * N) BY <1>5, <1>7, <2>0, Zenon DEF PoolOf
  <2>2. QED BY <2>1 DEF Pools, N
<1>10. Avail(p) = 0 BY <1>2, <1>3 DEF Avail
<1>11. Avail(r) = N - 2
  <2>1. (2 * N - 1 - (N + 1)) % (2 * N) = N - 2 BY <1>2
  <2>2. QED BY <1>8, <2>1 DEF Avail
<1>12. \A i \in 0 .. Avail(r) : Spare(r, i) = N + 1 + i
  <2> TAKE i \in 0 .. Avail(r)
  <2>1. i \in 0 .. N - 2 BY <1>11
  <2>2. (N + 1 + i) % (2 * N) = N + 1 + i /\ N + 1 + i \in 0 .. 2 * N - 1 /\ ~(N + 1 + i < N) BY <1>2, <2>1
  <2>3. QED BY <1>4, <1>8, <2>2 DEF Spare
<1>13. g.free[N] = N BY <1>2, <1>4
<1>14. QED BY <1>1, <1>4, <1>8, <1>9, <1>10, <1>11, <1>12, <1>13 DEF P!Allocated, r

\* A block that comes back is the last the pool gives.
LEMMA PoolTakes ==
  ASSUME NEW p \in Pools, NEW b \in 0 .. p.num - 1, Avail(p) # p.num - 1
  PROVE  LET r == P!Freed(p, b) IN
         /\ r \in Pools /\ r.num = p.num
         /\ Avail(p) \in 0 .. p.num - 2 /\ Avail(r) = Avail(p) + 1
         /\ \A i \in 0 .. Avail(p) : Spare(r, i) = Spare(p, i)
         /\ Spare(r, Avail(r)) = b
<1> DEFINE r == P!Freed(p, b)
<1>0. PICK n \in {Increment, 2 * Increment} : p \in PoolOf(n) BY DEF Pools
<1>1. PICK h \in 0 .. n - 1, e \in 0 .. n - 1 : p.num = n /\ p.head = h /\ p.tail = e
  BY <1>0 DEF PoolOf
<1>2. /\ n \in {Increment, 2 * Increment} /\ n \in Nat /\ n > 0 /\ n >= 2
      /\ h \in 0 .. n - 1 /\ e \in 0 .. n - 1 /\ p.free \in [0 .. n - 1 -> 0 .. n - 1]
      /\ b \in 0 .. n - 1
  <2>1. b \in 0 .. n - 1 BY <1>1
  <2>2. n \in {Increment, 2 * Increment} /\ n \in Nat /\ n > 0 /\ n >= 2 BY Sizes
  <2>3. p.free \in [0 .. n - 1 -> 0 .. n - 1] BY <1>0 DEF PoolOf
  <2>4. QED BY <2>1, <2>2, <2>3
<1>3. P!Recognised(b)
  <2> DEFINE m == b % Increment
  <2>1. m \in 0 .. Increment - 1
    <3>1. b \in Int BY <1>2
    <3>2. QED BY <3>1, Sizes, Rest, Zenon
  <2>2. Increment \in Nat /\ BlockSize \in Nat /\ Increment <= BlockSize BY Sizes
  <2> HIDE DEF m
  <2>3. m * BlockSize <= (Increment - 1) * BlockSize BY <2>1, <2>2
  <2>4. (Increment - 1) * BlockSize < Increment * (BlockSize - 1) + 1 BY <2>2
  <2>5. QED BY <2>1, <2>2, <2>3, <2>4 DEF P!Recognised, m
<1>4. P!Next1(p, e) = (e + 1) % n BY <1>1, NextPlace, Zenon
<1> DEFINE f == (e + 1) % n
<1>5. f \in 0 .. n - 1 BY <1>2, Step
<1>6. r.num = n /\ r.head = h /\ r.tail = f /\ r.free = [p.free EXCEPT ![f] = b]
  BY <1>0, <1>1, <1>3, <1>4 DEF PoolOf, P!Freed
<1>7. r \in Pools
  <2>1. r \in [free : {[p.free EXCEPT ![f] = b]}, head : {h}, tail : {f}, num : {n}]
    BY <1>0, <1>1, <1>3, <1>4 DEF PoolOf, P!Freed
  <2>2. [p.free EXCEPT ![f] = b] \in [0 .. n - 1 -> 0 .. n - 1] BY <1>2
  <2> DEFINE d == [p.free EXCEPT ![f] = b]
  <2>3. r \in [free : {d}, head : {h}, tail : {f}, num : {n}] /\ d \in [0 .. n - 1 -> 0 .. n - 1]
    BY <2>1, <2>2
  <2> HIDE DEF d, f, r
  <2>4. r \in PoolOf(n) BY <1>2, <1>5, <2>3 DEF PoolOf
  <2>5. QED BY <2>4 DEF Pools
<1> HIDE DEF r
<1> DEFINE c == (e - h) % n
<1>8. Avail(p) = c /\ Avail(r) = (f - h) % n BY <1>1, <1>6 DEF Avail
<1>9. f # h
  <2>1. SUFFICES ASSUME f = h PROVE c = n - 1 BY <1>1, <1>8
  <2>2. f = IF e = n - 1 THEN 0 ELSE e + 1 BY <1>2, Step
  <2>3. c = IF h <= e THEN e - h ELSE e - h + n BY <1>2, Gap
  <2>4. IF e = n - 1 THEN h = 0 ELSE h = e + 1 BY <2>1, <2>2
  <2> HIDE DEF c, f
  <2>5. QED BY <1>2, <2>3, <2>4
<1>10. c \in 0 .. n - 2 /\ (f - h) % n = c + 1 BY <1>2, <1>9, GapGrows
<1>11. \A i \in 0 .. n - 1 : (h + i) % n \in 0 .. n - 1 /\ ((h + i) % n = f <=> i = (f - h) % n)
  BY <1>2, <1>5, Inside, Zenon
<1> HIDE DEF c, f
<1>12. \A i \in 0 .. c : Spare(r, i) = Spare(p, i)
  <2> TAKE i \in 0 .. c
  <2>1. i \in 0 .. n - 1 /\ i # c + 1 BY <1>2, <1>10
  <2>2. (h + i) % n \in 0 .. n - 1 /\ (h + i) % n # f BY <1>10, <1>11, <2>1, Zenon
  <2>3. QED BY <1>1, <1>2, <1>6, <2>2 DEF Spare
<1>13. Spare(r, c + 1) = b
  <2>1. c + 1 \in 0 .. n - 1 BY <1>2, <1>10
  <2>2. (h + (c + 1)) % n = f BY <1>10, <1>11, <2>1, Zenon
  <2>3. QED BY <1>1, <1>2, <1>5, <1>6, <2>2 DEF Spare
<1>14. QED BY <1>1, <1>6, <1>7, <1>8, <1>10, <1>12, <1>13 DEF r

-----------------------------------------------------------------------------
(* The frames on their way, oldest first: place -1 is the transmit         *)
(* thread's, place 0 the head of the ring, and the place behind the last   *)
(* of the ring the main thread's.                                          *)

TxBlock == IF tx.at = "read" THEN ring.body[tx.slot] ELSE tx.block
Used == {k \in -1 .. Count(ring) : (k = -1 => tx.at # "pop") /\ (k = Count(ring) => main.at = "push")}
Place(k) == IF k = -1 THEN TxBlock ELSE IF k = Count(ring) THEN main.block ELSE Item(ring, k)

Elems == [frame : Nat, faces : Lists, to : SUBSET Peers]

TxRecs ==
  [at : {"pop", "read", "face", "send", "rest"}, slot : 0 .. Slots - 1, block : Int,
   i : Nat, piece : Nat, tries : Nat]

Types ==
  /\ ring \in Rings /\ pool \in Pools
  /\ DOMAIN elem \subseteq 0 .. pool.num - 1 /\ elem \in [DOMAIN elem -> Elems]
  /\ main \in [at : {"idle", "push"}, block : Int, tries : Nat]
  /\ tx \in TxRecs /\ 1 <= tx.i
  /\ tx.at = "read" => R!Behind(tx.slot) = ring.top
  /\ face \in [FaceIds -> Peers \cup {NoPeer}] /\ next \in 1 .. FaceMax + 1
  /\ lapped \in BOOLEAN /\ sent \in Nat /\ sent <= FrameMax /\ got \in [Peers -> Nat \X Nat]

\* What is held is on loan, no frame twice, in the order of sending.
InLine ==
  /\ \A k \in Used : Place(k) \in DOMAIN elem
  /\ \A k, l \in Used : k < l => elem[Place(k)].frame < elem[Place(l)].frame
  /\ \A b \in DOMAIN elem : elem[b].frame <= sent /\ 1 <= elem[b].frame

\* What the pool may give is not on loan, and it has no block twice.
Apart ==
  /\ \A i \in 0 .. Avail(pool) : Spare(pool, i) \notin DOMAIN elem
  /\ \A i, j \in 0 .. Avail(pool) : Spare(pool, i) = Spare(pool, j) => i = j

\* How many are on loan, with those the pool has.
Waiting == IF main.at = "push" THEN 1 ELSE 0
Working == IF tx.at # "pop" THEN 1 ELSE 0
Total == Count(ring) + Waiting + Working + Avail(pool)
           = IF pool.num = Increment THEN Increment - 1 ELSE 2 * Increment - 2

BlocksInv == Types /\ InLine /\ Apart /\ Total

\* The faces of a frame that is on its way lead to those it was addressed to or nowhere.
OnlyTo ==
  /\ \A f \in FaceIds : f >= next => ~Active(f)
  /\ \A b \in DOMAIN elem : \A j \in DOMAIN elem[b].faces :
       /\ elem[b].faces[j] < next
       /\ Active(elem[b].faces[j]) => face[elem[b].faces[j]] \in elem[b].to

Sending == tx.at \in {"face", "send", "rest"}

\* A peer has one face at most.
OneFace == \A f, g \in FaceIds : Active(f) /\ face[f] = face[g] => f = g

\* What a peer got last is older than the frames to come, or is the one being sent.
Sooner ==
  /\ \A k \in Peers : got[k][1] <= sent
  /\ \A k \in Peers : \A l \in Used :
       \/ got[k][1] < elem[Place(l)].frame
       \/ l = -1 /\ Sending /\ got[k][1] = elem[Place(l)].frame

\* The frame being sent is new to those whose turn is still to come, and came whole so
\* far to the one whose turn it is.
InTurn ==
  /\ Sending => \A j \in DOMAIN Faces :
       (j > tx.i \/ (j = tx.i /\ tx.at # "rest")) /\ Active(Faces[j]) => got[face[Faces[j]]][1] < Frame
  /\ tx.at \in {"send", "rest"} => tx.i \in DOMAIN Faces
  /\ tx.at = "rest" => tx.piece >= 2 /\ (Active(Face) => got[face[Face]] = <<Frame, tx.piece - 1>>)

Reached == OneFace /\ Sooner /\ InTurn

DeliveredInv == BlocksInv /\ (lapped \/ (OnlyTo /\ Reached))

-----------------------------------------------------------------------------
(* How the places move: which of them are used after a step, and by what.  *)

LEMMA Counted == ASSUME NEW q \in Rings PROVE Count(q) \in 0 .. Slots - 1
<1>1. PICK t \in 0 .. Slots - 1, m \in 0 .. Slots - 1 : q.top = t /\ q.bottom = m BY DEF Rings
<1>2. (m - t) % Slots \in 0 .. Slots - 1 BY Sizes, Gap
<1>3. QED BY <1>1, <1>2 DEF Count

LEMMA SameLine ==
  ASSUME ring' = ring, main.at' = main.at, main.block' = main.block,
         (tx.at = "pop") <=> (tx.at' = "pop"), TxBlock' = TxBlock
  PROVE  /\ Used' = Used /\ \A k : Place(k)' = Place(k)
         /\ Waiting' = Waiting /\ Working' = Working /\ Count(ring)' = Count(ring)
<1>1. Used' = Used BY DEF Used
<1>2. \A k : Place(k)' = Place(k) BY DEF Place
<1>3. QED BY <1>1, <1>2 DEF Waiting, Working

LEMMA PushLine ==
  ASSUME Types, Push
  PROVE  /\ ring' \in Rings /\ ring'.top = ring.top
         /\ tx.at = "read" => TxBlock' = TxBlock
         /\ Used' = Used /\ \A k \in Used : Place(k)' = Place(k)
         /\ Count(ring)' = Count(ring) + 1 /\ Waiting = 1 /\ Waiting' = 0 /\ Working' = Working
<1> DEFINE c == Count(ring)
<1>1. /\ main.at = "push" /\ ~R!IsFull(ring) /\ ring' = R!Pushed(ring, main.block)
      /\ main'.at = "idle" /\ tx' = tx
  BY DEF Push, Ready
<1>2. ring \in Rings /\ main.block \in Int BY DEF Types
<1>3. /\ ring' \in Rings /\ c \in 0 .. Slots - 2 /\ Count(ring') = c + 1
      /\ \A i \in 0 .. c - 1 : Item(ring', i) = Item(ring, i)
      /\ Item(ring', c) = main.block
      /\ ring'.top = ring.top
      /\ \A s \in 0 .. Slots - 1 : R!Behind(s) = ring.top => ring'.body[s] = ring.body[s]
  BY <1>1, <1>2, RingPush
<1>4. c \in Nat BY <1>3, Sizes
<1> HIDE DEF c
<1>5. Used' = Used
  <2>1. Used' = {k \in -1 .. c + 1 : (k = -1 => tx.at # "pop") /\ k # c + 1} BY <1>1, <1>3 DEF Used
  <2>2. Used = {k \in -1 .. c : k = -1 => tx.at # "pop"} BY <1>1 DEF Used, c
  <2>3. QED BY <1>4, <2>1, <2>2
<1>6. TxBlock' = TxBlock
  <2>1. tx.at = "read" => tx.slot \in 0 .. Slots - 1 /\ R!Behind(tx.slot) = ring.top BY DEF Types, TxRecs
  <2>2. QED BY <1>1, <1>3, <2>1 DEF TxBlock
<1>7. \A k \in Used : Place(k)' = Place(k)
  <2> TAKE k \in Used
  <2>1. k \in -1 .. c BY DEF Used, c
  <2>2. CASE k = -1 BY <1>6, <2>2 DEF Place
  <2>3. CASE k = c
    <3>1. Place(k) = main.block BY <1>4, <2>3 DEF Place, c
    <3>2. Place(k)' = Item(ring', c) BY <1>3, <1>4, <2>3 DEF Place
    <3>3. QED BY <1>3, <3>1, <3>2
  <2>4. CASE k \in 0 .. c - 1
    <3>1. Place(k) = Item(ring, k) BY <1>4, <2>4 DEF Place, c
    <3>2. Place(k)' = Item(ring', k) BY <1>3, <1>4, <2>4 DEF Place
    <3>3. QED BY <1>3, <2>4, <3>1, <3>2
  <2>5. QED BY <1>4, <2>1, <2>2, <2>3, <2>4
<1>8. QED BY <1>1, <1>3, <1>5, <1>6, <1>7 DEF Waiting, Working, c

LEMMA PopLine ==
  ASSUME Types, Pop
  PROVE  /\ ring' \in Rings /\ R!Behind(ring.top) = ring'.top
         /\ \A k \in Used' : k + 1 \in Used /\ Place(k)' = Place(k + 1)
         /\ Count(ring)' = Count(ring) - 1 /\ Waiting' = Waiting /\ Working = 0 /\ Working' = 1
<1> DEFINE c == Count(ring)
<1>1. /\ tx.at = "pop" /\ ~R!IsEmpty(ring) /\ ring' = R!Popped(ring)
      /\ tx'.at = "read" /\ tx'.slot = ring.top /\ main' = main
  BY DEF Pop, Types, TxRecs
<1>2. ring \in Rings BY DEF Types
<1>3. /\ ring' \in Rings /\ c \in 1 .. Slots - 1 /\ Count(ring') = c - 1
      /\ \A i \in 0 .. Count(ring') - 1 : Item(ring', i) = Item(ring, i + 1)
      /\ Item(ring, 0) = ring.body[ring.top] /\ ring'.body = ring.body
      /\ R!Behind(ring.top) = ring'.top
  BY <1>1, <1>2, RingPop
<1>4. c \in Nat /\ c >= 1 BY <1>3, Sizes
<1> HIDE DEF c
<1>5. ASSUME NEW k \in Used' PROVE k + 1 \in Used /\ Place(k)' = Place(k + 1)
  <2>1. k \in -1 .. c - 1 /\ (k = c - 1 => main.at = "push") BY <1>1, <1>3 DEF Used
  <2>2. k + 1 \in Used BY <1>1, <1>4, <2>1 DEF Used, c
  <2>3. CASE k = -1
    <3>1. Place(k)' = Item(ring, 0) BY <1>1, <1>3, <2>3 DEF Place, TxBlock
    <3>2. Place(k + 1) = Item(ring, 0) BY <1>4, <2>3 DEF Place, c
    <3>3. QED BY <2>2, <3>1, <3>2
  <2>4. CASE k = c - 1
    <3>1. Place(k)' = main.block BY <1>1, <1>3, <1>4, <2>4 DEF Place
    <3>2. Place(k + 1) = main.block BY <1>4, <2>4 DEF Place, c
    <3>3. QED BY <2>2, <3>1, <3>2
  <2>5. CASE k \in 0 .. c - 2
    <3>1. Place(k)' = Item(ring', k) BY <1>3, <1>4, <2>5 DEF Place
    <3>2. Place(k + 1) = Item(ring, k + 1) BY <1>4, <2>5 DEF Place, c
    <3>3. Item(ring', k) = Item(ring, k + 1) BY <1>3, <1>4, <2>5
    <3>4. QED BY <2>2, <3>1, <3>2, <3>3
  <2>6. QED BY <1>4, <2>1, <2>3, <2>4, <2>5
<1>6. QED BY <1>1, <1>3, <1>5 DEF Waiting, Working, c

LEMMA DropLine ==
  ASSUME Types, ring' = ring, tx' = tx, main.at = "push", main'.at = "idle"
  PROVE  /\ Used' = Used \ {Count(ring)} /\ \A k \in Used' : Place(k)' = Place(k)
         /\ Count(ring) \in Used /\ Place(Count(ring)) = main.block
         /\ Count(ring)' = Count(ring) /\ Waiting = 1 /\ Waiting' = 0 /\ Working' = Working
<1> DEFINE c == Count(ring)
<1>1. c \in Nat BY Counted, Sizes DEF Types
<1>2. Count(ring') = c OBVIOUS
<1> HIDE DEF c
<1>3. Used = {k \in -1 .. c : k = -1 => tx.at # "pop"} BY DEF Used, c
<1>4. Used' = {k \in -1 .. c : (k = -1 => tx.at # "pop") /\ k # c} BY <1>2 DEF Used
<1>5. \A k \in Used' : Place(k)' = Place(k)
  <2>1. TxBlock' = TxBlock BY DEF TxBlock
  <2>2. QED BY <1>2, <1>4, <2>1 DEF Place, c
<1>6. Place(c) = main.block BY <1>1 DEF Place, c
<1>7. QED BY <1>1, <1>2, <1>3, <1>4, <1>5, <1>6 DEF Waiting, Working, c

LEMMA FreeLine ==
  ASSUME Types, FreeBlock
  PROVE  /\ Used' = Used \ {-1} /\ \A k \in Used' : Place(k)' = Place(k)
         /\ -1 \in Used /\ Place(-1) = tx.block
         /\ Count(ring)' = Count(ring) /\ Waiting' = Waiting /\ Working = 1 /\ Working' = 0
<1> DEFINE c == Count(ring)
<1>1. c \in Nat BY Counted, Sizes DEF Types
<1>2. tx.at = "face" /\ tx'.at = "pop" /\ ring' = ring /\ main' = main BY DEF FreeBlock, Idle
<1> HIDE DEF c
<1>3. Used = {k \in -1 .. c : k = c => main.at = "push"} BY <1>2 DEF Used, c
<1>4. Used' = {k \in -1 .. c : k # -1 /\ (k = c => main.at = "push")} BY <1>2 DEF Used, c
<1>5. \A k \in Used' : Place(k)' = Place(k) BY <1>2, <1>4 DEF Place
<1>6. Place(-1) = tx.block BY <1>2 DEF Place, TxBlock
<1>7. QED BY <1>1, <1>2, <1>3, <1>4, <1>5, <1>6 DEF Waiting, Working

LEMMA SendLine ==
  ASSUME Types, ring' = ring, tx' = tx, main.at = "idle", main'.at = "push"
  PROVE  /\ Used' = Used \cup {Count(ring)} /\ \A k \in Used : Place(k)' = Place(k)
         /\ \A k \in Used : k < Count(ring)
         /\ Place(Count(ring))' = main'.block
         /\ Count(ring)' = Count(ring) /\ Waiting = 0 /\ Waiting' = 1 /\ Working' = Working
<1> DEFINE c == Count(ring)
<1>1. c \in Nat BY Counted, Sizes DEF Types
<1>2. Count(ring') = c OBVIOUS
<1> HIDE DEF c
<1>3. Used = {k \in -1 .. c : (k = -1 => tx.at # "pop") /\ k # c} BY DEF Used, c
<1>4. Used' = {k \in -1 .. c : k = -1 => tx.at # "pop"} BY <1>2 DEF Used
<1>5. \A k \in Used : Place(k)' = Place(k)
  <2>1. TxBlock' = TxBlock BY DEF TxBlock
  <2>2. QED BY <1>2, <1>3, <2>1 DEF Place, c
<1>6. Place(c)' = main'.block
  <2>1. c' = c BY DEF c
  <2>2. QED BY <1>1, <1>2, <2>1 DEF Place
<1>7. QED BY <1>1, <1>2, <1>3, <1>4, <1>5, <1>6 DEF Waiting, Working, c

-----------------------------------------------------------------------------
(* The blocks.                                                             *)

LEMMA OnLoan ==
  ASSUME Types, InLine
  PROVE  /\ \A b \in DOMAIN elem : elem[b] \in Elems /\ elem[b].frame \in Nat /\ b \in 0 .. pool.num - 1
         /\ \A k, l \in Used : Place(k) = Place(l) => k = l
<1>1. \A b \in DOMAIN elem : elem[b] \in Elems /\ b \in 0 .. pool.num - 1 BY DEF Types
<1>2. \A b \in DOMAIN elem : elem[b].frame \in Nat BY <1>1 DEF Elems
<1>3. ASSUME NEW k \in Used, NEW l \in Used, Place(k) = Place(l) PROVE k = l
  <2>1. Place(k) \in DOMAIN elem BY DEF InLine
  <2>2. ~(k < l) /\ ~(l < k) BY <1>2, <1>3, <2>1 DEF InLine
  <2>3. k \in Int /\ l \in Int BY DEF Used
  <2>4. QED BY <2>2, <2>3
<1>4. QED BY <1>1, <1>2, <1>3

\* A step that sends nothing keeps the frames in line.
LEMMA LineKept ==
  ASSUME Types, InLine, NEW d \in Int,
         \A k \in Used' : k + d \in Used /\ Place(k)' = Place(k + d) /\ Place(k)' \in DOMAIN elem',
         DOMAIN elem' \subseteq DOMAIN elem, \A b \in DOMAIN elem' : elem'[b] = elem[b],
         sent' \in Nat, sent <= sent'
  PROVE  InLine'
<1>1. \A k \in Used' : Place(k)' \in DOMAIN elem' OBVIOUS
<1>2. ASSUME NEW k \in Used', NEW l \in Used', k < l
      PROVE  elem'[Place(k)'].frame < elem'[Place(l)'].frame
  <2>1. k \in Int /\ l \in Int BY DEF Used
  <2>2. k + d < l + d BY <1>2, <2>1
  <2>3. elem[Place(k + d)].frame < elem[Place(l + d)].frame BY <2>2 DEF InLine
  <2>4. QED BY <2>3
<1>3. ASSUME NEW b \in DOMAIN elem' PROVE elem'[b].frame <= sent' /\ 1 <= elem'[b].frame
  <2>1. elem[b].frame \in Nat /\ elem[b].frame <= sent /\ 1 <= elem[b].frame BY OnLoan DEF InLine
  <2>2. sent \in Nat BY DEF Types
  <2>3. elem'[b].frame \in Nat /\ elem'[b].frame <= sent /\ 1 <= elem'[b].frame BY <2>1
  <2>4. QED BY <2>2, <2>3
<1>4. QED BY <1>1, <1>2, <1>3 DEF InLine

\* How much there can be: the pool is never all there when a block is out, and it
\* has a block to give before it would take a third chunk.
LEMMA Room ==
  ASSUME Types, Total
  PROVE  /\ Avail(pool) \in Nat /\ Count(ring) \in 0 .. Slots - 1 /\ pool.num \in Nat
         /\ Waiting = 1 \/ Working = 1 => Avail(pool) # pool.num - 1
         /\ Waiting = 0 /\ Avail(pool) = 0 => pool.num = Increment
<1>1. Count(ring) \in 0 .. Slots - 1 BY Counted DEF Types
<1>2. PICK n \in {Increment, 2 * Increment} : pool \in PoolOf(n) BY DEF Types, Pools
<1>3. pool.num = n /\ pool.head \in 0 .. n - 1 /\ pool.tail \in 0 .. n - 1 BY <1>2 DEF PoolOf
<1>4. n \in Nat /\ n > 0 BY Sizes
<1>5. Avail(pool) \in Nat
  <2>1. PICK h \in 0 .. n - 1, e \in 0 .. n - 1 : pool.head = h /\ pool.tail = e BY <1>3
  <2>2. (e - h) % n \in 0 .. n - 1 BY <1>4, Gap
  <2>3. QED BY <1>3, <1>4, <2>1, <2>2 DEF Avail
<1>6. Waiting \in {0, 1} /\ Working \in {0, 1} BY DEF Waiting, Working
<1>7. QED BY <1>1, <1>3, <1>4, <1>5, <1>6, Sizes DEF Total

\* What the thread that sends has in hand.
LEMMA InHand ==
  ASSUME Types, InLine, Sending
  PROVE  /\ -1 \in Used /\ Place(-1) = tx.block /\ tx.block \in DOMAIN elem
         /\ Frame \in Nat /\ Faces \in Lists
<1>1. Count(ring) \in Nat BY Counted, Sizes DEF Types
<1>2. -1 \in Used BY <1>1 DEF Used, Sending
<1>3. Place(-1) = tx.block BY DEF Place, TxBlock, Sending
<1>4. tx.block \in DOMAIN elem BY <1>2, <1>3 DEF InLine
<1>5. elem[tx.block] \in Elems BY <1>4, OnLoan
<1>6. QED BY <1>2, <1>3, <1>4, <1>5 DEF Elems, Frame, Faces

LEMMA BlocksPush ==
  ASSUME BlocksInv, Push
  PROVE  BlocksInv'
<1> USE DEF BlocksInv
<1>1. /\ UNCHANGED <<pool, elem, tx, face, next, lapped, sent, got>> /\ main' = Ready
  BY DEF Push
<1>2. /\ ring' \in Rings /\ ring'.top = ring.top
      /\ Used' = Used /\ \A k \in Used : Place(k)' = Place(k)
      /\ Count(ring)' = Count(ring) + 1 /\ Waiting = 1 /\ Waiting' = 0 /\ Working' = Working
  BY PushLine
<1>3. Types' BY <1>1, <1>2 DEF Types, Ready, NoBlock, R!Behind
<1>4. InLine'
  <2>1. \A k \in Used : k \in Int /\ k + 0 = k BY DEF Used
  <2>2. \A k \in Used' : k + 0 \in Used /\ Place(k)' = Place(k + 0) /\ Place(k)' \in DOMAIN elem'
    BY <1>1, <1>2, <2>1 DEF InLine
  <2>3. sent' \in Nat /\ sent <= sent' BY <1>1 DEF Types
  <2>4. QED BY <1>1, <2>2, <2>3, LineKept
<1>5. Apart' BY <1>1 DEF Apart
<1>6. Total'
  <2>1. Avail(pool') = Avail(pool) BY <1>1
  <2>2. Working \in {0, 1} BY DEF Working
  <2>3. QED BY <1>1, <1>2, <2>1, <2>2, Room, Sizes DEF Total
<1>7. QED BY <1>3, <1>4, <1>5, <1>6

LEMMA BlocksPop ==
  ASSUME BlocksInv, Pop
  PROVE  BlocksInv'
<1> USE DEF BlocksInv
<1>1. /\ UNCHANGED <<pool, elem, main, face, next, lapped, sent, got>>
      /\ tx' = [tx EXCEPT !.at = "read", !.slot = ring.top]
  BY DEF Pop
<1>2. /\ ring' \in Rings /\ R!Behind(ring.top) = ring'.top
      /\ \A k \in Used' : k + 1 \in Used /\ Place(k)' = Place(k + 1)
      /\ Count(ring)' = Count(ring) - 1 /\ Waiting' = Waiting /\ Working = 0 /\ Working' = 1
  BY PopLine
<1>3. Types'
  <2>1. ring.top \in 0 .. Slots - 1 BY DEF Types, Rings
  <2>2. tx' \in TxRecs BY <1>1, <2>1 DEF Types, TxRecs
  <2>3. tx'.slot = ring.top /\ tx'.i = tx.i BY <1>1 DEF Types, TxRecs
  <2>4. QED BY <1>1, <1>2, <2>2, <2>3 DEF Types, R!Behind
<1>4. InLine'
  <2>1. \A k \in Used' : k + 1 \in Used /\ Place(k)' = Place(k + 1) /\ Place(k)' \in DOMAIN elem'
    BY <1>1, <1>2 DEF InLine
  <2>2. sent' \in Nat /\ sent <= sent' BY <1>1 DEF Types
  <2>3. QED BY <1>1, <2>1, <2>2, LineKept
<1>5. Apart' BY <1>1 DEF Apart
<1>6. Total'
  <2>1. Avail(pool') = Avail(pool) BY <1>1
  <2>2. Waiting \in {0, 1} BY DEF Waiting
  <2>3. QED BY <1>1, <1>2, <2>1, <2>2, Room, Sizes DEF Total
<1>7. QED BY <1>3, <1>4, <1>5, <1>6

\* A block that goes back is the pool's alone.
LEMMA GivesBack ==
  ASSUME Types, InLine, Apart, Avail(pool) # pool.num - 1, NEW b \in DOMAIN elem,
         pool' = P!Freed(pool, b), elem' = Without(b)
  PROVE  /\ pool' \in Pools /\ pool'.num = pool.num /\ Avail(pool)' = Avail(pool) + 1
         /\ DOMAIN elem' = DOMAIN elem \ {b} /\ \A e \in DOMAIN elem' : elem'[e] = elem[e]
         /\ elem' \in [DOMAIN elem' -> Elems] /\ Apart'
<1>1. pool \in Pools /\ b \in 0 .. pool.num - 1 BY OnLoan DEF Types
<1>2. /\ pool' \in Pools /\ pool'.num = pool.num
      /\ Avail(pool) \in 0 .. pool.num - 2 /\ Avail(pool') = Avail(pool) + 1
      /\ \A i \in 0 .. Avail(pool) : Spare(pool', i) = Spare(pool, i)
      /\ Spare(pool', Avail(pool')) = b
  BY <1>1, PoolTakes
<1>3. DOMAIN elem' = DOMAIN elem \ {b} /\ \A e \in DOMAIN elem' : elem'[e] = elem[e] BY DEF Without
<1>4. elem' \in [DOMAIN elem' -> Elems] BY <1>3, OnLoan DEF Without
<1>5. Apart'
  <2> DEFINE n == Avail(pool)
  <2>1. n \in Nat BY <1>2
  <2>2. \A i \in 0 .. n + 1 : Spare(pool', i) = IF i = n + 1 THEN b ELSE Spare(pool, i)
    BY <1>2, <2>1
  <2>3. \A i \in 0 .. n : Spare(pool, i) \notin DOMAIN elem /\ Spare(pool, i) # b BY DEF Apart
  <2>4. \A i, j \in 0 .. n : Spare(pool, i) = Spare(pool, j) => i = j BY DEF Apart
  <2>5. Avail(pool') = n + 1 BY <1>2
  <2> HIDE DEF n
  <2>6. \A i \in 0 .. n + 1 : i \in 0 .. n \/ i = n + 1 BY <2>1
  <2>7. \A i \in 0 .. n + 1 : Spare(pool', i) \notin DOMAIN elem' BY <1>3, <2>2, <2>3, <2>6
  <2>8. \A i, j \in 0 .. n + 1 : Spare(pool', i) = Spare(pool', j) => i = j
    BY <2>2, <2>3, <2>4, <2>6
  <2>9. QED BY <2>5, <2>7, <2>8 DEF Apart
<1>6. QED BY <1>2, <1>3, <1>4, <1>5

LEMMA BlocksPushFails ==
  ASSUME BlocksInv, PushFails
  PROVE  BlocksInv'
<1> USE DEF BlocksInv
<1>1. main.at = "push" /\ UNCHANGED <<ring, tx, face, next, lapped, sent, got>> BY DEF PushFails
<1>2. CASE main.tries + 1 < PushTries
  <2>1. main' = [main EXCEPT !.tries = @ + 1] /\ UNCHANGED <<pool, elem>> BY <1>2 DEF PushFails
  <2>2. main'.at = main.at /\ main'.block = main.block BY <2>1 DEF Types
  <2>3. TxBlock' = TxBlock BY <1>1 DEF TxBlock
  <2>4. /\ Used' = Used /\ \A k : Place(k)' = Place(k)
        /\ Waiting' = Waiting /\ Working' = Working /\ Count(ring)' = Count(ring)
    BY <1>1, <2>2, <2>3, SameLine
  <2>5. Types' BY <1>1, <2>1 DEF Types, R!Behind
  <2>6. QED BY <1>1, <2>1, <2>4, <2>5 DEF InLine, Apart, Total
<1>3. CASE ~(main.tries + 1 < PushTries)
  <2>1. main' = Ready /\ pool' = P!Freed(pool, main.block) /\ elem' = Without(main.block)
    BY <1>3 DEF PushFails
  <2>2. main'.at = "idle" BY <2>1 DEF Ready
  <2>3. /\ Used' = Used \ {Count(ring)} /\ \A k \in Used' : Place(k)' = Place(k)
        /\ Count(ring) \in Used /\ Place(Count(ring)) = main.block
        /\ Count(ring)' = Count(ring) /\ Waiting = 1 /\ Waiting' = 0 /\ Working' = Working
    BY <1>1, <2>2, DropLine
  <2>4. main.block \in DOMAIN elem BY <2>3 DEF InLine
  <2>5. Avail(pool) # pool.num - 1 BY <2>3, Room
  <2>6. /\ pool' \in Pools /\ pool'.num = pool.num /\ Avail(pool)' = Avail(pool) + 1
        /\ DOMAIN elem' = DOMAIN elem \ {main.block} /\ \A e \in DOMAIN elem' : elem'[e] = elem[e]
        /\ elem' \in [DOMAIN elem' -> Elems] /\ Apart'
    BY <2>1, <2>4, <2>5, GivesBack
  <2>7. Types' BY <1>1, <2>1, <2>6 DEF Types, Ready, NoBlock, R!Behind
  <2>8. InLine'
    <3>1. ASSUME NEW k \in Used'
          PROVE  k + 0 \in Used /\ Place(k)' = Place(k + 0) /\ Place(k)' \in DOMAIN elem'
      <4>1. k \in Used /\ k # Count(ring) /\ Place(k)' = Place(k) BY <2>3
      <4>2. k + 0 = k BY <4>1 DEF Used
      <4>3. Place(k) # main.block BY <2>3, <4>1, OnLoan
      <4>4. Place(k) \in DOMAIN elem BY <4>1 DEF InLine
      <4>5. QED BY <2>6, <4>1, <4>2, <4>3, <4>4
    <3>2. sent' \in Nat /\ sent <= sent' BY <1>1 DEF Types
    <3>3. QED BY <2>6, <3>1, <3>2, LineKept
  <2>9. Total'
    <3>1. Working \in {0, 1} BY DEF Working
    <3>2. QED BY <2>3, <2>6, <3>1, Room, Sizes DEF Total
  <2>10. QED BY <2>6, <2>7, <2>8, <2>9
<1>4. QED BY <1>2, <1>3

LEMMA BlocksFree ==
  ASSUME BlocksInv, FreeBlock
  PROVE  BlocksInv'
<1> USE DEF BlocksInv
<1>1. /\ tx.at = "face" /\ pool' = P!Freed(pool, tx.block) /\ elem' = Without(tx.block) /\ tx' = Idle
      /\ UNCHANGED <<ring, main, face, next, lapped, sent, got>>
  BY DEF FreeBlock
<1>2. /\ Used' = Used \ {-1} /\ \A k \in Used' : Place(k)' = Place(k)
      /\ -1 \in Used /\ Place(-1) = tx.block
      /\ Count(ring)' = Count(ring) /\ Waiting' = Waiting /\ Working = 1 /\ Working' = 0
  BY FreeLine
<1>3. tx.block \in DOMAIN elem BY <1>2 DEF InLine
<1>4. Avail(pool) # pool.num - 1 BY <1>2, Room
<1>5. /\ pool' \in Pools /\ pool'.num = pool.num /\ Avail(pool)' = Avail(pool) + 1
      /\ DOMAIN elem' = DOMAIN elem \ {tx.block} /\ \A e \in DOMAIN elem' : elem'[e] = elem[e]
      /\ elem' \in [DOMAIN elem' -> Elems] /\ Apart'
  BY <1>1, <1>3, <1>4, GivesBack
<1>6. Types'
  <2>1. 0 \in 0 .. Slots - 1 BY Sizes
  <2>2. Idle \in TxRecs /\ 1 <= Idle.i /\ Idle.at = "pop" BY <2>1 DEF Idle, NoBlock, TxRecs
  <2>3. QED BY <1>1, <1>5, <2>2 DEF Types
<1>7. InLine'
  <2>1. ASSUME NEW k \in Used'
        PROVE  k + 0 \in Used /\ Place(k)' = Place(k + 0) /\ Place(k)' \in DOMAIN elem'
    <3>1. k \in Used /\ k # -1 /\ Place(k)' = Place(k) BY <1>2
    <3>2. k + 0 = k BY <3>1 DEF Used
    <3>3. Place(k) # tx.block BY <1>2, <3>1, OnLoan
    <3>4. Place(k) \in DOMAIN elem BY <3>1 DEF InLine
    <3>5. QED BY <1>5, <3>1, <3>2, <3>3, <3>4
  <2>2. sent' \in Nat /\ sent <= sent' BY <1>1 DEF Types
  <2>3. QED BY <1>5, <2>1, <2>2, LineKept
<1>8. Total'
  <2>1. Waiting \in {0, 1} BY DEF Waiting
  <2>2. QED BY <1>2, <1>5, <2>1, Room, Sizes DEF Total
<1>9. QED BY <1>5, <1>6, <1>7, <1>8

\* A frame for which the pool has a block joins the line at its end.
LEMMA BlocksSend ==
  ASSUME BlocksInv, NEW fs \in Lists, \A j \in DOMAIN fs : Active(fs[j]), SendFrame(fs)
  PROVE  /\ BlocksInv'
         /\ P!Source(pool).num > MemoryMax \/ P!Allocated(pool) \notin DOMAIN elem
<1> USE DEF BlocksInv
<1>1. /\ main.at = "idle" /\ sent' = sent + 1 /\ UNCHANGED <<ring, tx, face, next, lapped, got>>
  BY DEF SendFrame
<1>2. sent \in Nat /\ sent' \in Nat /\ sent <= sent' /\ sent' <= FrameMax
  <2>1. sent \in Nat /\ sent < FrameMax /\ FrameMax \in Nat BY TransmitAssumption DEF Types, SendFrame
  <2>2. QED BY <1>1, <2>1
<1>3. CASE P!Source(pool).num > MemoryMax
  <2>1. UNCHANGED <<pool, elem, main>> BY <1>3 DEF SendFrame
  <2>2. TxBlock' = TxBlock BY <1>1 DEF TxBlock
  <2>3. /\ Used' = Used /\ \A k : Place(k)' = Place(k)
        /\ Waiting' = Waiting /\ Working' = Working /\ Count(ring)' = Count(ring)
    BY <1>1, <2>1, <2>2, SameLine
  <2>4. Types' BY <1>1, <1>2, <2>1 DEF Types, R!Behind
  <2>5. InLine'
    <3>1. \A k \in Used : k \in Int /\ k + 0 = k BY DEF Used
    <3>2. \A k \in Used' : k + 0 \in Used /\ Place(k)' = Place(k + 0) /\ Place(k)' \in DOMAIN elem'
      BY <2>1, <2>3, <3>1 DEF InLine
    <3>3. QED BY <1>2, <2>1, <3>2, LineKept
  <2>6. QED BY <1>3, <2>1, <2>3, <2>4, <2>5 DEF Apart, Total
<1>4. CASE ~(P!Source(pool).num > MemoryMax)
  <2> DEFINE b == P!Allocated(pool)
             new == [frame |-> sent + 1, faces |-> fs, to |-> {face[f] : f \in Range(fs)}]
  <2>1. /\ pool' = P!AfterAlloc(pool) /\ main' = [at |-> "push", block |-> b, tries |-> 0]
        /\ elem' = [c \in DOMAIN elem \cup {b} |-> IF c # b THEN elem[c] ELSE new]
    BY <1>4 DEF SendFrame
  <2>2. main'.at = "push" /\ main'.block = b BY <2>1
  <2>3. /\ Used' = Used \cup {Count(ring)} /\ \A k \in Used : Place(k)' = Place(k)
        /\ \A k \in Used : k < Count(ring)
        /\ Place(Count(ring))' = b
        /\ Count(ring)' = Count(ring) /\ Waiting = 0 /\ Waiting' = 1 /\ Working' = Working
    BY <1>1, <2>2, SendLine
  <2>4. /\ pool' \in Pools /\ b \in 0 .. pool'.num - 1 /\ b \notin DOMAIN elem
        /\ pool.num <= pool'.num /\ Apart' /\ Total'
    <3>1. pool \in Pools /\ Avail(pool) \in Nat /\ pool.num \in Nat BY Room DEF Types
    <3>2. Working \in {0, 1} BY DEF Working
    <3>3. CASE ~P!LooksEmpty(pool)
      <4>1. /\ pool' \in Pools /\ pool'.num = pool.num
            /\ Avail(pool) \in 1 .. pool.num - 1 /\ Avail(pool') = Avail(pool) - 1
            /\ \A i \in 0 .. Avail(pool') : Spare(pool', i) = Spare(pool, i + 1)
            /\ b = Spare(pool, 0)
        BY <2>1, <3>1, <3>3, PoolGives
      <4> DEFINE n == Avail(pool)
      <4>2. n \in Nat /\ n >= 1 /\ Avail(pool') = n - 1 BY <4>1, <3>1
      <4>3. \A i \in 0 .. n : Spare(pool, i) \notin DOMAIN elem BY DEF Apart
      <4>4. \A i, j \in 0 .. n : Spare(pool, i) = Spare(pool, j) => i = j BY DEF Apart
      <4>5. Total' BY <2>3, <3>1, <3>2, <4>1, Room, Sizes DEF Total
      <4> HIDE DEF n, b
      <4>6. \A i \in 0 .. n - 1 : i + 1 \in 0 .. n /\ i + 1 # 0 /\ Spare(pool', i) = Spare(pool, i + 1)
        BY <4>1, <4>2
      <4>7. 0 \in 0 .. n BY <4>2
      <4>8. b \notin DOMAIN elem BY <4>1, <4>3, <4>7
      <4>9. \A i \in 0 .. n - 1 : Spare(pool', i) \notin DOMAIN elem' BY <2>1, <4>1, <4>3, <4>4, <4>6, <4>7
      <4>10. ASSUME NEW i \in 0 .. n - 1, NEW j \in 0 .. n - 1, Spare(pool', i) = Spare(pool', j)
             PROVE  i = j
        <5>1. i + 1 = j + 1 BY <4>4, <4>6, <4>10
        <5>2. QED BY <5>1
      <4>11. Apart' BY <4>2, <4>9, <4>10 DEF Apart
      <4>12. b \in 0 .. pool'.num - 1
        <5>1. PICK m \in {Increment, 2 * Increment} : pool \in PoolOf(m) BY <3>1 DEF Pools
        <5>2. PICK h \in 0 .. m - 1 : pool.num = m /\ pool.head = h BY <5>1 DEF PoolOf
        <5>3. (h + 0) % m \in 0 .. m - 1
          <6>1. h + 0 \in Int /\ m \in Nat /\ m > 0 BY Sizes
          <6>2. QED BY <6>1, Rest, Zenon
        <5>4. Spare(pool, 0) \in 0 .. m - 1 BY <5>1, <5>2, <5>3 DEF Spare, PoolOf
        <5>5. QED BY <4>1, <5>2, <5>4
      <4>13. QED BY <3>1, <4>1, <4>5, <4>8, <4>11, <4>12
    <3>4. CASE P!LooksEmpty(pool)
      <4>1. Avail(pool) = 0
        <5>1. PICK m \in {Increment, 2 * Increment} : pool \in PoolOf(m) BY <3>1 DEF Pools
        <5>2. PICK h \in 0 .. m - 1 : pool.num = m /\ pool.head = h /\ pool.tail = h
          BY <3>4, <5>1 DEF PoolOf, P!LooksEmpty
        <5>3. m \in Nat /\ m > 0 BY Sizes
        <5>4. (h - h) % m = 0
          <6>1. h - h = 0 OBVIOUS
          <6>2. 0 % m = 0 BY <5>3
          <6>3. QED BY <6>1, <6>2
        <5>5. QED BY <5>2, <5>4 DEF Avail
      <4>2. pool.num = Increment BY <2>3, <4>1, Room
      <4>3. /\ pool' \in Pools /\ pool'.num = 2 * Increment /\ Avail(pool') = Increment - 2
            /\ \A i \in 0 .. Avail(pool') : Spare(pool', i) = Increment + 1 + i
            /\ b = Increment
        BY <2>1, <3>1, <3>4, <4>2, PoolGrows
      <4>4. Total' BY <2>3, <3>1, <3>2, <4>1, <4>2, <4>3, Room, Sizes DEF Total
      <4>5. \A c \in DOMAIN elem : c \in 0 .. Increment - 1 BY <4>2, OnLoan
      <4>6. Increment \in Nat /\ Increment >= 4 BY Sizes
      <4>7. b \notin DOMAIN elem /\ b \in 0 .. pool'.num - 1 BY <4>3, <4>5, <4>6
      <4>8. Apart'
        <5> DEFINE N == Increment
        <5>1. \A c \in DOMAIN elem' : c \in 0 .. N BY <2>1, <4>3, <4>5, <4>6
        <5>2. \A i \in 0 .. N - 2 : Spare(pool', i) = N + 1 + i /\ i \in Nat BY <4>3
        <5>3. \A i \in 0 .. N - 2 : Spare(pool', i) \notin DOMAIN elem' BY <4>6, <5>1, <5>2
        <5>4. \A i, j \in 0 .. N - 2 : Spare(pool', i) = Spare(pool', j) => i = j BY <4>6, <5>2
        <5>5. QED BY <4>3, <5>3, <5>4 DEF Apart
      <4>9. QED BY <4>2, <4>3, <4>4, <4>6, <4>7, <4>8
    <3>5. QED BY <3>3, <3>4
  <2> HIDE DEF b
  <2>5. new \in Elems
    <3>1. \A j \in DOMAIN fs : fs[j] \in FaceIds
      <4>1. fs \in Seq(FaceIds) BY TransmitAssumption
      <4>2. QED BY <4>1
    <3>2. \A j \in DOMAIN fs : face[fs[j]] \in Peers BY <3>1 DEF Types, Active
    <3>3. {face[f] : f \in Range(fs)} \subseteq Peers BY <3>2 DEF Range
    <3>4. QED BY <1>2, <3>3 DEF Elems
  <2>6. /\ DOMAIN elem' = DOMAIN elem \cup {b} /\ elem'[b] = new
        /\ \A c \in DOMAIN elem : elem'[c] = elem[c]
    BY <2>1, <2>4
  <2>7. Types'
    <3>1. \A c \in DOMAIN elem' : elem'[c] \in Elems BY <2>5, <2>6, OnLoan
    <3>2. elem' \in [DOMAIN elem' -> Elems] BY <2>1, <3>1
    <3>3. pool.num \in Nat /\ pool'.num \in Int BY <2>4, Room, Sizes DEF Pools, PoolOf
    <3>4. DOMAIN elem' \subseteq 0 .. pool'.num - 1 BY <2>4, <2>6, <3>3, OnLoan
    <3>5. b \in Int BY <2>4
    <3>6. main' \in [at : {"idle", "push"}, block : Int, tries : Nat] BY <2>1, <3>5
    <3>7. QED BY <1>1, <1>2, <2>4, <3>2, <3>4, <3>6 DEF Types, R!Behind
  <2>8. InLine'
    <3>1. new.frame = sent + 1 OBVIOUS
    <3> HIDE DEF new
    <3>2. \A k \in Used : Place(k)' \in DOMAIN elem /\ Place(k)' = Place(k) BY <2>3 DEF InLine
    <3>3. \A k \in Used' : Place(k)' \in DOMAIN elem' BY <2>3, <2>6, <3>2
    <3>4. \A c \in DOMAIN elem' : elem'[c].frame <= sent' /\ 1 <= elem'[c].frame
      <4>1. \A c \in DOMAIN elem : elem[c].frame \in Nat /\ elem[c].frame <= sent /\ 1 <= elem[c].frame
        BY OnLoan DEF InLine
      <4>2. \A c \in DOMAIN elem : elem[c].frame <= sent + 1 BY <1>2, <4>1
      <4>3. QED BY <1>1, <1>2, <2>6, <3>1, <4>1, <4>2
    <3>5. ASSUME NEW k \in Used', NEW l \in Used', k < l
          PROVE  elem'[Place(k)'].frame < elem'[Place(l)'].frame
      <4>1. Count(ring) \in Int /\ k \in Int /\ l \in Int BY <2>3, Room DEF Used
      <4>2. k \in Used BY <2>3, <3>5, <4>1
      <4>3. CASE l \in Used BY <2>6, <3>2, <3>5, <4>2, <4>3 DEF InLine
      <4>4. CASE l = Count(ring)
        <5>1. elem'[Place(l)'].frame = sent + 1 BY <2>3, <2>6, <3>1, <4>4
        <5>2. elem'[Place(k)'].frame \in Nat /\ elem'[Place(k)'].frame <= sent
          BY <2>6, <3>2, <4>2, OnLoan DEF InLine
        <5>3. QED BY <1>2, <5>1, <5>2
      <4>5. QED BY <2>3, <4>3, <4>4
    <3>6. QED BY <3>3, <3>4, <3>5 DEF InLine
  <2>9. QED BY <2>4, <2>7, <2>8 DEF b
<1>5. QED BY <1>3, <1>4

\* A set of numbers that is not empty has a least one.
LEMMA LeastNat ==
  ASSUME NEW T, T \subseteq Nat, T # {}
  PROVE  \E x \in T : \A y \in T : x <= y
<1> DEFINE Less == OpToRel(<, Nat)
<1>1. IsWellFoundedOn(Less, Nat) BY NatLessThanWellFounded, Zenon
<1>2. \A x, y \in Nat : x < y => <<x, y>> \in Less BY Zenon DEF OpToRel
<1> HIDE DEF Less
<1>3. PICK x \in T : \A y \in T : ~(<<y, x>> \in Less) BY <1>1, WFMin
<1>4. \A y \in T : ~(y < x) BY <1>2, <1>3
<1>5. QED BY <1>4

\* A Face-ID that is free.
LEMMA FreeFace ==
  ASSUME Ahead \cup Before # {}
  PROVE  /\ NextFace \in FaceIds /\ ~Active(NextFace)
         /\ Ahead # {} => NextFace \in Ahead
<1> DEFINE T == IF Ahead # {} THEN Ahead ELSE Before
<1>1. T # {} /\ T \subseteq FaceIds /\ T \subseteq Nat BY DEF Ahead, Before, FaceIds
<1>2. \E x \in T : \A y \in T : x <= y BY <1>1, LeastNat
<1>3. NextFace \in T BY <1>2 DEF NextFace, Min
<1>4. QED BY <1>3 DEF Ahead, Before

\* The places a step of the transmit thread may go to.
LEMMA TxMoves ==
  ASSUME tx \in TxRecs, 1 <= tx.i
  PROVE  /\ NextInList \in TxRecs /\ NextInList.at = "face" /\ NextInList.block = tx.block
         /\ NextInList.i = tx.i + 1 /\ 1 <= NextInList.i
         /\ LET r == [tx EXCEPT !.at = "send"] IN
            r \in TxRecs /\ r.at = "send" /\ r.block = tx.block /\ r.i = tx.i
         /\ LET r == [tx EXCEPT !.at = "rest", !.piece = 2, !.tries = 1] IN
            r \in TxRecs /\ r.at = "rest" /\ r.block = tx.block /\ r.i = tx.i /\ r.piece = 2
         /\ LET r == [tx EXCEPT !.piece = @ + 1, !.tries = @ + 1] IN
            r \in TxRecs /\ r.at = tx.at /\ r.block = tx.block /\ r.i = tx.i /\ r.piece = tx.piece + 1
         /\ LET r == [tx EXCEPT !.tries = @ + 1] IN
            r \in TxRecs /\ r.at = tx.at /\ r.block = tx.block /\ r.i = tx.i /\ r.piece = tx.piece
         /\ \A b \in Int : LET r == [Idle EXCEPT !.at = "face", !.block = b] IN
              r \in TxRecs /\ r.at = "face" /\ r.block = b /\ r.i = 1
<1> DEFINE i == tx.i + 1
           p == tx.piece + 1
           t == tx.tries + 1
<1>1. i \in Nat /\ p \in Nat /\ t \in Nat /\ 1 <= i BY DEF TxRecs
<1>2. NextInList = [tx EXCEPT !.at = "face", !.i = i, !.piece = 1, !.tries = 0] BY DEF NextInList
<1> HIDE DEF i, p, t
<1>3. /\ NextInList \in TxRecs /\ NextInList.at = "face" /\ NextInList.block = tx.block
      /\ NextInList.i = i
  <2>1. NextInList \in TxRecs BY <1>1, <1>2 DEF TxRecs
  <2>2. NextInList.at = "face" /\ NextInList.block = tx.block BY <1>2 DEF TxRecs
  <2>3. NextInList.i = i BY <1>2 DEF TxRecs
  <2>4. QED BY <2>1, <2>2, <2>3
<1>4. LET r == [tx EXCEPT !.at = "send"] IN
      r \in TxRecs /\ r.at = "send" /\ r.block = tx.block /\ r.i = tx.i
  BY DEF TxRecs
<1>5. LET r == [tx EXCEPT !.at = "rest", !.piece = 2, !.tries = 1] IN
      r \in TxRecs /\ r.at = "rest" /\ r.block = tx.block /\ r.i = tx.i /\ r.piece = 2
  BY DEF TxRecs
<1>6. LET r == [tx EXCEPT !.piece = p, !.tries = t] IN
      r \in TxRecs /\ r.at = tx.at /\ r.block = tx.block /\ r.i = tx.i /\ r.piece = p
  BY <1>1 DEF TxRecs
<1>7. LET r == [tx EXCEPT !.tries = t] IN
      r \in TxRecs /\ r.at = tx.at /\ r.block = tx.block /\ r.i = tx.i /\ r.piece = tx.piece
  BY <1>1 DEF TxRecs
<1>8. ASSUME NEW b \in Int
      PROVE  LET r == [Idle EXCEPT !.at = "face", !.block = b] IN
             r \in TxRecs /\ r.at = "face" /\ r.block = b /\ r.i = 1
  <2> DEFINE r == [Idle EXCEPT !.at = "face", !.block = b]
  <2>1. Idle \in TxRecs
    <3>1. 0 \in 0 .. Slots - 1 BY Sizes
    <3>2. QED BY <3>1 DEF TxRecs, Idle, NoBlock
  <2>2. r.at = "face" /\ r.block = b BY DEF Idle
  <2>3. r.i = 1 BY DEF Idle
  <2>4. r \in TxRecs BY <2>1 DEF TxRecs
  <2>5. QED BY <2>2, <2>3, <2>4
<1>9. QED BY <1>1, <1>3, <1>4, <1>5, <1>6, <1>7, <1>8 DEF i, p, t

\* The steps that leave the blocks where they are.
LEMMA QuietSteps ==
  ASSUME BlocksInv,
         \/ ReadSlot \/ CheckActive \/ FirstWrite \/ RestWrite
         \/ (\E k \in Peers : OpenFace(k)) \/ (\E f \in FaceIds : CloseFace(f))
         \/ UNCHANGED vars
  PROVE  /\ UNCHANGED <<pool, ring, elem, main, sent>>
         /\ tx' \in TxRecs /\ 1 <= tx'.i /\ (tx'.at = "read" => tx' = tx)
         /\ ((tx.at = "pop") <=> (tx.at' = "pop")) /\ TxBlock' = TxBlock
         /\ face' \in [FaceIds -> Peers \cup {NoPeer}] /\ next' \in 1 .. FaceMax + 1
         /\ lapped' \in BOOLEAN /\ got' \in [Peers -> Nat \X Nat]
<1> USE DEF BlocksInv
<1>1. UNCHANGED <<pool, ring, elem, main, sent>>
  BY DEF ReadSlot, CheckActive, FirstWrite, RestWrite, OpenFace, CloseFace, vars
<1>2. tx \in TxRecs /\ 1 <= tx.i /\ tx.i \in Nat BY DEF Types, TxRecs
<1>3. ASSUME NEW n \in Nat, Sending, Reach(n) PROVE got' \in [Peers -> Nat \X Nat]
  <2>1. Frame \in Nat BY <1>3, InHand
  <2>2. QED BY <1>3, <2>1 DEF Types, Reach
<1>4. /\ tx' \in TxRecs /\ 1 <= tx'.i /\ (tx'.at = "read" => tx' = tx)
      /\ ((tx.at = "pop") <=> (tx.at' = "pop")) /\ TxBlock' = TxBlock
      /\ face' \in [FaceIds -> Peers \cup {NoPeer}] /\ next' \in 1 .. FaceMax + 1
      /\ lapped' \in BOOLEAN /\ got' \in [Peers -> Nat \X Nat]
  <2>1. CASE ReadSlot
    <3>1. tx.at = "read" /\ tx' = [Idle EXCEPT !.at = "face", !.block = ring.body[tx.slot]]
      BY <2>1 DEF ReadSlot
    <3>2. UNCHANGED <<face, next, lapped, got>> BY <2>1 DEF ReadSlot
    <3>3. tx.slot \in 0 .. Slots - 1 /\ ring \in Rings BY DEF Types, TxRecs
    <3>4. ring.body[tx.slot] \in Int BY <3>3 DEF Rings
    <3>5. tx' \in TxRecs /\ tx'.at = "face" /\ tx'.block = ring.body[tx.slot] /\ tx'.i = 1
      BY <1>2, <3>1, <3>4, TxMoves
    <3>6. TxBlock' = TxBlock BY <3>1, <3>5 DEF TxBlock
    <3>7. QED BY <3>1, <3>2, <3>5, <3>6 DEF Types
  <2>2. CASE CheckActive
    <3>1. tx.at = "face" /\ UNCHANGED <<face, next, lapped, got>> BY <2>2 DEF CheckActive, MoreFaces
    <3>2. tx' = [tx EXCEPT !.at = "send"] \/ tx' = NextInList BY <2>2 DEF CheckActive
    <3>3. tx' \in TxRecs /\ tx'.at \in {"face", "send"} /\ tx'.block = tx.block /\ 1 <= tx'.i
      BY <1>2, <3>2, TxMoves, ZenonT(60)
    <3>4. TxBlock' = TxBlock BY <3>1, <3>3 DEF TxBlock
    <3>5. QED BY <3>1, <3>3, <3>4 DEF Types
  <2>3. CASE FirstWrite
    <3>1. tx.at = "send" /\ UNCHANGED <<face, next, lapped>> BY <2>3 DEF FirstWrite
    <3>2. tx' = [tx EXCEPT !.at = "rest", !.piece = 2, !.tries = 1] \/ tx' = NextInList
      BY <2>3 DEF FirstWrite
    <3>3. tx' \in TxRecs /\ tx'.at \in {"face", "rest"} /\ tx'.block = tx.block /\ 1 <= tx'.i
      BY <1>2, <3>2, TxMoves, ZenonT(60)
    <3>4. TxBlock' = TxBlock BY <3>1, <3>3 DEF TxBlock
    <3>5. got' \in [Peers -> Nat \X Nat]
      <4>1. CASE UNCHANGED got BY <4>1 DEF Types
      <4>2. CASE Reach(1) BY <1>3, <3>1, <4>2 DEF Sending
      <4>3. QED BY <2>3, <4>1, <4>2 DEF FirstWrite
    <3>6. QED BY <3>1, <3>3, <3>4, <3>5 DEF Types
  <2>4. CASE RestWrite
    <3>1. tx.at = "rest" /\ UNCHANGED <<face, next, lapped>> BY <2>4 DEF RestWrite
    <3>2. \/ tx' = NextInList \/ tx' = [tx EXCEPT !.piece = @ + 1, !.tries = @ + 1]
          \/ tx' = [tx EXCEPT !.tries = @ + 1]
      BY <2>4 DEF RestWrite
    <3>3. tx' \in TxRecs /\ tx'.at \in {"face", "rest"} /\ tx'.block = tx.block /\ 1 <= tx'.i
      BY <1>2, <3>1, <3>2, TxMoves, ZenonT(60)
    <3>4. TxBlock' = TxBlock BY <3>1, <3>3 DEF TxBlock
    <3>5. got' \in [Peers -> Nat \X Nat]
      <4>1. CASE UNCHANGED got BY <4>1 DEF Types
      <4>2. CASE Reach(tx.piece)
        <5>1. tx.piece \in Nat BY DEF Types, TxRecs
        <5>2. QED BY <1>3, <3>1, <4>2, <5>1 DEF Sending
      <4>3. QED BY <2>4, <4>1, <4>2 DEF RestWrite
    <3>6. QED BY <3>1, <3>3, <3>4, <3>5 DEF Types
  <2>5. CASE \E k \in Peers : OpenFace(k)
    <3>1. PICK k \in Peers : OpenFace(k) BY <2>5
    <3>2. /\ Ahead \cup Before # {} /\ face' = [face EXCEPT ![NextFace] = k] /\ next' = NextFace + 1
          /\ lapped' = (lapped \/ Ahead = {}) /\ UNCHANGED <<tx, got>>
      BY <3>1 DEF OpenFace
    <3>3. NextFace \in FaceIds BY <3>2, FreeFace
    <3>4. face' \in [FaceIds -> Peers \cup {NoPeer}] BY <3>2 DEF Types
    <3>5. next' \in 1 .. FaceMax + 1 BY <3>2, <3>3, TransmitAssumption DEF FaceIds
    <3>6. TxBlock' = TxBlock BY <1>1, <3>2 DEF TxBlock
    <3>7. QED BY <1>2, <3>2, <3>4, <3>5, <3>6 DEF Types
  <2>6. CASE \E f \in FaceIds : CloseFace(f)
    <3>1. PICK f \in FaceIds : CloseFace(f) BY <2>6
    <3>2. face' = [face EXCEPT ![f] = NoPeer] /\ UNCHANGED <<tx, next, lapped, got>> BY <3>1 DEF CloseFace
    <3>3. TxBlock' = TxBlock BY <1>1, <3>2 DEF TxBlock
    <3>4. QED BY <1>2, <3>2, <3>3 DEF Types
  <2>7. CASE UNCHANGED vars
    <3>1. UNCHANGED <<tx, face, next, lapped, got>> BY <2>7 DEF vars
    <3>2. TxBlock' = TxBlock BY <1>1, <3>1 DEF TxBlock
    <3>3. QED BY <1>2, <3>1, <3>2 DEF Types
  <2>8. QED BY <2>1, <2>2, <2>3, <2>4, <2>5, <2>6, <2>7
<1>5. QED BY <1>1, <1>4

LEMMA BlocksQuiet ==
  ASSUME BlocksInv,
         \/ ReadSlot \/ CheckActive \/ FirstWrite \/ RestWrite
         \/ (\E k \in Peers : OpenFace(k)) \/ (\E f \in FaceIds : CloseFace(f))
         \/ UNCHANGED vars
  PROVE  BlocksInv'
<1> USE DEF BlocksInv
<1>1. /\ UNCHANGED <<pool, ring, elem, main, sent>>
      /\ tx' \in TxRecs /\ 1 <= tx'.i /\ (tx'.at = "read" => tx' = tx)
      /\ ((tx.at = "pop") <=> (tx.at' = "pop")) /\ TxBlock' = TxBlock
      /\ face' \in [FaceIds -> Peers \cup {NoPeer}] /\ next' \in 1 .. FaceMax + 1
      /\ lapped' \in BOOLEAN /\ got' \in [Peers -> Nat \X Nat]
  BY QuietSteps
<1>2. Types' BY <1>1 DEF Types, R!Behind
<1>3. /\ Used' = Used /\ \A k : Place(k)' = Place(k)
      /\ Waiting' = Waiting /\ Working' = Working /\ Count(ring)' = Count(ring)
  <2>1. ring' = ring /\ main.at' = main.at /\ main.block' = main.block BY <1>1
  <2>2. QED BY <1>1, <2>1, SameLine
<1>4. QED BY <1>1, <1>2, <1>3 DEF InLine, Apart, Total

LEMMA BlocksInit == Init => BlocksInv
<1>1. SUFFICES ASSUME Init PROVE BlocksInv OBVIOUS
<1> DEFINE N == Increment
           S == Slots
<1>2. N \in Nat /\ N >= 4 /\ S \in Nat /\ S >= 2 BY Sizes
<1>3. /\ pool = P!NewPool /\ ring = R!NewRing(NoBlock) /\ elem = [b \in {} |-> 0]
      /\ main = Ready /\ tx = Idle
  BY <1>1 DEF Init
<1>4. pool.num = N /\ pool.head = 0 /\ pool.tail = N - 1 /\ pool.free = [i \in 0 .. N - 1 |-> i]
  BY <1>3 DEF P!NewPool
<1>5. ring.top = 0 /\ ring.bottom = 0 /\ ring.body = [i \in 0 .. S - 1 |-> -1] BY <1>3 DEF R!NewRing, NoBlock
<1>6. DOMAIN elem = {} BY <1>3
<1>7. Types
  <2>1. ring \in Rings
    <3>1. 0 \in 0 .. S - 1 /\ ring.body \in [0 .. S - 1 -> Int] BY <1>2, <1>5
    <3>2. QED BY <1>3, <1>5, <3>1 DEF R!NewRing, Rings
  <2>2. pool \in Pools
    <3>1. 0 \in 0 .. N - 1 /\ N - 1 \in 0 .. N - 1 /\ pool.free \in [0 .. N - 1 -> 0 .. N - 1] BY <1>2, <1>4
    <3>2. pool \in PoolOf(N) BY <1>3, <1>4, <3>1 DEF P!NewPool, PoolOf
    <3>3. QED BY <3>2 DEF Pools
  <2>3. /\ main \in [at : {"idle", "push"}, block : Int, tries : Nat] /\ tx.at = "pop"
        /\ tx \in TxRecs /\ 1 <= tx.i
    BY <1>2, <1>3 DEF Ready, Idle, NoBlock, TxRecs
  <2>4. /\ face \in [FaceIds -> Peers \cup {NoPeer}] /\ next \in 1 .. FaceMax + 1
        /\ lapped \in BOOLEAN /\ sent \in Nat /\ sent <= FrameMax /\ got \in [Peers -> Nat \X Nat]
    <3>1. FaceMax \in Nat /\ FrameLen \in Nat /\ FrameMax \in Nat BY TransmitAssumption
    <3>2. /\ face = [f \in FaceIds |-> NoPeer] /\ next = 1 /\ lapped = FALSE /\ sent = 0
          /\ got = [k \in Peers |-> <<0, FrameLen>>]
      BY <1>1 DEF Init
    <3>3. next \in 1 .. FaceMax + 1 BY <3>1, <3>2
    <3>4. face \in [FaceIds -> Peers \cup {NoPeer}] BY <3>2
    <3>5. got \in [Peers -> Nat \X Nat] BY <3>1, <3>2
    <3>6. lapped = FALSE /\ sent = 0 BY <3>2
    <3>7. sent \in Nat /\ sent <= FrameMax BY <3>1, <3>6
    <3>8. lapped \in BOOLEAN BY <3>6, Zenon
    <3>9. QED BY <3>3, <3>4, <3>5, <3>7, <3>8
  <2>5. DOMAIN elem \subseteq 0 .. pool.num - 1 /\ elem \in [DOMAIN elem -> Elems] BY <1>3, <1>6
  <2>6. QED BY <2>1, <2>2, <2>3, <2>4, <2>5 DEF Types
<1>8. Count(ring) = 0
  <2>1. 0 % S = 0 BY <1>2
  <2>2. QED BY <1>5, <2>1 DEF Count
<1>9. main.at = "idle" /\ tx.at = "pop" BY <1>3 DEF Ready, Idle
<1>10. Used = {} BY <1>8, <1>9 DEF Used
<1>11. InLine BY <1>6, <1>10 DEF InLine
<1>12. Avail(pool) = N - 1
  <2>1. (N - 1) % N = N - 1 BY <1>2
  <2>2. QED BY <1>2, <1>4, <2>1 DEF Avail
<1>13. Apart
  <2>1. \A i \in 0 .. N - 1 : Spare(pool, i) = i
    <3> TAKE i \in 0 .. N - 1
    <3>1. 0 + i = i /\ i % N = i BY <1>2
    <3>2. QED BY <1>4, <3>1 DEF Spare
  <2>2. QED BY <1>6, <1>12, <2>1 DEF Apart
<1>14. Total BY <1>2, <1>4, <1>8, <1>9, <1>12 DEF Total, Waiting, Working
<1>15. QED BY <1>7, <1>11, <1>13, <1>14 DEF BlocksInv

LEMMA BlocksNext ==
  ASSUME BlocksInv, [Next]_vars
  PROVE  BlocksInv'
<1>1. CASE Push BY <1>1, BlocksPush
<1>2. CASE PushFails BY <1>2, BlocksPushFails
<1>3. ASSUME NEW fs \in Lists, \A i \in DOMAIN fs : Active(fs[i]), SendFrame(fs) PROVE BlocksInv'
  BY <1>3, BlocksSend
<1>4. CASE Pop BY <1>4, BlocksPop
<1>5. CASE FreeBlock BY <1>5, BlocksFree
<1>6. CASE \/ ReadSlot \/ CheckActive \/ FirstWrite \/ RestWrite
           \/ (\E k \in Peers : OpenFace(k)) \/ (\E f \in FaceIds : CloseFace(f))
           \/ UNCHANGED vars
  BY <1>6, BlocksQuiet
<1>7. QED BY <1>1, <1>2, <1>3, <1>4, <1>5, <1>6 DEF Next, MainStep, TransmitStep

LEMMA BlocksAlways == Spec => []BlocksInv
<1>1. Init => BlocksInv BY BlocksInit
<1>2. BlocksInv /\ [Next]_vars => BlocksInv' BY BlocksNext
<1>3. QED BY <1>1, <1>2, PTL DEF Spec

\* Held, place by place.
LEMMA HeldPlaces ==
  ASSUME Types
  PROVE  /\ DOMAIN Held = 1 .. Count(ring) + Waiting + Working
         /\ \A i \in DOMAIN Held :
              LET k == IF i <= Count(ring) + Waiting THEN i - 1 ELSE -1
              IN  k \in Used /\ Held[i] = Place(k)
<1> DEFINE c == Count(ring)
           A == R!Contents(ring)
           B == IF main.at = "push" THEN <<main.block>> ELSE <<>>
           C == IF tx.at = "pop" THEN <<>> ELSE <<IF tx.at = "read" THEN ring.body[tx.slot] ELSE tx.block>>
<1>1. c \in Nat BY Counted, Sizes DEF Types
<1>2. ring \in Rings /\ main.block \in Int /\ tx.block \in Int /\ tx.slot \in 0 .. Slots - 1
  BY DEF Types, TxRecs
<1>3. ring.body \in [0 .. Slots - 1 -> Int] /\ ring.top \in Int BY <1>2 DEF Rings
<1>4. A = [i \in 1 .. c |-> Item(ring, i - 1)]
  <2>1. \A i \in 1 .. c : ring.top + i - 1 = ring.top + (i - 1) BY <1>1, <1>3
  <2>2. QED BY <2>1 DEF R!Contents, Count, Item
<1>5. \A i \in 1 .. c : Item(ring, i - 1) \in Int
  <2> TAKE i \in 1 .. c
  <2>1. ring.top + (i - 1) \in Int /\ Slots \in Nat /\ Slots > 0 BY <1>1, <1>3, Sizes
  <2>2. (ring.top + (i - 1)) % Slots \in 0 .. Slots - 1 BY <2>1, Rest, Zenon
  <2>3. QED BY <1>3, <2>2 DEF Item
<1> HIDE DEF c
<1>6. A \in Seq(Int) /\ Len(A) = c /\ \A i \in 1 .. c : A[i] = Item(ring, i - 1) BY <1>1, <1>4, <1>5
<1>7. B \in Seq(Int) /\ Len(B) = Waiting /\ (Waiting = 1 => B[1] = main.block) BY <1>2 DEF Waiting
<1>8. C \in Seq(Int) /\ Len(C) = Working /\ (Working = 1 => C[1] = TxBlock)
  <2>1. TxBlock \in Int BY <1>2, <1>3 DEF TxBlock
  <2>2. C = IF tx.at = "pop" THEN <<>> ELSE <<TxBlock>> BY DEF TxBlock
  <2> HIDE DEF C
  <2>3. QED BY <2>1, <2>2 DEF Working
<1>9. Waiting \in {0, 1} /\ Working \in {0, 1} BY DEF Waiting, Working
<1>10. Held = (A \o B) \o C BY DEF Held
<1> HIDE DEF A, B, C
<1>11. /\ A \o B \in Seq(Int) /\ Len(A \o B) = c + Waiting
       /\ \A i \in 1 .. c : (A \o B)[i] = A[i]
       /\ Waiting = 1 => (A \o B)[c + 1] = B[1]
  BY <1>1, <1>6, <1>7, <1>9
<1> DEFINE D == A \o B
<1> HIDE DEF D
<1>12. /\ D \in Seq(Int) /\ Len(D) = c + Waiting /\ \A i \in 1 .. c : D[i] = A[i]
       /\ Waiting = 1 => D[c + 1] = B[1]
  BY <1>11 DEF D
<1>13. /\ DOMAIN (D \o C) = 1 .. c + Waiting + Working
       /\ \A i \in 1 .. c + Waiting : (D \o C)[i] = D[i]
       /\ Working = 1 => (D \o C)[c + Waiting + 1] = C[1]
  BY <1>1, <1>8, <1>9, <1>12
<1>14. Held = D \o C BY <1>10 DEF D
<1>15. ASSUME NEW i \in DOMAIN Held
       PROVE  LET k == IF i <= c + Waiting THEN i - 1 ELSE -1 IN k \in Used /\ Held[i] = Place(k)
  <2>1. i \in 1 .. c + Waiting + Working BY <1>13, <1>14
  <2>2. CASE i \in 1 .. c
    <3>1. Held[i] = Item(ring, i - 1) BY <1>1, <1>6, <1>9, <1>12, <1>13, <1>14, <2>2
    <3>2. i - 1 \in Used BY <1>1, <2>2 DEF Used, c
    <3>3. Place(i - 1) = Item(ring, i - 1) BY <1>1, <2>2 DEF Place, c
    <3>4. i <= c + Waiting BY <1>1, <1>9, <2>2
    <3>5. QED BY <3>1, <3>2, <3>3, <3>4
  <2>3. CASE Waiting = 1 /\ i = c + 1
    <3>1. Held[i] = main.block BY <1>1, <1>7, <1>12, <1>13, <1>14, <2>3
    <3>2. c \in Used BY <1>1, <2>3 DEF Used, c, Waiting
    <3>3. Place(c) = main.block BY <1>1 DEF Place, c
    <3>4. i <= c + Waiting /\ i - 1 = c BY <1>1, <2>3
    <3>5. QED BY <3>1, <3>2, <3>3, <3>4
  <2>4. CASE Working = 1 /\ i = c + Waiting + 1
    <3>1. Held[i] = TxBlock BY <1>8, <1>13, <1>14, <2>4
    <3>2. -1 \in Used BY <1>1, <2>4 DEF Used, Working, c
    <3>3. Place(-1) = TxBlock BY DEF Place
    <3>4. ~(i <= c + Waiting) BY <1>1, <1>9, <2>4
    <3>5. QED BY <3>1, <3>2, <3>3, <3>4
  <2>5. QED BY <1>1, <1>9, <2>1, <2>2, <2>3, <2>4
<1>16. QED BY <1>13, <1>14, <1>15 DEF c

\* No block has two holders, and none that is held is the pool's to give
\* (cef_mpool_alloc, cef_mpool_free, cef_rngque_push, cef_rngque_pop).
LEMMA BlocksExclusive == BlocksInv => Exclusive
<1>1. SUFFICES ASSUME BlocksInv PROVE Exclusive OBVIOUS
<1> USE <1>1 DEF BlocksInv
<1> DEFINE c == Count(ring)
           at(i) == IF i <= c + Waiting THEN i - 1 ELSE -1
<1>2. DOMAIN Held = 1 .. c + Waiting + Working /\ \A i \in DOMAIN Held : at(i) \in Used /\ Held[i] = Place(at(i))
  BY HeldPlaces
<1>3. c \in Nat /\ Waiting \in {0, 1} /\ Working \in {0, 1}
  BY Counted, Sizes DEF Types, Waiting, Working
<1> HIDE DEF c
<1>4. \A i, j \in DOMAIN Held : at(i) = at(j) => i = j BY <1>2, <1>3
<1> HIDE DEF at
<1>5. IsInjective(Held)
  <2>1. \A i, j \in DOMAIN Held : Held[i] = Held[j] => i = j BY <1>2, <1>4, OnLoan
  <2>2. QED BY <2>1 DEF IsInjective
<1>6. \A i \in DOMAIN Held : Held[i] \in DOMAIN elem BY <1>2 DEF InLine
<1>7. \A b \in Free : b \notin DOMAIN elem
  <2>1. Avail(pool) \in Nat BY Room
  <2>2. SUFFICES ASSUME NEW i \in 0 .. Avail(pool) - 1 PROVE Spare(pool, i) \notin DOMAIN elem
    BY DEF Free, Spare, Avail
  <2>3. i \in 0 .. Avail(pool) BY <2>1
  <2>4. QED BY <2>3 DEF Apart
<1>8. Range(Held) \cap Free = {} BY <1>6, <1>7 DEF Range
<1>9. QED BY <1>5, <1>8 DEF Exclusive

LEMMA BlocksBounded == BlocksInv => TypeOK /\ GrowsOnce
<1>1. SUFFICES ASSUME BlocksInv PROVE TypeOK /\ GrowsOnce OBVIOUS
<1>2. Types BY <1>1 DEF BlocksInv
<1>3. PICK n \in {Increment, 2 * Increment} : pool \in PoolOf(n) BY <1>2 DEF Types, Pools
<1>4. n \in Nat /\ n <= 2 * Increment BY Sizes
<1>5. pool.num = n /\ pool.head \in DOMAIN pool.free /\ pool.tail \in DOMAIN pool.free BY <1>3 DEF PoolOf
<1>6. main.at \in {"idle", "push"} /\ tx.at \in {"pop", "read", "face", "send", "rest"}
  BY <1>2 DEF Types, TxRecs
<1>7. TypeOK BY <1>2, <1>4, <1>5, <1>6 DEF Types, TypeOK
<1>8. QED BY <1>4, <1>5, <1>7 DEF GrowsOnce

\* The blocks of the pool have one holder each, in bounds, and the pool grows once at most
\* (cef_mpool_alloc, cef_mpool_handle_update), for every size of the ring and the pool.
THEOREM BlocksAreKept == Spec => []BlocksKept
<1>1. BlocksInv => BlocksKept BY BlocksExclusive, BlocksBounded DEF BlocksKept
<1>2. QED BY <1>1, BlocksAlways, PTL

-----------------------------------------------------------------------------
(* tx_que is a queue.                                                      *)

Line == [i \in 1 .. Count(ring) |-> elem[Place(i - 1)].frame]
AtWork == IF tx.at = "pop" THEN 0 ELSE elem[Place(-1)].frame

\* The refinement mapping, place by place.
Mapping ==
  /\ [i \in DOMAIN R!Contents(ring) |-> elem[R!Contents(ring)[i]].frame] = Line
  /\ (IF tx.at = "pop" THEN 0
      ELSE IF tx.at = "read" THEN elem[ring.body[tx.slot]].frame ELSE Frame) = AtWork

LEMMA Mapped == Types => Mapping
<1> SUFFICES ASSUME Types PROVE Mapping BY DEF Mapping
<1> DEFINE c == Count(ring)
<1>1. c \in Nat BY Counted, Sizes DEF Types
<1>2. ring.top \in Int BY DEF Types, Rings
<1>3. R!Contents(ring) = [i \in 1 .. c |-> Item(ring, i - 1)]
  <2>1. \A i \in 1 .. c : ring.top + i - 1 = ring.top + (i - 1) BY <1>1, <1>2
  <2>2. QED BY <2>1 DEF R!Contents, Count, Item
<1>4. \A i \in 1 .. c : Place(i - 1) = Item(ring, i - 1)
  <2> TAKE i \in 1 .. c
  <2> HIDE DEF c
  <2>1. i - 1 # -1 /\ i - 1 # c BY <1>1
  <2>2. QED BY <2>1 DEF Place, c
<1>5. QED BY <1>3, <1>4 DEF Mapping, Line, AtWork, Place, TxBlock, Frame

LEMMA LineTyped ==
  ASSUME BlocksInv
  PROVE  /\ Line \in Seq(Frames) /\ Len(Line) = Count(ring) /\ Count(ring) \in Nat
         /\ \A i \in 1 .. Count(ring) : Line[i] = elem[Place(i - 1)].frame
         /\ \A k \in Used : Place(k) \in DOMAIN elem /\ elem[Place(k)].frame \in Frames
         /\ \A k \in 0 .. Count(ring) - 1 : k \in Used
         /\ tx.at # "pop" => -1 \in Used
         /\ main.at = "push" => Count(ring) \in Used
<1> USE DEF BlocksInv
<1> DEFINE c == Count(ring)
<1>1. c \in Nat BY Counted, Sizes DEF Types
<1>2. \A k \in Used : Place(k) \in DOMAIN elem BY DEF InLine
<1>3. \A b \in DOMAIN elem : elem[b].frame \in Frames
  <2> TAKE b \in DOMAIN elem
  <2>1. elem[b].frame \in Nat /\ elem[b].frame <= sent /\ 1 <= elem[b].frame BY OnLoan DEF InLine
  <2>2. sent \in Nat /\ sent <= FrameMax /\ FrameMax \in Nat BY TransmitAssumption DEF Types
  <2>3. QED BY <2>1, <2>2 DEF Frames
<1>4. \A k \in 0 .. c - 1 : k \in Used
  <2> HIDE DEF c
  <2>1. QED BY <1>1 DEF Used, c
<1>5. (tx.at # "pop" => -1 \in Used) /\ (main.at = "push" => c \in Used)
  <2> HIDE DEF c
  <2>1. QED BY <1>1 DEF Used, c
<1> HIDE DEF c
<1>6. Line = [i \in 1 .. c |-> elem[Place(i - 1)].frame] BY DEF Line, c
<1>7. \A i \in 1 .. c : elem[Place(i - 1)].frame \in Frames
  <2> TAKE i \in 1 .. c
  <2>1. i - 1 \in 0 .. c - 1 BY <1>1
  <2>2. QED BY <1>2, <1>3, <1>4, <2>1
<1>8. Line \in Seq(Frames) /\ Len(Line) = c BY <1>1, <1>6, <1>7
<1>9. QED BY <1>1, <1>2, <1>3, <1>4, <1>5, <1>6, <1>8 DEF c

\* Where no frame of the queue moves, the queue stays.
LEMMA QueueStays ==
  ASSUME BlocksInv, Count(ring)' = Count(ring),
         \A k \in 0 .. Count(ring) - 1 : Place(k)' = Place(k) /\ elem'[Place(k)] = elem[Place(k)]
  PROVE  Line' = Line
<1> DEFINE c == Count(ring)
<1>1. c \in Nat BY LineTyped
<1>2. \A i \in 1 .. c : elem'[Place(i - 1)'].frame = elem[Place(i - 1)].frame
  <2> TAKE i \in 1 .. c
  <2> HIDE DEF c
  <2>1. i - 1 \in 0 .. c - 1 BY <1>1
  <2>2. QED BY <2>1 DEF c
<1>3. QED BY <1>2 DEF Line

LEMMA QueuePush ==
  ASSUME BlocksInv, Push
  PROVE  \E x \in Frames : Line' = Append(Line, x) /\ AtWork' = AtWork
<1> USE DEF BlocksInv
<1> DEFINE c == Count(ring)
           x == elem[Place(c)].frame
<1>1. /\ Line \in Seq(Frames) /\ Len(Line) = c /\ c \in Nat
      /\ \A i \in 1 .. c : Line[i] = elem[Place(i - 1)].frame
      /\ \A k \in Used : elem[Place(k)].frame \in Frames
      /\ \A k \in 0 .. c - 1 : k \in Used
      /\ (tx.at # "pop" => -1 \in Used) /\ (main.at = "push" => c \in Used)
  BY LineTyped
<1>2. main.at = "push" /\ elem' = elem /\ tx' = tx BY DEF Push
<1>3. Used' = Used /\ (\A k \in Used : Place(k)' = Place(k)) /\ Count(ring') = c + 1 BY PushLine
<1>4. c \in Used /\ x \in Frames BY <1>1, <1>2
<1> DEFINE A == Append(Line, x)
<1>5. A \in Seq(Frames) /\ Len(A) = c + 1 /\ A[c + 1] = x /\ \A i \in 1 .. c : A[i] = Line[i]
  BY <1>1, <1>4, AppendProperties
<1>6. A = [i \in 1 .. c + 1 |-> A[i]]
  <2> HIDE DEF A, c
  <2>1. QED BY <1>5, LenProperties
<1>7. \A i \in 1 .. c + 1 : elem'[Place(i - 1)'].frame = A[i]
  <2> TAKE i \in 1 .. c + 1
  <2> HIDE DEF c, A
  <2>1. i - 1 \in Used
    <3>1. i - 1 \in 0 .. c - 1 \/ i - 1 = c BY <1>1
    <3>2. QED BY <1>1, <1>4, <3>1
  <2>2. elem'[Place(i - 1)'].frame = elem[Place(i - 1)].frame BY <1>2, <1>3, <2>1
  <2>3. CASE i \in 1 .. c BY <1>1, <1>5, <2>2, <2>3
  <2>4. CASE i = c + 1
    <3>1. i - 1 = c BY <1>1, <2>4
    <3>2. QED BY <1>5, <2>2, <2>4, <3>1 DEF x
  <2>5. QED BY <1>1, <2>3, <2>4
<1> HIDE DEF A
<1>8. Line' = A BY <1>3, <1>6, <1>7 DEF Line
<1>9. AtWork' = AtWork BY <1>1, <1>2, <1>3 DEF AtWork
<1>10. QED BY <1>4, <1>8, <1>9 DEF A

LEMMA QueuePop ==
  ASSUME BlocksInv, Pop
  PROVE  AtWork = 0 /\ Line # <<>> /\ AtWork' = Head(Line) /\ Line' = Tail(Line)
<1> USE DEF BlocksInv
<1> DEFINE c == Count(ring)
<1>1. /\ Line \in Seq(Frames) /\ Len(Line) = c /\ c \in Nat
      /\ \A i \in 1 .. c : Line[i] = elem[Place(i - 1)].frame
  BY LineTyped
<1>2. tx.at = "pop" /\ elem' = elem /\ tx'.at = "read" /\ main' = main /\ ~R!IsEmpty(ring)
  BY DEF Pop, Types, TxRecs
<1>3. (\A k \in Used' : k + 1 \in Used /\ Place(k)' = Place(k + 1)) /\ Count(ring') = c - 1 /\ ring' \in Rings
  BY PopLine
<1>4. Count(ring') \in Nat BY <1>3, Counted, Sizes
<1> HIDE DEF c
<1>5. c >= 1 BY <1>1, <1>3, <1>4
<1>6. \A k \in -1 .. c - 2 : Place(k)' = Place(k + 1)
  <2> TAKE k \in -1 .. c - 2
  <2>1. k \in Used' BY <1>1, <1>2, <1>3, <1>5 DEF Used
  <2>2. QED BY <1>3, <2>1
<1>7. Line # <<>> BY <1>1, <1>5
<1>8. Head(Line) = Line[1] BY <1>1, <1>5
<1>9. AtWork' = Head(Line)
  <2>1. -1 \in -1 .. c - 2 /\ -1 + 1 = 0 BY <1>1, <1>5
  <2>4. Place(-1)' = Place(-1 + 1) BY <1>6, <2>1
  <2>2. Line[1] = elem[Place(0)].frame BY <1>1, <1>5
  <2>3. QED BY <1>2, <1>8, <2>1, <2>2, <2>4 DEF AtWork
<1>10. AtWork = 0 BY <1>2 DEF AtWork
<1> DEFINE T == Tail(Line)
<1>11. T \in Seq(Frames) /\ Len(T) = c - 1 /\ \A i \in 1 .. c - 1 : T[i] = Line[i + 1]
  BY <1>1, <1>7, HeadTailProperties
<1>12. T = [i \in 1 .. c - 1 |-> T[i]]
  <2> HIDE DEF T
  <2>1. QED BY <1>11, LenProperties
<1>13. \A i \in 1 .. c - 1 : elem'[Place(i - 1)'].frame = T[i]
  <2> TAKE i \in 1 .. c - 1
  <2> HIDE DEF T
  <2>1. i - 1 \in -1 .. c - 2 /\ (i - 1) + 1 = i /\ i + 1 \in 1 .. c /\ (i + 1) - 1 = i BY <1>1
  <2>2. Place(i - 1)' = Place(i) BY <1>6, <2>1
  <2>3. Line[i + 1] = elem[Place(i)].frame BY <1>1, <2>1
  <2>4. QED BY <1>2, <1>11, <2>2, <2>3
<1> HIDE DEF T
<1>14. Line' = T BY <1>3, <1>12, <1>13 DEF Line
<1>15. QED BY <1>7, <1>9, <1>10, <1>14 DEF T

\* Every other step leaves the queue alone, and the frame at work, unless it is done.
LEMMA QueueRest ==
  ASSUME BlocksInv, [Next]_vars, ~Push, ~Pop
  PROVE  Line' = Line /\ (AtWork' = AtWork \/ (AtWork # 0 /\ AtWork' = 0))
<1> USE DEF BlocksInv
<1>1. /\ \A k \in Used : Place(k) \in DOMAIN elem /\ elem[Place(k)].frame \in Frames
      /\ \A k \in 0 .. Count(ring) - 1 : k \in Used
      /\ (tx.at # "pop" => -1 \in Used) /\ Count(ring) \in Nat
  BY LineTyped
<1>2. \A k \in Used : elem[Place(k)].frame # 0 BY <1>1 DEF Frames
<1> DEFINE Same(k) == Place(k)' = Place(k) /\ elem'[Place(k)] = elem[Place(k)]
<1>3. CASE PushFails
  <2>1. main.at = "push" /\ UNCHANGED <<ring, tx>> BY <1>3 DEF PushFails
  <2>2. CASE main.tries + 1 < PushTries
    <3>1. main' = [main EXCEPT !.tries = @ + 1] /\ elem' = elem BY <1>3, <2>2 DEF PushFails
    <3>2. main'.at = main.at /\ main'.block = main.block /\ TxBlock' = TxBlock
      BY <2>1, <3>1 DEF Types, TxBlock
    <3>3. \A k : Place(k)' = Place(k) BY <2>1, <3>2 DEF Place
    <3>4. QED BY <2>1, <3>1, <3>3, QueueStays DEF AtWork
  <2>3. CASE ~(main.tries + 1 < PushTries)
    <3>1. main' = Ready /\ elem' = Without(main.block) BY <1>3, <2>3 DEF PushFails
    <3>2. main'.at = "idle" BY <3>1 DEF Ready
    <3>3. /\ Used' = Used \ {Count(ring)} /\ \A k \in Used' : Place(k)' = Place(k)
          /\ Count(ring) \in Used /\ Place(Count(ring)) = main.block
      BY <2>1, <3>2, DropLine
    <3>4. ASSUME NEW k \in Used, k # Count(ring) PROVE Same(k)
      <4>1. Place(k)' = Place(k) /\ Place(k) # main.block BY <3>3, <3>4, OnLoan
      <4>2. QED BY <1>1, <3>1, <4>1 DEF Without
    <3>5. \A k \in 0 .. Count(ring) - 1 : Same(k) BY <1>1, <3>4
    <3>6. tx.at # "pop" => Same(-1) BY <1>1, <3>4
    <3>7. QED BY <2>1, <3>5, <3>6, QueueStays DEF AtWork
  <2>4. QED BY <2>2, <2>3
<1>4. ASSUME NEW fs \in Lists, SendFrame(fs), \A i \in DOMAIN fs : Active(fs[i])
      PROVE  Line' = Line /\ AtWork' = AtWork
  <2>1. main.at = "idle" /\ UNCHANGED <<ring, tx>> BY <1>4 DEF SendFrame
  <2>2. CASE P!Source(pool).num > MemoryMax
    <3>1. UNCHANGED <<elem, main>> BY <1>4, <2>2 DEF SendFrame
    <3>2. \A k : Place(k)' = Place(k) BY <2>1, <3>1 DEF Place, TxBlock
    <3>3. QED BY <2>1, <3>1, <3>2, QueueStays DEF AtWork
  <2>3. CASE ~(P!Source(pool).num > MemoryMax)
    <3> DEFINE b == P!Allocated(pool)
               new == [frame |-> sent + 1, faces |-> fs, to |-> {face[f] : f \in Range(fs)}]
    <3>1. /\ main' = [at |-> "push", block |-> b, tries |-> 0]
          /\ elem' = [c \in DOMAIN elem \cup {b} |-> IF c # b THEN elem[c] ELSE new]
      BY <1>4, <2>3 DEF SendFrame
    <3>2. main'.at = "push" BY <3>1
    <3>3. b \notin DOMAIN elem BY <1>4, <2>3, BlocksSend
    <3> HIDE DEF b, new
    <3>4. \A k \in Used : Place(k)' = Place(k) BY <2>1, <3>2, SendLine
    <3>5. ASSUME NEW k \in Used PROVE Same(k)
      <4>1. Place(k) # b BY <1>1, <3>3
      <4>2. QED BY <1>1, <3>1, <3>4, <4>1
    <3>6. \A k \in 0 .. Count(ring) - 1 : Same(k) BY <1>1, <3>5
    <3>7. tx.at # "pop" => Same(-1) BY <1>1, <3>5
    <3>8. QED BY <2>1, <3>6, <3>7, QueueStays DEF AtWork
  <2>4. QED BY <2>2, <2>3
<1>5. CASE FreeBlock
  <2>1. tx.at = "face" /\ elem' = Without(tx.block) /\ tx' = Idle /\ ring' = ring BY <1>5 DEF FreeBlock
  <2>2. /\ Used' = Used \ {-1} /\ \A k \in Used' : Place(k)' = Place(k)
        /\ -1 \in Used /\ Place(-1) = tx.block
    BY <1>5, FreeLine
  <2>3. ASSUME NEW k \in 0 .. Count(ring) - 1 PROVE Same(k)
    <3>1. k \in Used /\ k # -1 BY <1>1
    <3>2. Place(k)' = Place(k) /\ Place(k) # tx.block BY <2>2, <3>1, OnLoan
    <3>3. QED BY <1>1, <2>1, <3>1, <3>2 DEF Without
  <2>4. AtWork # 0 /\ AtWork' = 0 BY <1>2, <2>1, <2>2 DEF AtWork, Idle
  <2>5. QED BY <2>1, <2>3, <2>4, QueueStays
<1>6. CASE \/ ReadSlot \/ CheckActive \/ FirstWrite \/ RestWrite
           \/ (\E k \in Peers : OpenFace(k)) \/ (\E f \in FaceIds : CloseFace(f))
           \/ UNCHANGED vars
  <2>1. /\ UNCHANGED <<ring, elem, main>> /\ TxBlock' = TxBlock
        /\ ((tx.at = "pop") <=> (tx'.at = "pop"))
    BY <1>6, QuietSteps
  <2>2. \A k : Place(k)' = Place(k) BY <2>1 DEF Place
  <2>3. QED BY <2>1, <2>2, QueueStays DEF AtWork
<1>7. QED BY <1>3, <1>4, <1>5, <1>6 DEF Next, MainStep, TransmitStep

\* tx_que hands the frames from the main thread to the transmit thread as a queue does:
\* the ring of slots, the pool whose blocks are used again and the read of a slot after
\* the mutex is released implement Fifo.
THEOREM QueueIsKept == Spec => QueueKept
<1>1. Init => Queue!Init
  <2>1. SUFFICES ASSUME Init PROVE Queue!Init OBVIOUS
  <2>2. Types BY <2>1, BlocksInit DEF BlocksInv
  <2>3. tx.at = "pop" BY <2>1 DEF Init, Idle
  <2>4. ring.top = 0 /\ ring.bottom = 0 BY <2>1 DEF Init, R!NewRing
  <2>5. Count(ring) = 0
    <3>1. 0 % Slots = 0 BY Sizes
    <3>2. QED BY <2>4, <3>1 DEF Count
  <2>6. Line = <<>> BY <2>5 DEF Line
  <2>7. QED BY <2>2, <2>3, <2>6, Mapped DEF Queue!Init, AtWork, Mapping
<1>2. Types' => Mapping' BY Mapped, PTL
<1>3. BlocksInv /\ BlocksInv' /\ [Next]_vars =>
        [Queue!Next]_<<[i \in DOMAIN R!Contents(ring) |-> elem[R!Contents(ring)[i]].frame],
                       IF tx.at = "pop" THEN 0
                       ELSE IF tx.at = "read" THEN elem[ring.body[tx.slot]].frame ELSE Frame>>
  <2> DEFINE q == [i \in DOMAIN R!Contents(ring) |-> elem[R!Contents(ring)[i]].frame]
             t == IF tx.at = "pop" THEN 0
                  ELSE IF tx.at = "read" THEN elem[ring.body[tx.slot]].frame ELSE Frame
  <2>1. SUFFICES ASSUME BlocksInv, BlocksInv', [Next]_vars PROVE [Queue!Next]_<<q, t>> OBVIOUS
  <2>2. q = Line /\ t = AtWork BY <2>1, Mapped DEF BlocksInv, Mapping
  <2>3. q' = Line' /\ t' = AtWork' BY <1>2, <2>1 DEF BlocksInv, Mapping
  <2> HIDE DEF q, t
  <2>4. CASE Push
    <3>1. PICK x \in Frames : Line' = Append(Line, x) /\ AtWork' = AtWork BY <2>1, <2>4, QueuePush
    <3>2. Queue!Put(x) BY <2>2, <2>3, <3>1 DEF Queue!Put, q, t
    <3>3. QED BY <3>2 DEF Queue!Next, q, t
  <2>5. CASE Pop
    <3>1. AtWork = 0 /\ Line # <<>> /\ AtWork' = Head(Line) /\ Line' = Tail(Line) BY <2>1, <2>5, QueuePop
    <3>2. Queue!Take BY <2>2, <2>3, <3>1 DEF Queue!Take, q, t
    <3>3. QED BY <3>2 DEF Queue!Next, q, t
  <2>6. CASE ~Push /\ ~Pop
    <3>1. Line' = Line /\ (AtWork' = AtWork \/ (AtWork # 0 /\ AtWork' = 0)) BY <2>1, <2>6, QueueRest
    <3>2. CASE AtWork' = AtWork BY <2>2, <2>3, <3>1, <3>2
    <3>3. CASE AtWork # 0 /\ AtWork' = 0
      <4>1. Queue!Finish BY <2>2, <2>3, <3>1, <3>3 DEF Queue!Finish, q, t
      <4>2. QED BY <4>1 DEF Queue!Next, q, t
    <3>4. QED BY <3>1, <3>2, <3>3
  <2>7. QED BY <2>4, <2>5, <2>6 DEF q, t
<1>4. QED BY <1>1, <1>3, BlocksAlways, PTL DEF Spec, QueueKept, Queue!Spec

-----------------------------------------------------------------------------
(* What a peer gets.                                                       *)

\* The list of faces that goes with a frame.
LEMMA FacesOf ==
  ASSUME Types, InLine, NEW b \in DOMAIN elem
  PROVE  /\ elem[b].faces \in Lists /\ elem[b].faces \in Seq(FaceIds)
         /\ \A j \in DOMAIN elem[b].faces :
              /\ j \in Nat /\ elem[b].faces[j] \in FaceIds
              /\ Active(elem[b].faces[j]) => face[elem[b].faces[j]] \in Peers
<1>1. elem[b].faces \in Lists BY OnLoan DEF Elems
<1>2. elem[b].faces \in Seq(FaceIds) BY <1>1, TransmitAssumption
<1>3. ASSUME NEW j \in DOMAIN elem[b].faces
      PROVE  /\ j \in Nat /\ elem[b].faces[j] \in FaceIds
             /\ Active(elem[b].faces[j]) => face[elem[b].faces[j]] \in Peers
  <2>1. j \in Nat /\ elem[b].faces[j] \in FaceIds BY <1>2
  <2>2. face[elem[b].faces[j]] \in Peers \cup {NoPeer} BY <2>1 DEF Types
  <2>3. QED BY <2>1, <2>2 DEF Active
<1>4. QED BY <1>1, <1>2, <1>3

LEMMA FacesAtWork ==
  ASSUME Types, InLine, Sending
  PROVE  /\ Faces \in Lists /\ DOMAIN Faces = 1 .. Len(Faces) /\ Len(Faces) \in Nat
         /\ \A j \in DOMAIN Faces : /\ j \in Nat /\ Faces[j] \in FaceIds
                                    /\ Active(Faces[j]) => face[Faces[j]] \in Peers
<1>1. tx.block \in DOMAIN elem BY InHand
<1>2. Faces \in Seq(FaceIds) BY <1>1, FacesOf DEF Faces
<1>3. DOMAIN Faces = 1 .. Len(Faces) /\ Len(Faces) \in Nat BY <1>2
<1>4. QED BY <1>1, <1>3, FacesOf DEF Faces

LEMMA SoonerKept ==
  ASSUME BlocksInv, Sooner, got' = got, sent' \in Nat, sent <= sent',
         \A l \in Used' : \/ elem'[Place(l)'].frame \in Nat /\ elem'[Place(l)'].frame > sent
                          \/ \E m \in Used : /\ elem'[Place(l)'].frame = elem[Place(m)].frame
                                             /\ m = -1 /\ Sending => l = -1 /\ Sending'
  PROVE  Sooner'
<1>1. \A k \in Peers : got[k][1] \in Nat BY DEF BlocksInv, Types
<1>2. sent \in Nat BY DEF BlocksInv, Types
<1>3. \A k \in Peers : got'[k][1] <= sent' BY <1>1, <1>2 DEF Sooner
<1>4. ASSUME NEW k \in Peers, NEW l \in Used'
      PROVE  \/ got'[k][1] < elem'[Place(l)'].frame
             \/ l = -1 /\ Sending' /\ got'[k][1] = elem'[Place(l)'].frame
  <2>1. CASE elem'[Place(l)'].frame \in Nat /\ elem'[Place(l)'].frame > sent
    <3>1. got[k][1] <= sent BY DEF Sooner
    <3>2. QED BY <1>1, <1>2, <2>1, <3>1
  <2>2. ASSUME NEW m \in Used, elem'[Place(l)'].frame = elem[Place(m)].frame,
               m = -1 /\ Sending => l = -1 /\ Sending'
        PROVE  \/ got'[k][1] < elem'[Place(l)'].frame
               \/ l = -1 /\ Sending' /\ got'[k][1] = elem'[Place(l)'].frame
    BY <2>2 DEF Sooner
  <2>3. CASE \E m \in Used : /\ elem'[Place(l)'].frame = elem[Place(m)].frame
                             /\ m = -1 /\ Sending => l = -1 /\ Sending'
    BY <2>2, <2>3
  <2>4. QED BY <2>1, <2>3
<1>5. QED BY <1>3, <1>4 DEF Sooner

LEMMA InTurnKept ==
  ASSUME BlocksInv, InTurn, tx' = tx, got' = got, Sending => elem'[tx.block] = elem[tx.block],
         Sending => \A j \in DOMAIN Faces : face'[Faces[j]] = NoPeer \/ face'[Faces[j]] = face[Faces[j]]
  PROVE  InTurn'
<1> USE DEF BlocksInv
<1>1. Sending' = Sending BY DEF Sending
<1>2. CASE ~Sending BY <1>1, <1>2 DEF InTurn, Sending
<1>3. CASE Sending
  <2>1. Faces' = Faces /\ Frame' = Frame /\ Face' = Face BY <1>3 DEF Faces, Frame, Face
  <2>2. ASSUME NEW j \in DOMAIN Faces, j > tx.i \/ (j = tx.i /\ tx.at # "rest"), face'[Faces[j]] # NoPeer
        PROVE  got[face'[Faces[j]]][1] < Frame
    <3>1. face'[Faces[j]] = face[Faces[j]] BY <1>3, <2>2
    <3>2. Active(Faces[j]) BY <2>2, <3>1 DEF Active
    <3>3. QED BY <1>3, <2>2, <3>1, <3>2 DEF InTurn
  <2>3. tx.at \in {"send", "rest"} => tx.i \in DOMAIN Faces BY DEF InTurn
  <2>4. tx.at = "rest" => tx.piece >= 2 BY DEF InTurn
  <2>5. ASSUME tx.at = "rest", face'[Face] # NoPeer PROVE got[face'[Face]] = <<Frame, tx.piece - 1>>
    <3>1. face'[Face] = face[Face] BY <1>3, <2>3, <2>5 DEF Face
    <3>2. QED BY <2>5, <3>1 DEF InTurn, Active
  <2>6. QED BY <1>1, <1>3, <2>1, <2>2, <2>3, <2>4, <2>5 DEF InTurn, Active
<1>4. QED BY <1>2, <1>3

LEMMA OnlyToKept ==
  ASSUME OnlyTo, face' = face, next' = next, DOMAIN elem' \subseteq DOMAIN elem,
         \A b \in DOMAIN elem' : elem'[b] = elem[b]
  PROVE  OnlyTo'
BY DEF OnlyTo, Active

\* The steps of the main thread, and the one that pops, do not disturb the frame being sent.
LEMMA DeliveredPush ==
  ASSUME BlocksInv, OnlyTo, Reached, Push
  PROVE  OnlyTo' /\ Reached'
<1> USE DEF BlocksInv
<1>1. UNCHANGED <<elem, tx, face, next, sent, got>> BY DEF Push
<1>2. OnlyTo' BY <1>1, OnlyToKept
<1>3. OneFace' BY <1>1 DEF OneFace, Reached, Active
<1>4. InTurn' BY <1>1, InTurnKept DEF Reached
<1>5. Used' = Used /\ \A k \in Used : Place(k)' = Place(k) BY PushLine
<1>6. Sooner'
  <2>1. \A l \in Used' : \E m \in Used : /\ elem'[Place(l)'].frame = elem[Place(m)].frame
                                         /\ m = -1 /\ Sending => l = -1 /\ Sending'
    BY <1>1, <1>5 DEF Sending
  <2>2. sent' \in Nat /\ sent <= sent' BY <1>1 DEF Types
  <2>3. QED BY <1>1, <2>1, <2>2, SoonerKept DEF Reached
<1>7. QED BY <1>2, <1>3, <1>4, <1>6 DEF Reached

LEMMA DeliveredPushFails ==
  ASSUME BlocksInv, OnlyTo, Reached, PushFails
  PROVE  OnlyTo' /\ Reached'
<1> USE DEF BlocksInv
<1>1. main.at = "push" /\ UNCHANGED <<ring, tx, face, next, sent, got>> BY DEF PushFails
<1>2. OneFace' BY <1>1 DEF OneFace, Reached, Active
<1>3. Count(ring) \in Nat BY Counted, Sizes DEF Types
<1>4. /\ DOMAIN elem' \subseteq DOMAIN elem /\ \A b \in DOMAIN elem' : elem'[b] = elem[b]
      /\ Sending => elem'[tx.block] = elem[tx.block]
      /\ \A l \in Used' : l \in Used /\ elem'[Place(l)'] = elem[Place(l)]
  <2>1. CASE main.tries + 1 < PushTries
    <3>1. elem' = elem /\ main' = [main EXCEPT !.tries = @ + 1] BY <2>1 DEF PushFails
    <3>2. main'.at = main.at /\ main'.block = main.block /\ TxBlock' = TxBlock
      BY <1>1, <3>1 DEF Types, TxBlock
    <3>3. Used' = Used /\ \A k : Place(k)' = Place(k) BY <1>1, <3>2 DEF Place, Used
    <3>4. QED BY <3>1, <3>3
  <2>2. CASE ~(main.tries + 1 < PushTries)
    <3>1. elem' = Without(main.block) /\ main' = Ready BY <2>2 DEF PushFails
    <3>2. main'.at = "idle" BY <3>1 DEF Ready
    <3>3. /\ Used' = Used \ {Count(ring)} /\ \A k \in Used' : Place(k)' = Place(k)
          /\ Count(ring) \in Used /\ Place(Count(ring)) = main.block
      BY <1>1, <3>2, DropLine
    <3>4. ASSUME NEW l \in Used, l # Count(ring)
          PROVE  elem'[Place(l)] = elem[Place(l)]
      <4>1. Place(l) # main.block /\ Place(l) \in DOMAIN elem BY <3>3, <3>4, OnLoan DEF InLine
      <4>2. QED BY <3>1, <4>1 DEF Without
    <3>5. Sending => elem'[tx.block] = elem[tx.block]
      <4>1. SUFFICES ASSUME Sending PROVE elem'[tx.block] = elem[tx.block] OBVIOUS
      <4>2. -1 \in Used /\ Place(-1) = tx.block BY <4>1, InHand
      <4>3. QED BY <1>3, <3>4, <4>2
    <3>6. QED BY <3>1, <3>3, <3>4, <3>5 DEF Without
  <2>3. QED BY <2>1, <2>2
<1>5. OnlyTo' BY <1>1, <1>4, OnlyToKept
<1>6. InTurn' BY <1>1, <1>4, InTurnKept DEF Reached
<1>7. Sooner'
  <2>1. \A l \in Used' : \E m \in Used : /\ elem'[Place(l)'].frame = elem[Place(m)].frame
                                         /\ m = -1 /\ Sending => l = -1 /\ Sending'
    BY <1>1, <1>4 DEF Sending
  <2>2. sent' \in Nat /\ sent <= sent' BY <1>1 DEF Types
  <2>3. QED BY <1>1, <2>1, <2>2, SoonerKept DEF Reached
<1>8. QED BY <1>2, <1>5, <1>6, <1>7 DEF Reached

LEMMA DeliveredSend ==
  ASSUME BlocksInv, OnlyTo, Reached, NEW fs \in Lists, SendFrame(fs), \A i \in DOMAIN fs : Active(fs[i]),
         BlocksInv'
  PROVE  OnlyTo' /\ Reached'
<1> USE DEF BlocksInv
<1>1. main.at = "idle" /\ UNCHANGED <<ring, tx, face, next, got>> /\ sent' = sent + 1 BY DEF SendFrame
<1>2. OneFace' BY <1>1 DEF OneFace, Reached, Active
<1>3. sent \in Nat /\ sent' \in Nat /\ sent <= sent' BY <1>1 DEF Types
<1>4. CASE P!Source(pool).num > MemoryMax
  <2>1. elem' = elem /\ main' = main BY <1>4 DEF SendFrame
  <2>2. Used' = Used /\ \A k : Place(k)' = Place(k) BY <1>1, <2>1 DEF Place, Used, TxBlock
  <2>3. OnlyTo' BY <1>1, <2>1, OnlyToKept
  <2>4. InTurn' BY <1>1, <2>1, InTurnKept DEF Reached
  <2>5. \A l \in Used' : \E m \in Used : /\ elem'[Place(l)'].frame = elem[Place(m)].frame
                                         /\ m = -1 /\ Sending => l = -1 /\ Sending'
    BY <1>1, <2>1, <2>2 DEF Sending
  <2>6. Sooner' BY <1>1, <1>3, <2>5, SoonerKept DEF Reached
  <2>7. QED BY <1>2, <2>3, <2>4, <2>6 DEF Reached
<1>5. CASE ~(P!Source(pool).num > MemoryMax)
  <2> DEFINE b == P!Allocated(pool)
             new == [frame |-> sent + 1, faces |-> fs, to |-> {face[f] : f \in Range(fs)}]
  <2>1. /\ main' = [at |-> "push", block |-> b, tries |-> 0]
        /\ elem' = [c \in DOMAIN elem \cup {b} |-> IF c # b THEN elem[c] ELSE new]
    BY <1>5 DEF SendFrame
  <2>2. main'.at = "push" /\ main'.block = b BY <2>1
  <2>3. b \notin DOMAIN elem BY <1>5, BlocksSend
  <2>4. new.frame = sent + 1 /\ new.faces = fs /\ new.to = {face[f] : f \in Range(fs)} OBVIOUS
  <2> HIDE DEF b, new
  <2>5. elem'[b] = new /\ DOMAIN elem' = DOMAIN elem \cup {b} /\ \A c \in DOMAIN elem : elem'[c] = elem[c]
    BY <2>1, <2>3
  <2>6. /\ Used' = Used \cup {Count(ring)} /\ \A k \in Used : Place(k)' = Place(k)
        /\ Place(Count(ring))' = main'.block
    BY <1>1, <2>2, SendLine
  <2>7. OnlyTo'
    <3>1. fs \in Seq(FaceIds) BY TransmitAssumption
    <3>2. ASSUME NEW j \in DOMAIN fs
          PROVE  fs[j] < next' /\ (Active(fs[j])' => face'[fs[j]] \in new.to)
      <4>1. fs[j] \in FaceIds /\ Active(fs[j]) BY <3>1
      <4>2. ~(fs[j] >= next) BY <4>1 DEF OnlyTo
      <4>3. fs[j] < next
        <5>1. FaceMax \in Nat BY TransmitAssumption
        <5>2. fs[j] \in Nat /\ next \in Nat BY <4>1, <5>1 DEF Types, FaceIds
        <5>3. QED BY <4>2, <5>2
      <4>4. face[fs[j]] \in new.to BY <2>4, <3>1 DEF Range
      <4>5. QED BY <1>1, <4>3, <4>4
    <3>3. QED BY <1>1, <2>4, <2>5, <3>2 DEF OnlyTo, Active
  <2>8. Sending => elem'[tx.block] = elem[tx.block] BY <2>5, InHand
  <2>9. InTurn' BY <1>1, <2>8, InTurnKept DEF Reached
  <2>10. ASSUME NEW l \in Used'
         PROVE  \/ elem'[Place(l)'].frame \in Nat /\ elem'[Place(l)'].frame > sent
                \/ \E m \in Used : /\ elem'[Place(l)'].frame = elem[Place(m)].frame
                                   /\ m = -1 /\ Sending => l = -1 /\ Sending'
    <3>1. CASE l \in Used
      <4>1. Place(l)' = Place(l) /\ Place(l) \in DOMAIN elem BY <2>6, <3>1 DEF InLine
      <4>2. QED BY <1>1, <2>5, <3>1, <4>1 DEF Sending
    <3>2. CASE l = Count(ring)
      <4>4. l \in Nat BY <3>2, Counted, Sizes DEF Types
      <4>1. Place(l)' = b BY <1>1, <2>2, <3>2, <4>4 DEF Place
      <4>2. elem'[Place(l)'].frame = sent + 1 BY <2>4, <2>5, <4>1
      <4>3. QED BY <1>3, <4>2
    <3>3. QED BY <2>6, <3>1, <3>2
  <2>11. Sooner' BY <1>1, <1>3, <2>10, SoonerKept DEF Reached
  <2>12. QED BY <1>2, <2>7, <2>9, <2>11 DEF Reached
<1>6. QED BY <1>4, <1>5

LEMMA DeliveredPop ==
  ASSUME BlocksInv, OnlyTo, Reached, Pop
  PROVE  OnlyTo' /\ Reached'
<1> USE DEF BlocksInv
<1>1. UNCHANGED <<elem, face, next, sent, got>> /\ tx.at = "pop" /\ tx'.at = "read"
  BY DEF Pop, Types, TxRecs
<1>2. OnlyTo' BY <1>1, OnlyToKept
<1>3. OneFace' BY <1>1 DEF OneFace, Reached, Active
<1>4. InTurn' BY <1>1 DEF InTurn, Sending
<1>5. \A k \in Used' : k + 1 \in Used /\ Place(k)' = Place(k + 1) BY PopLine
<1>6. Sooner'
  <2>1. \A l \in Used' : \E m \in Used : /\ elem'[Place(l)'].frame = elem[Place(m)].frame
                                         /\ m = -1 /\ Sending => l = -1 /\ Sending'
    BY <1>1, <1>5 DEF Sending
  <2>2. sent' \in Nat /\ sent <= sent' BY <1>1 DEF Types
  <2>3. QED BY <1>1, <2>1, <2>2, SoonerKept DEF Reached
<1>7. QED BY <1>2, <1>3, <1>4, <1>6 DEF Reached

LEMMA DeliveredFree ==
  ASSUME BlocksInv, OnlyTo, Reached, FreeBlock
  PROVE  OnlyTo' /\ Reached'
<1> USE DEF BlocksInv
<1>1. /\ UNCHANGED <<face, next, sent, got>> /\ tx.at = "face" /\ tx'.at = "pop"
      /\ elem' = Without(tx.block)
  BY DEF FreeBlock, Idle
<1>2. OnlyTo' BY <1>1, OnlyToKept DEF Without
<1>3. OneFace' BY <1>1 DEF OneFace, Reached, Active
<1>4. InTurn' BY <1>1 DEF InTurn, Sending
<1>5. Used' = Used \ {-1} /\ (\A k \in Used' : Place(k)' = Place(k)) /\ -1 \in Used /\ Place(-1) = tx.block
  BY FreeLine
<1>6. Sooner'
  <2>1. ASSUME NEW l \in Used'
        PROVE  \E m \in Used : /\ elem'[Place(l)'].frame = elem[Place(m)].frame
                               /\ m = -1 /\ Sending => l = -1 /\ Sending'
    <3>1. l \in Used /\ l # -1 /\ Place(l)' = Place(l) BY <1>5
    <3>2. Place(l) # tx.block /\ Place(l) \in DOMAIN elem BY <1>5, <3>1, OnLoan DEF InLine
    <3>3. elem'[Place(l)'] = elem[Place(l)] BY <1>1, <3>1, <3>2 DEF Without
    <3>4. QED BY <3>1, <3>3
  <2>2. sent' \in Nat /\ sent <= sent' BY <1>1 DEF Types
  <2>3. QED BY <1>1, <2>1, <2>2, SoonerKept DEF Reached
<1>7. QED BY <1>2, <1>3, <1>4, <1>6 DEF Reached

LEMMA DeliveredOpen ==
  ASSUME BlocksInv, OnlyTo, Reached, NEW p \in Peers, OpenFace(p), Ahead # {}
  PROVE  OnlyTo' /\ Reached'
<1> USE DEF BlocksInv
<1> DEFINE n == NextFace
<1>1. /\ UNCHANGED <<ring, elem, main, tx, sent, got>> /\ face' = [face EXCEPT ![n] = p] /\ next' = n + 1
      /\ \A f \in FaceIds : face[f] # p
  BY DEF OpenFace
<1>2. n \in FaceIds /\ n >= next BY FreeFace DEF Ahead
<1>3. next \in Nat /\ FaceIds \subseteq Nat
  <2>1. FaceMax \in Nat BY TransmitAssumption
  <2>2. QED BY <2>1 DEF Types, FaceIds
<1> HIDE DEF n
<1>4. face' \in [FaceIds -> Peers \cup {NoPeer}] /\ face'[n] = p /\ \A f \in FaceIds \ {n} : face'[f] = face[f]
  BY <1>1, <1>2 DEF Types
<1>5. ASSUME NEW b \in DOMAIN elem, NEW j \in DOMAIN elem[b].faces
      PROVE  elem[b].faces[j] < n + 1 /\ face'[elem[b].faces[j]] = face[elem[b].faces[j]]
  <2>1. elem[b].faces[j] \in FaceIds /\ elem[b].faces[j] < next BY FacesOf DEF OnlyTo
  <2>2. elem[b].faces[j] \in Nat /\ n \in Nat BY <1>2, <1>3, <2>1
  <2>3. elem[b].faces[j] < n + 1 /\ elem[b].faces[j] # n BY <1>2, <1>3, <2>1, <2>2
  <2>4. QED BY <1>4, <2>1, <2>3
<1>6. \A b \in DOMAIN elem : \A j \in DOMAIN elem[b].faces : face'[elem[b].faces[j]] = face[elem[b].faces[j]]
  BY <1>5
<1>7. OnlyTo'
  <2>1. ASSUME NEW f \in FaceIds, f >= n + 1 PROVE ~Active(f)'
    <3>1. f >= next /\ f # n BY <1>2, <1>3, <2>1
    <3>2. QED BY <1>4, <3>1 DEF OnlyTo, Active
  <2>2. \A b \in DOMAIN elem : \A j \in DOMAIN elem[b].faces : elem[b].faces[j] < n + 1
    BY <1>5
  <2>3. \A b \in DOMAIN elem : \A j \in DOMAIN elem[b].faces :
          face'[elem[b].faces[j]] # NoPeer => face'[elem[b].faces[j]] \in elem[b].to
    BY <1>6 DEF OnlyTo, Active
  <2>4. QED BY <1>1, <2>1, <2>2, <2>3 DEF OnlyTo, Active
<1>8. OneFace' BY <1>1, <1>4 DEF Reached, OneFace, Active
<1>9. Sending => elem'[tx.block] = elem[tx.block] BY <1>1
<1>10. Sending => \A j \in DOMAIN Faces : face'[Faces[j]] = face[Faces[j]] BY <1>6, InHand DEF Faces
<1>11. InTurn' BY <1>1, <1>9, <1>10, InTurnKept DEF Reached
<1>12. Used' = Used /\ \A k : Place(k)' = Place(k) BY <1>1 DEF Used, Place, TxBlock
<1>13. \A l \in Used' : \E m \in Used : /\ elem'[Place(l)'].frame = elem[Place(m)].frame
                                        /\ m = -1 /\ Sending => l = -1 /\ Sending'
  BY <1>1, <1>12 DEF Sending
<1>14. sent' \in Nat /\ sent <= sent' BY <1>1 DEF Types
<1>15. Sooner' BY <1>1, <1>13, <1>14, SoonerKept DEF Reached
<1>16. QED BY <1>7, <1>8, <1>11, <1>15 DEF Reached

LEMMA DeliveredClose ==
  ASSUME BlocksInv, OnlyTo, Reached, NEW h \in FaceIds, CloseFace(h)
  PROVE  OnlyTo' /\ Reached'
<1> USE DEF BlocksInv
<1>1. UNCHANGED <<ring, elem, main, tx, next, sent, got>> /\ face' = [face EXCEPT ![h] = NoPeer]
  BY DEF CloseFace
<1>2. \A f \in FaceIds : face'[f] = NoPeer \/ face'[f] = face[f] BY <1>1 DEF Types
<1>3. \A b \in DOMAIN elem : \A j \in DOMAIN elem[b].faces : elem[b].faces[j] \in FaceIds
  BY FacesOf
<1>4. OnlyTo' BY <1>1, <1>2, <1>3 DEF OnlyTo, Active
<1>5. OneFace' BY <1>1, <1>2 DEF Reached, OneFace, Active
<1>6. Sending => elem'[tx.block] = elem[tx.block] BY <1>1
<1>7. Sending => \A j \in DOMAIN Faces : face'[Faces[j]] = NoPeer \/ face'[Faces[j]] = face[Faces[j]]
  BY <1>2, <1>3, InHand DEF Faces
<1>8. InTurn' BY <1>1, <1>6, <1>7, InTurnKept DEF Reached
<1>9. Used' = Used /\ \A k : Place(k)' = Place(k) BY <1>1 DEF Used, Place, TxBlock
<1>10. \A l \in Used' : \E m \in Used : /\ elem'[Place(l)'].frame = elem[Place(m)].frame
                                        /\ m = -1 /\ Sending => l = -1 /\ Sending'
  BY <1>1, <1>9 DEF Sending
<1>11. sent' \in Nat /\ sent <= sent' BY <1>1 DEF Types
<1>12. Sooner' BY <1>1, <1>10, <1>11, SoonerKept DEF Reached
<1>13. QED BY <1>4, <1>5, <1>8, <1>12 DEF Reached

\* A step of the transmit thread that writes nothing.
LEMMA DeliveredQuiet ==
  ASSUME BlocksInv, OnlyTo, Reached, UNCHANGED <<ring, elem, main, face, next, sent, got>>,
         TxBlock' = TxBlock, (tx.at = "pop") <=> (tx'.at = "pop"), Sending => Sending', InTurn'
  PROVE  OnlyTo' /\ Reached'
<1> USE DEF BlocksInv
<1>1. OnlyTo' BY OnlyToKept
<1>2. OneFace' BY DEF Reached, OneFace, Active
<1>3. Used' = Used /\ \A k : Place(k)' = Place(k) BY DEF Used, Place
<1>4. \A l \in Used' : \E m \in Used : /\ elem'[Place(l)'].frame = elem[Place(m)].frame
                                       /\ m = -1 /\ Sending => l = -1 /\ Sending'
  BY <1>3
<1>5. sent' \in Nat /\ sent <= sent' BY DEF Types
<1>6. Sooner' BY <1>4, <1>5, SoonerKept DEF Reached
<1>7. QED BY <1>1, <1>2, <1>6 DEF Reached

LEMMA DeliveredRead ==
  ASSUME BlocksInv, OnlyTo, Reached, ReadSlot
  PROVE  OnlyTo' /\ Reached'
<1> USE DEF BlocksInv
<1>1. /\ tx.at = "read" /\ tx' = [Idle EXCEPT !.at = "face", !.block = ring.body[tx.slot]]
      /\ UNCHANGED <<ring, elem, main, face, next, sent, got>>
  BY DEF ReadSlot
<1>2. tx'.at = "face" /\ tx'.block = ring.body[tx.slot] BY <1>1 DEF Idle
<1>3. TxBlock = ring.body[tx.slot] /\ TxBlock' = TxBlock BY <1>1, <1>2 DEF TxBlock
<1>4. Sending' BY <1>2 DEF Sending
<1>5. InTurn'
  <2> DEFINE b == ring.body[tx.slot]
  <2>1. -1 \in Used /\ Place(-1) = b
    <3>1. Count(ring) \in Nat BY Counted, Sizes DEF Types
    <3>2. QED BY <1>1, <1>3, <3>1 DEF Used, Place
  <2>2. b \in DOMAIN elem BY <2>1 DEF InLine
  <2>3. \A k \in Peers : got[k][1] < elem[b].frame BY <1>1, <2>1 DEF Reached, Sooner, Sending
  <2>4. Frame' = elem[b].frame /\ Faces' = elem[b].faces BY <1>1, <1>2 DEF Frame, Faces
  <2>5. \A j \in DOMAIN elem[b].faces : face[elem[b].faces[j]] # NoPeer => got[face[elem[b].faces[j]]][1] < elem[b].frame
    BY <2>2, <2>3, FacesOf DEF Active
  <2>6. QED BY <1>1, <1>2, <2>4, <2>5 DEF InTurn, Active
<1>6. QED BY <1>1, <1>2, <1>3, <1>4, <1>5, DeliveredQuiet

\* The turn of the next face.
LEMMA NextTurn ==
  ASSUME BlocksInv, InTurn, Sending, tx' = NextInList, UNCHANGED <<elem, face, got>>
  PROVE  /\ TxBlock' = TxBlock /\ Sending' /\ tx'.at = "face" /\ InTurn'
<1> USE DEF BlocksInv
<1>1. tx'.at = "face" /\ tx'.block = tx.block /\ tx'.i = tx.i + 1 BY TxMoves DEF Types
<1>2. tx.i \in Nat BY DEF Types, TxRecs
<1>3. Faces' = Faces /\ Frame' = Frame BY <1>1 DEF Faces, Frame
<1>4. TxBlock' = TxBlock /\ Sending' BY <1>1 DEF TxBlock, Sending
<1>5. \A j \in DOMAIN Faces : j \in Nat BY FacesAtWork
<1>6. \A j \in DOMAIN Faces : j > tx.i /\ Active(Faces[j]) => got[face[Faces[j]]][1] < Frame BY DEF InTurn
<1>7. \A j \in DOMAIN Faces : j >= tx'.i /\ Active(Faces[j]) => got[face[Faces[j]]][1] < Frame
  BY <1>1, <1>2, <1>5, <1>6
<1>8. \A j \in DOMAIN Faces : j > tx'.i \/ j = tx'.i => j >= tx'.i BY <1>1, <1>2, <1>5
<1>9. InTurn' BY <1>1, <1>3, <1>7, <1>8 DEF InTurn, Active
<1>10. QED BY <1>1, <1>4, <1>9

LEMMA DeliveredCheck ==
  ASSUME BlocksInv, OnlyTo, Reached, CheckActive
  PROVE  OnlyTo' /\ Reached'
<1> USE DEF BlocksInv
<1>1. /\ tx.at = "face" /\ tx.i <= Len(Faces) /\ UNCHANGED <<ring, elem, main, face, next, sent, got>>
      /\ tx' = [tx EXCEPT !.at = "send"] \/ tx' = NextInList
  BY DEF CheckActive, MoreFaces
<1>2. Sending BY <1>1 DEF Sending
<1>3. CASE tx' = NextInList
  <2>1. TxBlock' = TxBlock /\ Sending' /\ tx'.at = "face" /\ InTurn' BY <1>1, <1>2, <1>3, NextTurn DEF Reached
  <2>2. QED BY <1>1, <2>1, DeliveredQuiet
<1>4. CASE tx' = [tx EXCEPT !.at = "send"]
  <2>1. tx'.at = "send" /\ tx'.block = tx.block /\ tx'.i = tx.i BY <1>4, TxMoves DEF Types
  <2>2. Faces' = Faces /\ Frame' = Frame BY <1>1, <2>1 DEF Faces, Frame
  <2>3. TxBlock' = TxBlock /\ Sending' BY <1>1, <2>1 DEF TxBlock, Sending
  <2>4. tx.i \in DOMAIN Faces
    <3>1. tx.i \in Nat /\ 1 <= tx.i BY DEF Types, TxRecs
    <3>2. QED BY <1>1, <1>2, <3>1, FacesAtWork
  <2>5. InTurn' BY <1>1, <1>2, <2>1, <2>2, <2>4 DEF Reached, InTurn, Active
  <2>6. QED BY <1>1, <2>1, <2>3, <2>5, DeliveredQuiet
<1>5. QED BY <1>1, <1>3, <1>4

\* A piece that is written: it goes to a peer the frame was addressed to, and to no other.
LEMMA DeliveredWrite ==
  ASSUME BlocksInv, OnlyTo, Reached, \A fs \in Lists : IsInjective(fs),
         tx.at \in {"send", "rest"}, Active(Face), NEW n \in Nat, n >= 1, Reach(n),
         UNCHANGED <<ring, elem, main, face, next, sent>>,
         \/ tx' = NextInList
         \/ tx'.at = "rest" /\ tx'.block = tx.block /\ tx'.i = tx.i /\ tx'.piece = n + 1
  PROVE  /\ OnlyTo' /\ Reached'
         /\ face[Face] \in Peers /\ got'[face[Face]] = <<Frame, n>> /\ face[Face] \in elem[tx.block].to
         /\ \A k \in Peers \ {face[Face]} : got'[k] = got[k]
<1> USE DEF BlocksInv
<1> DEFINE p == face[Face]
<1>1. Sending /\ tx.i \in DOMAIN Faces BY DEF Sending, Reached, InTurn
<1>2. /\ tx.block \in DOMAIN elem /\ -1 \in Used /\ Place(-1) = tx.block /\ Frame \in Nat
      /\ Frame = elem[Place(-1)].frame
  BY <1>1, InHand DEF Frame
<1>3. p \in Peers BY <1>1, FacesAtWork DEF Face
<1>4. got' = [got EXCEPT ![p] = <<Frame, n>>] BY DEF Reach
<1>5. p \in elem[tx.block].to BY <1>1, <1>2 DEF OnlyTo, Face, Faces
<1>6. Face = Faces[tx.i] BY DEF Face
<1>7. p # NoPeer BY DEF Active
<1> HIDE DEF p
<1>8. got'[p] = <<Frame, n>> /\ (\A k \in Peers \ {p} : got'[k] = got[k])
  BY <1>3, <1>4 DEF Types
<1>9. OnlyTo' BY OnlyToKept
<1>10. OneFace' BY DEF Reached, OneFace, Active
<1>11. /\ tx'.at \in {"face", "rest"} /\ tx'.block = tx.block
       /\ tx'.at = "face" => tx'.i = tx.i + 1
       /\ tx'.at = "rest" => tx'.i = tx.i /\ tx'.piece = n + 1
  <2>1. CASE tx' = NextInList
    <3>1. tx'.at = "face" /\ tx'.block = tx.block /\ tx'.i = tx.i + 1 BY <2>1, TxMoves DEF Types
    <3>2. QED BY <3>1
  <2>2. CASE tx'.at = "rest" /\ tx'.block = tx.block /\ tx'.i = tx.i /\ tx'.piece = n + 1 BY <2>2
  <2>3. QED BY <2>1, <2>2
<1>12. Faces' = Faces /\ Frame' = Frame BY <1>11 DEF Faces, Frame
<1>13. Sending' /\ TxBlock' = TxBlock BY <1>11 DEF Sending, TxBlock
<1>14. Used' = Used /\ \A k : Place(k)' = Place(k) BY <1>11, <1>13 DEF Used, Place
<1>15. Sooner'
  <2>1. sent \in Nat /\ Frame <= sent BY <1>2 DEF Types, InLine
  <2>2. \A k \in Peers : got'[k][1] <= sent BY <1>8, <2>1 DEF Reached, Sooner
  <2>3. ASSUME NEW k \in Peers, NEW l \in Used
        PROVE  \/ got'[k][1] < elem[Place(l)].frame
               \/ l = -1 /\ got'[k][1] = elem[Place(l)].frame
    <3>1. CASE k # p BY <1>8, <3>1 DEF Reached, Sooner
    <3>2. CASE k = p
      <4>1. got'[k][1] = elem[Place(-1)].frame BY <1>2, <1>8, <3>2
      <4>2. l = -1 \/ -1 < l
        <5>1. l \in Int /\ l >= -1 BY DEF Used
        <5>2. QED BY <5>1
      <4>3. l = -1 \/ elem[Place(-1)].frame < elem[Place(l)].frame BY <1>2, <4>2 DEF InLine
      <4>4. QED BY <4>1, <4>3
    <3>3. QED BY <3>1, <3>2
  <2>4. QED BY <1>13, <1>14, <2>2, <2>3 DEF Sooner
<1>16. ASSUME NEW j \in DOMAIN Faces, j > tx.i, Active(Faces[j]) PROVE got'[face[Faces[j]]][1] < Frame
  <2>1. j \in Nat /\ tx.i \in Nat /\ Faces[j] \in FaceIds /\ Faces[tx.i] \in FaceIds
        /\ face[Faces[j]] \in Peers /\ Faces \in Lists
    BY <1>1, <1>16, FacesAtWork
  <2>2. Faces[j] # Faces[tx.i]
    <3>1. j # tx.i BY <1>16, <2>1
    <3>2. IsInjective(Faces) BY <2>1
    <3>3. QED BY <1>1, <3>1, <3>2 DEF IsInjective
  <2>3. face[Faces[j]] # p BY <1>6, <1>16, <2>1, <2>2 DEF Reached, OneFace, p
  <2>4. got'[face[Faces[j]]] = got[face[Faces[j]]] BY <1>8, <2>1, <2>3
  <2>5. QED BY <1>1, <1>16, <2>4 DEF Reached, InTurn
<1>17. InTurn'
  <2>1. tx.i \in Nat /\ \A j \in DOMAIN Faces : j \in Nat BY <1>1, FacesAtWork
  <2>2. \A j \in DOMAIN Faces : j > tx'.i \/ (j = tx'.i /\ tx'.at # "rest") => j > tx.i
    BY <1>11, <2>1
  <2>3. tx'.at = "rest" => /\ tx'.i \in DOMAIN Faces /\ tx'.piece >= 2 /\ n = tx'.piece - 1
                           /\ Face' = Face
    BY <1>1, <1>11, <1>12 DEF Face
  <2>4. tx'.at = "rest" => got'[face[Face]] = <<Frame, tx'.piece - 1>> BY <1>8, <2>3 DEF p
  <2>5. \A j \in DOMAIN Faces : j > tx'.i \/ (j = tx'.i /\ tx'.at # "rest") =>
          (Active(Faces[j]) => got'[face[Faces[j]]][1] < Frame)
    BY <1>16, <2>2
  <2>6. QED BY <1>11, <1>12, <2>3, <2>4, <2>5 DEF InTurn, Active
<1>18. QED BY <1>3, <1>5, <1>8, <1>9, <1>10, <1>15, <1>17 DEF Reached, p

\* What reaches a peer in a step is the next piece of a frame addressed to it.
Reaches == \A k \in Peers : got'[k] = got[k] \/ (k \in elem[tx.block].to /\ Follows(got[k], got'[k]))

LEMMA DeliveredFirst ==
  ASSUME BlocksInv, OnlyTo, Reached, \A fs \in Lists : IsInjective(fs), FirstWrite
  PROVE  OnlyTo' /\ Reached' /\ Reaches
<1> USE DEF BlocksInv
<1>1. tx.at = "send" /\ UNCHANGED <<ring, elem, main, face, next, sent>> /\ Sending BY DEF FirstWrite, Sending
<1>2. CASE tx' = NextInList /\ UNCHANGED got
  <2>1. TxBlock' = TxBlock /\ Sending' /\ tx'.at = "face" /\ InTurn' BY <1>1, <1>2, NextTurn DEF Reached
  <2>2. OnlyTo' /\ Reached' BY <1>1, <1>2, <2>1, DeliveredQuiet
  <2>3. QED BY <1>2, <2>2 DEF Reaches
<1>3. CASE Active(Face) /\ Reach(1)
  <2>1. tx' = NextInList \/ tx' = [tx EXCEPT !.at = "rest", !.piece = 2, !.tries = 1]
    BY <1>1, <1>3 DEF FirstWrite
  <2>2. \/ tx' = NextInList
        \/ tx'.at = "rest" /\ tx'.block = tx.block /\ tx'.i = tx.i /\ tx'.piece = 1 + 1
    <3>1. \/ tx' = NextInList
          \/ tx'.at = "rest" /\ tx'.block = tx.block /\ tx'.i = tx.i /\ tx'.piece = 2
      BY <2>1, TxMoves, Zenon DEF Types
    <3>2. 2 = 1 + 1 OBVIOUS
    <3>3. QED BY <3>1, <3>2
  <2>3. /\ OnlyTo' /\ Reached'
        /\ face[Face] \in Peers /\ got'[face[Face]] = <<Frame, 1>> /\ face[Face] \in elem[tx.block].to
        /\ \A k \in Peers \ {face[Face]} : got'[k] = got[k]
    BY <1>1, <1>3, <2>2, DeliveredWrite
  <2>4. got[face[Face]][1] < Frame BY <1>1, <1>3 DEF Reached, InTurn, Face
  <2>5. got[face[Face]][1] \in Nat /\ Frame \in Nat BY <1>1, <2>3, InHand DEF Types
  <2>6. Follows(got[face[Face]], got'[face[Face]]) BY <2>3, <2>4, <2>5 DEF Follows
  <2>7. QED BY <2>3, <2>6 DEF Reaches
<1>4. QED BY <1>2, <1>3 DEF FirstWrite

LEMMA DeliveredRest ==
  ASSUME BlocksInv, OnlyTo, Reached, \A fs \in Lists : IsInjective(fs), RestWrite
  PROVE  OnlyTo' /\ Reached' /\ Reaches
<1> USE DEF BlocksInv
<1>1. /\ tx.at = "rest" /\ Active(Face) /\ Sending /\ UNCHANGED <<ring, elem, main, face, next, sent>>
      /\ tx.piece \in Nat /\ tx.piece >= 2
  BY DEF RestWrite, Sending, Reached, InTurn, Types, TxRecs
<1>2. CASE UNCHANGED got /\ tx' = NextInList
  <2>1. TxBlock' = TxBlock /\ Sending' /\ tx'.at = "face" /\ InTurn' BY <1>1, <1>2, NextTurn DEF Reached
  <2>2. OnlyTo' /\ Reached' BY <1>1, <1>2, <2>1, DeliveredQuiet
  <2>3. QED BY <1>2, <2>2 DEF Reaches
<1>3. CASE UNCHANGED got /\ tx' = [tx EXCEPT !.tries = @ + 1]
  <2>1. tx'.at = tx.at /\ tx'.block = tx.block /\ tx'.i = tx.i /\ tx'.piece = tx.piece
    BY <1>3, TxMoves DEF Types
  <2>2. TxBlock' = TxBlock /\ Sending' BY <1>1, <2>1 DEF TxBlock, Sending
  <2>3. Faces' = Faces /\ Frame' = Frame /\ Face' = Face BY <1>1, <2>1 DEF Faces, Frame, Face
  <2>4. InTurn' BY <1>1, <1>3, <2>1, <2>3 DEF Reached, InTurn, Active
  <2>5. OnlyTo' /\ Reached' BY <1>1, <1>3, <2>1, <2>2, <2>4, DeliveredQuiet
  <2>6. QED BY <1>3, <2>5 DEF Reaches
<1>4. CASE Reach(tx.piece)
  <2>1. tx' = NextInList \/ tx' = [tx EXCEPT !.piece = @ + 1, !.tries = @ + 1]
    <3>1. CASE UNCHANGED got
      <4>1. face[Face] \in Peers /\ tx.i \in DOMAIN Faces
        <5>1. tx.i \in DOMAIN Faces BY <1>1 DEF Reached, InTurn
        <5>2. QED BY <1>1, <5>1, FacesAtWork DEF Face
      <4>2. got'[face[Face]] = <<Frame, tx.piece>> BY <1>4, <4>1 DEF Reach, Types
      <4>3. got[face[Face]] = <<Frame, tx.piece - 1>> BY <1>1 DEF Reached, InTurn
      <4>4. tx.piece # tx.piece - 1 BY <1>1
      <4>5. QED BY <3>1, <4>2, <4>3, <4>4
    <3>2. QED BY <1>4, <3>1 DEF RestWrite
  <2>2. \/ tx' = NextInList
        \/ tx'.at = "rest" /\ tx'.block = tx.block /\ tx'.i = tx.i /\ tx'.piece = tx.piece + 1
    BY <1>1, <2>1, TxMoves DEF Types
  <2>3. tx.piece >= 1 BY <1>1
  <2>4. /\ OnlyTo' /\ Reached'
        /\ face[Face] \in Peers /\ got'[face[Face]] = <<Frame, tx.piece>> /\ face[Face] \in elem[tx.block].to
        /\ \A k \in Peers \ {face[Face]} : got'[k] = got[k]
    BY <1>1, <1>4, <2>2, <2>3, DeliveredWrite
  <2>5. got[face[Face]] = <<Frame, tx.piece - 1>> BY <1>1 DEF Reached, InTurn
  <2>6. tx.piece # 1 /\ (tx.piece - 1) + 1 = tx.piece BY <1>1
  <2>7. Follows(got[face[Face]], got'[face[Face]]) BY <2>4, <2>5, <2>6 DEF Follows
  <2>8. QED BY <2>4, <2>7 DEF Reaches
<1>5. QED BY <1>2, <1>3, <1>4 DEF RestWrite

LEMMA DeliveredNext ==
  ASSUME BlocksInv, BlocksInv', OnlyTo, Reached, \A fs \in Lists : IsInjective(fs), [Next]_vars, ~lapped'
  PROVE  OnlyTo' /\ Reached' /\ Reaches
<1>1. CASE Push
  <2>1. UNCHANGED got BY <1>1 DEF Push
  <2>2. QED BY <1>1, <2>1, DeliveredPush DEF Reaches
<1>2. CASE PushFails
  <2>1. UNCHANGED got BY <1>2 DEF PushFails
  <2>2. QED BY <1>2, <2>1, DeliveredPushFails DEF Reaches
<1>3. ASSUME NEW fs \in Lists, SendFrame(fs), \A i \in DOMAIN fs : Active(fs[i])
      PROVE  OnlyTo' /\ Reached' /\ Reaches
  <2>1. UNCHANGED got BY <1>3 DEF SendFrame
  <2>2. QED BY <1>3, <2>1, DeliveredSend DEF Reaches
<1>4. ASSUME NEW k \in Peers, OpenFace(k) PROVE OnlyTo' /\ Reached' /\ Reaches
  <2>1. UNCHANGED got /\ Ahead # {} BY <1>4 DEF OpenFace
  <2>2. QED BY <1>4, <2>1, DeliveredOpen DEF Reaches
<1>5. ASSUME NEW f \in FaceIds, CloseFace(f) PROVE OnlyTo' /\ Reached' /\ Reaches
  <2>1. UNCHANGED got BY <1>5 DEF CloseFace
  <2>2. QED BY <1>5, <2>1, DeliveredClose DEF Reaches
<1>6. CASE Pop
  <2>1. UNCHANGED got BY <1>6 DEF Pop
  <2>2. QED BY <1>6, <2>1, DeliveredPop DEF Reaches
<1>7. CASE ReadSlot
  <2>1. UNCHANGED got BY <1>7 DEF ReadSlot
  <2>2. QED BY <1>7, <2>1, DeliveredRead DEF Reaches
<1>8. CASE CheckActive
  <2>1. UNCHANGED got BY <1>8 DEF CheckActive
  <2>2. QED BY <1>8, <2>1, DeliveredCheck DEF Reaches
<1>9. CASE FirstWrite BY <1>9, DeliveredFirst
<1>10. CASE RestWrite BY <1>10, DeliveredRest
<1>11. CASE FreeBlock
  <2>1. UNCHANGED got BY <1>11 DEF FreeBlock
  <2>2. QED BY <1>11, <2>1, DeliveredFree DEF Reaches
<1>12. CASE UNCHANGED vars
  <2>1. /\ UNCHANGED <<ring, elem, main, tx, face, next, sent, got>>
        /\ TxBlock' = TxBlock /\ Sending' = Sending
    BY <1>12 DEF vars, TxBlock, Sending
  <2>2. InTurn' BY <2>1, InTurnKept DEF Reached
  <2>3. QED BY <2>1, <2>2, DeliveredQuiet DEF Reaches
<1>13. QED
  BY <1>1, <1>2, <1>3, <1>4, <1>5, <1>6, <1>7, <1>8, <1>9, <1>10, <1>11, <1>12 DEF Next, MainStep, TransmitStep

\* A peer gets only what was addressed to it, in order and without gaps, until the
\* Face-IDs have all been given once (cef_face_unused_faceid_search), for pipelines that
\* name a face only once in a list (cefnetd_frame_send_txque_faces).
THEOREM AllIsDelivered ==
  ASSUME \A fs \in Lists : IsInjective(fs)
  PROVE  Spec => Delivered
<1>1. Init => DeliveredInv
  <2>1. SUFFICES ASSUME Init PROVE DeliveredInv OBVIOUS
  <2>2. BlocksInv BY <2>1, BlocksInit
  <2>3. /\ elem = [b \in {} |-> 0] /\ tx.at = "pop" /\ main.at = "idle" /\ face = [f \in FaceIds |-> NoPeer]
        /\ sent = 0 /\ got = [k \in Peers |-> <<0, FrameLen>>] /\ ring.top = 0 /\ ring.bottom = 0
    BY <2>1 DEF Init, Idle, Ready, R!NewRing
  <2>4. \A f \in FaceIds : ~Active(f) BY <2>3 DEF Active
  <2>5. OnlyTo BY <2>3, <2>4 DEF OnlyTo
  <2>6. Used = {}
    <3>1. 0 % Slots = 0 BY Sizes
    <3>2. Count(ring) = 0 BY <2>3, <3>1 DEF Count
    <3>3. QED BY <2>3, <3>2 DEF Used
  <2>7. OneFace BY <2>4 DEF OneFace
  <2>8. \A k \in Peers : got[k][1] <= sent BY <2>3
  <2>9. Sooner BY <2>6, <2>8 DEF Sooner
  <2>10. InTurn BY <2>3 DEF InTurn, Sending
  <2>11. QED BY <2>2, <2>5, <2>7, <2>9, <2>10 DEF DeliveredInv, Reached
<1>2. [Next]_vars => (lapped => lapped') /\ (~lapped /\ lapped' => got' = got)
  <2>1. SUFFICES ASSUME [Next]_vars PROVE (lapped => lapped') /\ (~lapped /\ lapped' => got' = got) OBVIOUS
  <2>2. lapped' = lapped \/ \E k \in Peers : OpenFace(k)
    BY <2>1 DEF Next, MainStep, TransmitStep, Push, PushFails, SendFrame, CloseFace, Pop, ReadSlot,
                CheckActive, FirstWrite, RestWrite, FreeBlock, vars
  <2>3. CASE lapped' = lapped BY <2>3, Zenon
  <2>4. ASSUME NEW k \in Peers, OpenFace(k)
        PROVE  (lapped => lapped') /\ (~lapped /\ lapped' => got' = got)
    <3>1. lapped' = (lapped \/ Ahead = {}) /\ got' = got BY <2>4 DEF OpenFace
    <3>2. QED BY <3>1, Zenon
  <2>5. QED BY <2>2, <2>3, <2>4
<1>3. DeliveredInv /\ BlocksInv' /\ [Next]_vars => DeliveredInv' /\ (lapped' \/ Reaches)
  <2>1. SUFFICES ASSUME DeliveredInv, BlocksInv', [Next]_vars, ~lapped'
                 PROVE  OnlyTo' /\ Reached' /\ Reaches
    BY DEF DeliveredInv
  <2>2. ~lapped BY <2>1, <1>2
  <2>3. QED BY <2>1, <2>2, DeliveredNext DEF DeliveredInv
<1>4. DeliveredInv /\ BlocksInv' /\ [Next]_vars => [AddressedStep]_vars /\ [InOrderStep]_vars
  BY <1>2, <1>3 DEF Reaches, AddressedStep, InOrderStep
<1>5. QED BY <1>1, <1>3, <1>4, BlocksAlways, PTL DEF Spec, Delivered, Addressed, InOrder
=============================================================================
