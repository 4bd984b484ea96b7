-------------------------- MODULE MemoryCacheProofs --------------------------
(***************************************************************************)
(* The memory cache of csmgrd, for every capacity, number of buffers and   *)
(* of keys, and whatever messages bring: table, library, count and records *)
(* agree, and an entry is replaced by none that is older.                  *)
(***************************************************************************)
EXTENDS MemoryCache, FiniteSetTheorems, SequenceTheorems, TLAPS

-----------------------------------------------------------------------------
(* Lists without some of their elements.                                   *)

\* The list q names each element of E once and nothing else.
Once(q) == \A i, j \in DOMAIN q : q[i] = q[j] => i = j
Lists(q, E) == q \in Seq(E) /\ Once(q) /\ \A x \in E : \E i \in DOMAIN q : q[i] = x

\* The rank of a place among the places P
Upto(P, i) == {j \in P : j <= i}
Rank(P, i) == Cardinality(Upto(P, i))

LEMMA RankRises ==
  ASSUME NEW n \in Nat, NEW P, P \subseteq 1 .. n, NEW i \in P
  PROVE  /\ Rank(P, i) \in 1 .. Cardinality(P)
         /\ \A j \in P : j < i => Rank(P, j) < Rank(P, i)
<1>1. IsFiniteSet(P) /\ P \subseteq Nat
  <2>1. IsFiniteSet(1 .. n) BY FS_Interval
  <2>2. P \subseteq Nat OBVIOUS
  <2>3. QED BY <2>1, <2>2, FS_Subset
<1>2. ASSUME NEW E, E \subseteq P PROVE IsFiniteSet(E) /\ Cardinality(E) \in Nat /\ Cardinality(E) <= Cardinality(P)
  BY <1>1, <1>2, FS_Subset, FS_CardinalityType
<1>3. Upto(P, i) \subseteq P /\ i \in Upto(P, i) BY <1>1 DEF Upto
<1>4. Rank(P, i) # 0 BY <1>2, <1>3, FS_EmptySet DEF Rank
<1>5. Rank(P, i) \in Nat /\ Rank(P, i) <= Cardinality(P) BY <1>2, <1>3 DEF Rank
<1>6. Cardinality(P) \in Nat BY <1>1, FS_CardinalityType
<1>7. ASSUME NEW j \in P, j < i PROVE Rank(P, j) < Rank(P, i)
  <2>1. Upto(P, j) \subseteq Upto(P, i) /\ i \notin Upto(P, j)
    <3>1. i \in Nat /\ j \in Nat /\ ~(i <= j) BY <1>1, <1>7
    <3>2. \A h \in P : h \in Nat /\ (h <= j => h <= i) BY <1>1, <1>7, <3>1
    <3>3. QED BY <3>1, <3>2 DEF Upto
  <2>2. IsFiniteSet(Upto(P, i)) BY <1>2, <1>3
  <2>3. Cardinality(Upto(P, j)) <= Cardinality(Upto(P, i))
        /\ Cardinality(Upto(P, j)) # Cardinality(Upto(P, i))
    BY <1>3, <2>1, <2>2, FS_Subset
  <2>4. Cardinality(Upto(P, j)) \in Nat /\ Cardinality(Upto(P, i)) \in Nat
    BY <1>2, <1>3, <2>1
  <2>5. QED BY <2>3, <2>4 DEF Rank
<1>8. QED BY <1>4, <1>5, <1>6, <1>7

\* Every number up to their count is the rank of one of the places.
LEMMA RankedPlaces ==
  ASSUME NEW n \in Nat, NEW P, P \subseteq 1 .. n
  PROVE  /\ Cardinality(P) \in Nat
         /\ \A k \in 1 .. Cardinality(P) : \E i \in P : Rank(P, i) = k
         /\ \A i, j \in P : Rank(P, i) = Rank(P, j) => i = j
<1> DEFINE m == Cardinality(P)
           f == [i \in P |-> Rank(P, i)]
<1>1. IsFiniteSet(P) /\ m \in Nat
  <2>1. IsFiniteSet(1 .. n) BY FS_Interval
  <2>2. QED BY <2>1, FS_Subset, FS_CardinalityType
<1>2. \A i, j \in P : Rank(P, i) = Rank(P, j) => i = j
  <2>1. SUFFICES ASSUME NEW i \in P, NEW j \in P, Rank(P, i) = Rank(P, j), i # j PROVE FALSE
    OBVIOUS
  <2>2. i \in Int /\ j \in Int OBVIOUS
  <2>3. i < j \/ j < i BY <2>1, <2>2
  <2>4. Rank(P, i) < Rank(P, j) \/ Rank(P, j) < Rank(P, i) BY <2>3, RankRises
  <2>5. Rank(P, i) \in 1 .. m /\ Rank(P, j) \in 1 .. m BY RankRises
  <2>6. QED BY <2>1, <2>4, <2>5, <1>1
<1>3. f \in Injection(P, 1 .. m)
  <2>1. \A i \in P : Rank(P, i) \in 1 .. m BY RankRises
  <2>2. QED BY <1>2, <2>1 DEF Injection, IsInjective
<1>4. IsFiniteSet(1 .. m) /\ Cardinality(1 .. m) = m BY <1>1, FS_Interval
<1>5. f \in Surjection(P, 1 .. m) BY <1>1, <1>3, <1>4, FS_Injection
<1>6. \A k \in 1 .. m : \E i \in P : f[i] = k BY <1>5 DEF Surjection
<1>7. QED BY <1>1, <1>2, <1>6

LEMMA KeptLists ==
  ASSUME NEW E, NEW q, Lists(q, E), NEW gone
  PROVE  Lists(Kept(q, gone), E \ gone)
<1> DEFINE P == {i \in DOMAIN q : q[i] \notin gone}
           m == Cardinality(P)
           nth(n) == CHOOSE i \in P : Rank(P, i) = n
<1>1. q \in Seq(E) /\ Len(q) \in Nat /\ P \subseteq 1 .. Len(q) BY DEF Lists
<1>2. m \in Nat /\ (\A k \in 1 .. m : \E i \in P : Rank(P, i) = k)
      /\ \A i, j \in P : Rank(P, i) = Rank(P, j) => i = j
  BY <1>1, RankedPlaces
<1>3. \A k \in 1 .. m : nth(k) \in P /\ Rank(P, nth(k)) = k BY <1>2
<1>4. \A i \in P : Rank(P, i) \in 1 .. m /\ nth(Rank(P, i)) = i
  <2> TAKE i \in P
  <2>1. Rank(P, i) \in 1 .. m BY <1>1, RankRises
  <2>2. QED BY <1>2, <1>3, <2>1
<1>5. Kept(q, gone) = [n \in 1 .. m |-> q[nth(n)]] BY DEF Kept, Rank, Upto
<1>6. \A i \in P : i \in DOMAIN q /\ q[i] \in E \ gone BY <1>1
<1>7. \A x \in E \ gone : \E i \in P : q[i] = x BY DEF Lists
<1>8. \A i, j \in P : q[i] = q[j] => i = j BY DEF Lists, Once
<1> HIDE DEF P, m, nth
<1> DEFINE r == [n \in 1 .. m |-> q[nth(n)]]
<1>9. r \in Seq(E \ gone)
  <2>1. \A n \in 1 .. m : q[nth(n)] \in E \ gone BY <1>3, <1>6
  <2>2. QED BY <1>2, <2>1, IsASeq
<1>10. DOMAIN r = 1 .. m /\ \A n \in 1 .. m : r[n] = q[nth(n)] OBVIOUS
<1> HIDE DEF r
<1>11. Once(r)
  <2>1. SUFFICES ASSUME NEW a \in 1 .. m, NEW b \in 1 .. m, r[a] = r[b] PROVE a = b
    BY <1>10 DEF Once
  <2>2. nth(a) = nth(b) BY <1>3, <1>8, <1>10, <2>1
  <2>3. QED BY <1>3, <2>2
<1>12. \A x \in E \ gone : \E n \in DOMAIN r : r[n] = x
  <2> TAKE x \in E \ gone
  <2>1. PICK i \in P : q[i] = x BY <1>7
  <2>2. Rank(P, i) \in DOMAIN r /\ r[Rank(P, i)] = x BY <1>4, <1>10, <2>1
  <2>3. QED BY <2>2
<1>13. QED BY <1>5, <1>9, <1>11, <1>12 DEF Lists, r

LEMMA AppendLists ==
  ASSUME NEW E, NEW q, Lists(q, E), NEW x, x \notin E
  PROVE  Lists(Append(q, x), E \cup {x})
<1> DEFINE r == Append(q, x)
           n == Len(q)
<1>1. q \in Seq(E) /\ n \in Nat /\ DOMAIN q = 1 .. n BY DEF Lists
<1>2. r \in Seq(E \cup {x}) BY <1>1
<1>3. DOMAIN r = 1 .. n + 1 /\ r[n + 1] = x /\ \A i \in 1 .. n : r[i] = q[i] /\ r[i] \in E
  BY <1>1
<1>4. \A i \in 1 .. n + 1 : i = n + 1 \/ i \in 1 .. n BY <1>1
<1>5. 1 .. n \subseteq 1 .. n + 1 /\ n + 1 \in 1 .. n + 1 BY <1>1
<1> HIDE DEF r, n
<1>6. Once(r)
  <2>1. \A i, j \in 1 .. n : q[i] = q[j] => i = j BY <1>1 DEF Lists, Once
  <2>2. QED BY <1>3, <1>4, <2>1 DEF Once
<1>7. \A y \in E \cup {x} : \E i \in DOMAIN r : r[i] = y
  <2> TAKE y \in E \cup {x}
  <2>1. CASE y = x BY <1>3, <1>5, <2>1
  <2>2. CASE y \in E
    <3>1. PICK i \in DOMAIN q : q[i] = y BY <2>2 DEF Lists
    <3>2. QED BY <1>1, <1>3, <1>5, <3>1
  <2>3. QED BY <2>1, <2>2
<1>8. QED BY <1>2, <1>6, <1>7 DEF Lists, r

\* The length of the list is the number of its elements.
LEMMA ListCounts ==
  ASSUME NEW E, NEW q, Lists(q, E)
  PROVE  Range(q) = E /\ Len(q) = Cardinality(E) /\ q \in Seq(E)
<1>1. q \in Seq(E) /\ Len(q) \in Nat /\ q \in [1 .. Len(q) -> E] /\ DOMAIN q = 1 .. Len(q)
  BY DEF Lists
<1>2. Range(q) = E BY <1>1 DEF Range, Lists
<1>3. q \in Injection(1 .. Len(q), E) BY <1>1 DEF Lists, Once, Injection, IsInjective
<1>4. q \in Surjection(1 .. Len(q), E) BY <1>1 DEF Lists, Surjection
<1>5. ExistsBijection(1 .. Len(q), E) BY <1>3, <1>4 DEF ExistsBijection, Bijection
<1>6. Len(q) = Cardinality(E) BY <1>1, <1>5, FS_CountingElements
<1>7. QED BY <1>1, <1>2, <1>6
-----------------------------------------------------------------------------
(* The records of the contents.                                            *)

Records == [is : BOOLEAN, map : SUBSET Chunks, num : Nat, version : Nat, expiry : Nat]
StatType == [rcd : [Contents -> Records], con : Nat, cob : Nat]

\* What the records count, and the contents that have one
Units(st) == S!Units(st)
Known(st) == {c \in Contents : st.rcd[c].is}

\* A record counts the chunks it marks, and there is one only while it marks any.
Counts(r) == r.num = Cardinality(r.map) /\ r.is = (r.map # {})
Good(st) ==
  /\ st \in StatType /\ \A c \in Contents : Counts(st.rcd[c])
  /\ st.con = Cardinality(Known(st))
  /\ IsFiniteSet(Units(st)) /\ Cardinality(Units(st)) <= st.cob
\* No record was deleted before its chunks.
Exact(st) == st.cob = Cardinality(Units(st))

LEMMA Sets ==
  /\ Chunks \subseteq Nat /\ IsFiniteSet(Contents) /\ IsFiniteSet(Chunks) /\ IsFiniteSet(Keys)
  /\ \A M \in SUBSET Chunks : IsFiniteSet(M) /\ Cardinality(M) \in Nat
  /\ \A M \in SUBSET Contents : IsFiniteSet(M) /\ Cardinality(M) \in Nat
  /\ \A M \in SUBSET Keys : IsFiniteSet(M) /\ Cardinality(M) \in Nat
<1>1. Chunks \subseteq Nat /\ IsFiniteSet(Contents) /\ IsFiniteSet(Chunks) BY MemoryCacheAssumption
<1>2. IsFiniteSet(Keys) BY <1>1, FS_Product DEF Keys
<1>3. QED BY <1>1, <1>2, FS_Subset, FS_CardinalityType

LEMMA UnitsAre ==
  ASSUME NEW st, st \in StatType, NEW x
  PROVE  x \in Units(st) <=> \E c \in Contents, n \in Nat : x = <<c, n>> /\ 1 <= n /\ n <= st.rcd[c].num
<1>1. \A c \in Contents : st.rcd[c].num \in Nat BY DEF StatType, Records
<1>2. \A c \in Contents : x \in {c} \X (1 .. st.rcd[c].num)
         <=> \E n \in Nat : x = <<c, n>> /\ 1 <= n /\ n <= st.rcd[c].num
  <2> TAKE c \in Contents
  <2>1. \A n : n \in 1 .. st.rcd[c].num <=> n \in Nat /\ 1 <= n /\ n <= st.rcd[c].num BY <1>1
  <2>2. QED BY <2>1
<1>3. x \in Units(st) <=> \E c \in Contents : x \in {c} \X (1 .. st.rcd[c].num) BY DEF Units, S!Units
<1>4. QED BY <1>2, <1>3

\* The records u are those of st but for that of c.
Alike(st, u, c) == u \in StatType /\ \A d \in Contents \ {c} : u.rcd[d] = st.rcd[d]

\* One chunk more, or one chunk less, is one unit more or less.
LEMMA OneMore ==
  ASSUME NEW st, Good(st), NEW u, NEW c \in Contents, Alike(st, u, c),
         u.rcd[c].num = st.rcd[c].num + 1
  PROVE  IsFiniteSet(Units(u)) /\ Cardinality(Units(u)) = Cardinality(Units(st)) + 1
<1> DEFINE n == st.rcd[c].num
           x == <<c, n + 1>>
<1>1. st \in StatType /\ u \in StatType /\ n \in Nat /\ IsFiniteSet(Units(st))
  BY DEF Good, Alike, StatType, Records
<1>2. x \notin Units(st)
  <2>1. SUFFICES ASSUME NEW d \in Contents, NEW k \in Nat, x = <<d, k>>, k <= st.rcd[d].num PROVE FALSE
    BY <1>1, UnitsAre
  <2>2. d = c /\ k = n + 1 BY <2>1
  <2>3. QED BY <1>1, <2>1, <2>2
<1>3. ASSUME NEW y PROVE y \in Units(u) <=> y \in Units(st) \cup {x}
  <2>1. ASSUME NEW d \in Contents, NEW k \in Nat, 1 <= k
        PROVE  k <= u.rcd[d].num <=> k <= st.rcd[d].num \/ (d = c /\ k = n + 1)
    <3>1. CASE d = c BY <1>1, <2>1, <3>1
    <3>2. CASE d # c BY <2>1, <3>2 DEF Alike
    <3>3. QED BY <3>1, <3>2
  <2>2. y = x <=> \E d \in Contents, k \in Nat : y = <<d, k>> /\ 1 <= k /\ d = c /\ k = n + 1 BY <1>1
  <2> HIDE DEF x, n
  <2>3. y \in Units(u) <=> \E d \in Contents, k \in Nat : y = <<d, k>> /\ 1 <= k /\ k <= u.rcd[d].num
    BY <1>1, UnitsAre
  <2>4. y \in Units(st) <=> \E d \in Contents, k \in Nat : y = <<d, k>> /\ 1 <= k /\ k <= st.rcd[d].num
    BY <1>1, UnitsAre
  <2>5. QED BY <2>1, <2>2, <2>3, <2>4
<1>4. Units(u) = Units(st) \cup {x} BY <1>3
<1> HIDE DEF x, n
<1>5. QED BY <1>1, <1>2, <1>4, FS_AddElement

\* The other way round: u is st with one unit less.
LEMMA OneLess ==
  ASSUME NEW st, Good(st), NEW u, NEW c \in Contents, Alike(st, u, c),
         st.rcd[c].num = u.rcd[c].num + 1
  PROVE  IsFiniteSet(Units(u)) /\ Cardinality(Units(u)) = Cardinality(Units(st)) - 1
<1> DEFINE n == u.rcd[c].num
           x == <<c, n + 1>>
<1>1. st \in StatType /\ u \in StatType /\ n \in Nat /\ IsFiniteSet(Units(st))
  BY DEF Good, Alike, StatType, Records
<1>2. x \in Units(st)
  <2>1. n + 1 \in Nat /\ 1 <= n + 1 /\ n + 1 <= st.rcd[c].num BY <1>1
  <2>2. QED BY <1>1, <2>1, UnitsAre
<1>3. ASSUME NEW y PROVE y \in Units(u) <=> y \in Units(st) /\ y # x
  <2>1. ASSUME NEW d \in Contents, NEW k \in Nat, 1 <= k
        PROVE  k <= u.rcd[d].num <=> k <= st.rcd[d].num /\ ~(d = c /\ k = n + 1)
    <3>1. CASE d = c BY <1>1, <2>1, <3>1
    <3>2. CASE d # c BY <2>1, <3>2 DEF Alike
    <3>3. QED BY <3>1, <3>2
  <2>2. \A d \in Contents, k \in Nat : y = <<d, k>> => (y = x <=> d = c /\ k = n + 1) BY <1>1
  <2> HIDE DEF x, n
  <2>3. y \in Units(u) <=> \E d \in Contents, k \in Nat : y = <<d, k>> /\ 1 <= k /\ k <= u.rcd[d].num
    BY <1>1, UnitsAre
  <2>4. y \in Units(st) <=> \E d \in Contents, k \in Nat : y = <<d, k>> /\ 1 <= k /\ k <= st.rcd[d].num
    BY <1>1, UnitsAre
  <2>5. QED BY <2>1, <2>2, <2>3, <2>4
<1>4. Units(u) = Units(st) \ {x} BY <1>3
<1> HIDE DEF x, n
<1>5. QED BY <1>1, <1>2, <1>4, FS_RemoveElement

LEMMA SameUnits ==
  ASSUME NEW st, Good(st), NEW u, NEW c \in Contents, Alike(st, u, c), u.rcd[c].num = st.rcd[c].num
  PROVE  Units(u) = Units(st)
BY DEF Units, S!Units, Alike

\* A record that is deleted takes its units away.
LEMMA FewerUnits ==
  ASSUME NEW st, Good(st), NEW u, NEW c \in Contents, Alike(st, u, c), u.rcd[c].num = 0
  PROVE  IsFiniteSet(Units(u)) /\ Cardinality(Units(u)) <= Cardinality(Units(st))
<1>1. st \in StatType /\ u \in StatType /\ IsFiniteSet(Units(st)) /\ st.rcd[c].num \in Nat
  BY DEF Good, Alike, StatType, Records
<1>2. Units(u) \subseteq Units(st)
  <2>1. SUFFICES ASSUME NEW d \in Contents, NEW k \in Nat, 1 <= k, k <= u.rcd[d].num
                 PROVE  <<d, k>> \in Units(st)
    BY <1>1, UnitsAre
  <2>2. d # c BY <2>1
  <2>3. k <= st.rcd[d].num BY <2>1, <2>2 DEF Alike
  <2>4. QED BY <1>1, <2>1, <2>3, UnitsAre
<1>3. QED BY <1>1, <1>2, FS_Subset

-----------------------------------------------------------------------------
(* What the operations on the records do.                                  *)

\* The records st with r for c, and these totals
Edited(st, c, r, k, b) == [rcd |-> [st.rcd EXCEPT ![c] = r], con |-> k, cob |-> b]

LEMMA EditRecord ==
  ASSUME NEW st \in StatType, NEW c \in Contents, NEW r \in Records, NEW k \in Nat, NEW b \in Nat,
         NEW u, u = Edited(st, c, r, k, b)
  PROVE  Alike(st, u, c) /\ u.rcd[c] = r /\ u.con = k /\ u.cob = b
<1>1. st.rcd \in [Contents -> Records] BY DEF StatType
<1>2. [st.rcd EXCEPT ![c] = r] \in [Contents -> Records] BY <1>1
<1>3. u \in StatType BY <1>2 DEF StatType, Edited
<1>4. u.rcd[c] = r /\ \A d \in Contents \ {c} : u.rcd[d] = st.rcd[d] BY <1>1 DEF Edited
<1>5. QED BY <1>3, <1>4 DEF Alike, Edited

LEMMA RecordOf ==
  ASSUME NEW st, Good(st), NEW c \in Contents
  PROVE  /\ st \in StatType /\ st.con \in Nat /\ st.cob \in Nat
         /\ st.rcd[c] \in Records /\ Counts(st.rcd[c])
         /\ st.rcd[c].map \subseteq Chunks /\ IsFiniteSet(st.rcd[c].map)
         /\ st.rcd[c].num \in Nat /\ st.rcd[c].is \in BOOLEAN
         /\ ~st.rcd[c].is => st.rcd[c].map = {} /\ st.rcd[c].num = 0
<1>1. st \in StatType /\ st.con \in Nat /\ st.cob \in Nat /\ st.rcd[c] \in Records /\ Counts(st.rcd[c])
  BY DEF Good, StatType
<1>2. st.rcd[c].map \in SUBSET Chunks /\ st.rcd[c].num \in Nat /\ st.rcd[c].is \in BOOLEAN
  BY <1>1 DEF Records
<1>3. QED BY <1>1, <1>2, Sets, FS_EmptySet DEF Counts

\* The contents with a record, when that of c comes, stays or goes
LEMMA KnownAfter ==
  ASSUME NEW st, Good(st), NEW u, NEW c \in Contents, Alike(st, u, c)
  PROVE  /\ u.rcd[c].is => Cardinality(Known(u)) = st.con + (IF st.rcd[c].is THEN 0 ELSE 1)
         /\ ~u.rcd[c].is => Cardinality(Known(u)) = st.con - (IF st.rcd[c].is THEN 1 ELSE 0)
<1>1. IsFiniteSet(Known(st)) /\ st.con = Cardinality(Known(st)) BY Sets DEF Known, Good
<1>2. Cardinality(Known(st)) \in Nat BY <1>1, FS_CardinalityType
<1>3. c \in Known(st) <=> st.rcd[c].is BY DEF Known
<1>4. ASSUME u.rcd[c].is PROVE Known(u) = Known(st) \cup {c} BY <1>4 DEF Known, Alike
<1>5. ASSUME ~u.rcd[c].is PROVE Known(u) = Known(st) \ {c} BY <1>5 DEF Known, Alike
<1>6. Cardinality(Known(st) \cup {c}) = IF c \in Known(st) THEN Cardinality(Known(st)) ELSE Cardinality(Known(st)) + 1
  BY <1>1, FS_AddElement
<1>7. Cardinality(Known(st) \ {c}) = IF c \in Known(st) THEN Cardinality(Known(st)) - 1 ELSE Cardinality(Known(st))
  BY <1>1, FS_RemoveElement
<1>8. ASSUME u.rcd[c].is PROVE Cardinality(Known(u)) = st.con + (IF st.rcd[c].is THEN 0 ELSE 1)
  <2>1. CASE st.rcd[c].is BY <1>1, <1>2, <1>3, <1>4, <1>6, <1>8, <2>1
  <2>2. CASE ~st.rcd[c].is BY <1>1, <1>2, <1>3, <1>4, <1>6, <1>8, <2>2
  <2>3. QED BY <2>1, <2>2
<1>9. ASSUME ~u.rcd[c].is PROVE Cardinality(Known(u)) = st.con - (IF st.rcd[c].is THEN 1 ELSE 0)
  <2>1. CASE st.rcd[c].is BY <1>1, <1>2, <1>3, <1>5, <1>7, <1>9, <2>1
  <2>2. CASE ~st.rcd[c].is BY <1>1, <1>2, <1>3, <1>5, <1>7, <1>9, <2>2
  <2>3. QED BY <2>1, <2>2
<1>10. QED BY <1>8, <1>9

\* Good records stay good when one is changed and the totals follow.
LEMMA GoodAfter ==
  ASSUME NEW st, Good(st), NEW u, NEW c \in Contents, Alike(st, u, c), Counts(u.rcd[c]),
         u.con = Cardinality(Known(u)), IsFiniteSet(Units(u)), Cardinality(Units(u)) <= u.cob
  PROVE  Good(u)
BY DEF Good, Alike

LEMMA UpdatedRecords ==
  ASSUME NEW st, Good(st), NEW c \in Contents, NEW n \in Chunks, NEW e \in Nat,
         NEW u, u = S!Updated(st, c, n, e)
  PROVE  /\ Good(u) /\ Alike(st, u, c) /\ (Exact(st) => Exact(u))
         /\ u.rcd[c].map = st.rcd[c].map \cup {n}
<1> DEFINE s == st.rcd[c]
           new == IF n \in s.map THEN 0 ELSE 1
           l == S!Looked(st, c)
           r == [l EXCEPT !.map = @ \cup {n}, !.num = @ + new, !.expiry = IF @ < e THEN e ELSE @]
           k == st.con + (IF s.is THEN 0 ELSE 1)
<1>1. /\ st \in StatType /\ st.con \in Nat /\ st.cob \in Nat /\ s \in Records
      /\ s.num = Cardinality(s.map) /\ s.map \subseteq Chunks /\ IsFiniteSet(s.map) /\ s.num \in Nat
      /\ ~s.is => s.map = {} /\ s.num = 0
  BY RecordOf DEF Counts
<1>2. /\ l \in Records /\ l.is = TRUE /\ l.map = s.map /\ l.num = s.num
  <2>1. CASE s.is BY <1>1, <2>1 DEF S!Looked, Records
  <2>2. CASE ~s.is
    <3>1. l = [is |-> TRUE, map |-> {}, num |-> 0, version |-> 0, expiry |-> 0]
      BY <2>2 DEF S!Looked, S!Fresh, S!NoRecord, S!NoVersion
    <3>2. QED BY <1>1, <2>2, <3>1 DEF Records
  <2>3. QED BY <2>1, <2>2
<1>3. new \in {0, 1} /\ k \in Nat BY <1>1
<1>4. u = Edited(st, c, r, k, st.cob + new) BY <1>1, <1>2 DEF S!Updated, StatType, Edited
<1>5. r \in Records /\ r.is = TRUE /\ r.map = s.map \cup {n} /\ r.num = s.num + new
  <2> HIDE DEF l, s, new
  <2>1. l.map \cup {n} \in SUBSET Chunks /\ l.num + new \in Nat BY <1>1, <1>2, <1>3
  <2>2. QED BY <1>2, <2>1 DEF Records
<1> HIDE DEF r, l, k
<1>6. Cardinality(s.map \cup {n}) = s.num + new
  <2>1. Cardinality(s.map \cup {n}) = IF n \in s.map THEN Cardinality(s.map) ELSE Cardinality(s.map) + 1
    BY <1>1, FS_AddElement
  <2>2. QED BY <1>1, <2>1
<1>7. Alike(st, u, c) /\ u.rcd[c] = r /\ u.con = k /\ u.cob = st.cob + new
  BY <1>1, <1>3, <1>4, <1>5, EditRecord
<1>8. Counts(u.rcd[c]) BY <1>5, <1>6, <1>7 DEF Counts
<1>9. u.con = Cardinality(Known(u)) BY <1>5, <1>7, KnownAfter DEF k
<1>10. IsFiniteSet(Units(u)) /\ Cardinality(Units(u)) = Cardinality(Units(st)) + new
  <2>1. CASE new = 0
    <3>1. u.rcd[c].num = s.num BY <1>1, <1>5, <1>7, <2>1
    <3>2. Units(u) = Units(st) BY <1>7, <3>1, SameUnits
    <3>3. IsFiniteSet(Units(st)) BY DEF Good
    <3>4. QED BY <2>1, <3>2, <3>3, FS_CardinalityType
  <2>2. CASE new = 1
    <3>1. u.rcd[c].num = s.num + 1 BY <1>1, <1>5, <1>7, <2>2
    <3>2. QED BY <1>7, <2>2, <3>1, OneMore
  <2>3. QED BY <1>3, <2>1, <2>2
<1>11. Cardinality(Units(st)) \in Nat /\ Cardinality(Units(st)) <= st.cob BY FS_CardinalityType DEF Good
<1>12. Cardinality(Units(u)) <= u.cob /\ (Exact(st) => Exact(u))
  <2> HIDE DEF new
  <2>1. QED BY <1>1, <1>3, <1>7, <1>10, <1>11 DEF Exact
<1>13. QED BY <1>5, <1>7, <1>8, <1>9, <1>10, <1>12, GoodAfter

LEMMA DeletedRecords ==
  ASSUME NEW st, Good(st), NEW c \in Contents, NEW u, u = S!Deleted(st, c)
  PROVE  Good(u) /\ Alike(st, u, c) /\ u.rcd[c].map = {}
<1>1. CASE ~st.rcd[c].is
  <2>1. u = st BY <1>1 DEF S!Deleted
  <2>2. QED BY <1>1, <2>1, RecordOf DEF Alike
<1>2. CASE st.rcd[c].is
  <2> DEFINE r == S!NoRecord
             k == st.con - 1
             b == st.cob
  <2>1. st \in StatType /\ st.con \in Nat /\ st.cob \in Nat BY RecordOf
  <2>2. r \in Records /\ r.is = FALSE /\ r.map = {} /\ r.num = 0 BY DEF S!NoRecord, S!NoVersion, Records
  <2>3. st.con # 0
    <3>1. c \in Known(st) BY <1>2 DEF Known
    <3>2. IsFiniteSet(Known(st)) BY Sets DEF Known
    <3>3. QED BY <3>1, <3>2, FS_EmptySet DEF Good
  <2>4. k \in Nat /\ b \in Nat BY <2>1, <2>3
  <2>5. u = Edited(st, c, r, k, b) BY <1>2, <2>1 DEF S!Deleted, StatType, Edited
  <2> HIDE DEF r, k, b
  <2>6. Alike(st, u, c) /\ u.rcd[c] = r /\ u.con = k /\ u.cob = b
    BY <2>1, <2>2, <2>4, <2>5, EditRecord
  <2>7. Counts(u.rcd[c]) BY <2>2, <2>6, FS_EmptySet DEF Counts
  <2>8. u.con = Cardinality(Known(u)) BY <1>2, <2>1, <2>2, <2>6, KnownAfter DEF k
  <2>9. IsFiniteSet(Units(u)) /\ Cardinality(Units(u)) <= Cardinality(Units(st))
    BY <2>2, <2>6, FewerUnits
  <2>10. Cardinality(Units(u)) \in Nat /\ Cardinality(Units(st)) \in Nat /\ Cardinality(Units(st)) <= st.cob
    BY <2>9, FS_CardinalityType DEF Good
  <2>11. Cardinality(Units(u)) <= u.cob BY <2>1, <2>6, <2>9, <2>10 DEF b
  <2>12. QED BY <2>2, <2>6, <2>7, <2>8, <2>9, <2>11, GoodAfter
<1>3. QED BY <1>1, <1>2

LEMMA RemovedRecords ==
  ASSUME NEW st, Good(st), NEW c \in Contents, NEW n, NEW u, u = S!Removed(st, c, n)
  PROVE  /\ Good(u) /\ Alike(st, u, c) /\ (Exact(st) => Exact(u))
         /\ u.rcd[c].map = st.rcd[c].map \ {n}
<1> DEFINE s == st.rcd[c]
           M == s.map \ {n}
           old == IF n \in s.map THEN 1 ELSE 0
           rest == [s EXCEPT !.map = M, !.num = s.num - old]
           m == [st EXCEPT !.cob = @ - old, !.rcd[c] = rest]
           r == IF s.num - old = 0 THEN S!NoRecord ELSE rest
           k == IF s.num - old = 0 THEN st.con - 1 ELSE st.con
           b == st.cob - old
<1>1. /\ st \in StatType /\ st.con \in Nat /\ st.cob \in Nat /\ s \in Records
      /\ s.num = Cardinality(s.map) /\ s.map \subseteq Chunks /\ IsFiniteSet(s.map) /\ s.num \in Nat
      /\ s.is \in BOOLEAN /\ s.is = (s.map # {})
  BY RecordOf DEF Counts
<1>2. CASE ~s.is
  <2>1. u = st BY <1>2 DEF S!Removed
  <2>2. s.map = {} BY <1>2, RecordOf
  <2>3. QED BY <1>1, <2>1, <2>2 DEF Alike
<1>3. CASE s.is
  <2>1. old \in {0, 1} /\ old <= s.num /\ Cardinality(M) = s.num - old /\ IsFiniteSet(M)
    <3>1. Cardinality(M) = (IF n \in s.map THEN Cardinality(s.map) - 1 ELSE Cardinality(s.map)) /\ IsFiniteSet(M)
      BY <1>1, FS_RemoveElement
    <3>2. Cardinality(M) \in Nat BY <3>1, FS_CardinalityType
    <3> HIDE DEF s, M
    <3>3. QED BY <1>1, <3>1, <3>2
  <2>2. Cardinality(Units(st)) \in Nat /\ Cardinality(Units(st)) <= st.cob /\ IsFiniteSet(Units(st))
    BY FS_CardinalityType DEF Good
  <2>3. s.num # 0 BY <1>1, <1>3, FS_EmptySet
  <2>4. Cardinality(Units(st)) # 0
    <3>1. 1 <= s.num BY <1>1, <2>3
    <3>2. <<c, 1>> \in Units(st) BY <1>1, <3>1, UnitsAre
    <3>3. QED BY <2>2, <3>2, FS_EmptySet
  <2>5. b \in Nat
    <3> HIDE DEF old, s
    <3>1. QED BY <1>1, <2>1, <2>2, <2>4
  <2>6. st.con # 0
    <3>1. c \in Known(st) BY <1>3 DEF Known
    <3>2. IsFiniteSet(Known(st)) BY Sets DEF Known
    <3>3. QED BY <3>1, <3>2, FS_EmptySet DEF Good
  <2>7. k \in Nat BY <1>1, <2>6
  <2>8. M \in SUBSET Chunks BY <1>1
  <2>9. s.num - old \in Nat
    <3> HIDE DEF old, s
    <3>1. QED BY <1>1, <2>1
  <2>10. rest \in Records /\ rest.is = TRUE /\ rest.map = M /\ rest.num = s.num - old
    <3> HIDE DEF old, s, M
    <3>1. QED BY <1>1, <1>3, <2>8, <2>9 DEF Records
  <2>11. S!NoRecord \in Records /\ S!NoRecord.is = FALSE /\ S!NoRecord.map = {} /\ S!NoRecord.num = 0
    BY DEF S!NoRecord, S!NoVersion, Records
  <2>12. s.num - old = 0 <=> M = {} BY <2>1, FS_EmptySet
  <2>13. r \in Records /\ r.map = M /\ r.num = s.num - old /\ r.is = (M # {})
    <3> HIDE DEF rest, s, M, old
    <3>1. CASE s.num - old = 0 BY <2>11, <2>12, <3>1
    <3>2. CASE s.num - old # 0 BY <2>10, <2>12, <3>2
    <3>3. QED BY <3>1, <3>2
  <2>14. u = Edited(st, c, r, k, b)
    <3>1. m = Edited(st, c, rest, st.con, b)
      <4> DEFINE x == st.rcd  y == st.con  z == st.cob
      <4>1. st = [rcd |-> x, con |-> y, cob |-> z] BY <1>1 DEF StatType
      <4>2. m = [st EXCEPT !.cob = b, !.rcd = [x EXCEPT ![c] = rest]] OBVIOUS
      <4>3. Edited(st, c, rest, st.con, b) = [rcd |-> [x EXCEPT ![c] = rest], con |-> y, cob |-> b]
        BY DEF Edited
      <4> DEFINE w == [x EXCEPT ![c] = rest]
      <4> HIDE DEF rest, b, x, y, z, m
      <4>4. m = [[rcd |-> x, con |-> y, cob |-> z] EXCEPT !.cob = b, !.rcd = w] BY <4>1, <4>2
      <4> HIDE DEF w
      <4>5. m = [rcd |-> w, con |-> y, cob |-> b] BY <4>4
      <4>6. QED BY <4>3, <4>5 DEF w
    <3>2. m.rcd[c].num = s.num - old /\ m.rcd[c].is /\ m.con = st.con
      BY <1>1, <2>10, <3>1 DEF Edited, StatType
    <3>3. u = IF m.rcd[c].num = 0 THEN S!Deleted(m, c) ELSE m BY <1>3 DEF S!Removed
    <3>4. CASE s.num - old # 0 BY <3>1, <3>2, <3>3, <3>4
    <3>5. CASE s.num - old = 0
      <4>1. u = [m EXCEPT !.rcd[c] = S!NoRecord, !.con = @ - 1] BY <3>2, <3>3, <3>5 DEF S!Deleted
      <4> HIDE DEF m, rest, s, old, b
      <4>2. u = Edited(st, c, S!NoRecord, st.con - 1, b)
        <5> DEFINE R == [st.rcd EXCEPT ![c] = rest]
                   none == S!NoRecord
        <5>1. st.rcd \in [Contents -> Records] BY <1>1 DEF StatType
        <5> HIDE DEF none
        <5>2. [R EXCEPT ![c] = none] = [st.rcd EXCEPT ![c] = none] BY <5>1
        <5>3. m = [rcd |-> R, con |-> st.con, cob |-> b] BY <3>1 DEF Edited
        <5> HIDE DEF R
        <5>4. u = [rcd |-> [R EXCEPT ![c] = none], con |-> st.con - 1, cob |-> b] BY <4>1, <5>3 DEF none
        <5>5. QED BY <5>2, <5>4 DEF Edited, none
      <4>3. QED BY <3>5, <4>2
    <3>6. QED BY <3>4, <3>5
  <2> HIDE DEF r, k, b
  <2>15. Alike(st, u, c) /\ u.rcd[c] = r /\ u.con = k /\ u.cob = b
    BY <1>1, <2>5, <2>7, <2>13, <2>14, EditRecord
  <2>16. Counts(u.rcd[c]) BY <2>1, <2>13, <2>15 DEF Counts
  <2>17. u.con = Cardinality(Known(u))
    <3>1. CASE M = {}
      <4>1. ~u.rcd[c].is /\ k = st.con - 1 BY <2>12, <2>13, <2>15, <3>1 DEF k
      <4>2. QED BY <1>3, <2>15, <4>1, KnownAfter
    <3>2. CASE M # {}
      <4>1. u.rcd[c].is /\ k = st.con BY <2>12, <2>13, <2>15, <3>2 DEF k
      <4>2. QED BY <1>1, <1>3, <2>15, <4>1, KnownAfter
    <3>3. QED BY <3>1, <3>2
  <2>18. IsFiniteSet(Units(u)) /\ Cardinality(Units(u)) = Cardinality(Units(st)) - old
    <3>1. CASE old = 0
      <4>1. u.rcd[c].num = s.num BY <1>1, <2>13, <2>15, <3>1
      <4>2. Units(u) = Units(st) BY <2>15, <4>1, SameUnits
      <4>3. QED BY <2>2, <3>1, <4>2
    <3>2. CASE old = 1
      <4>1. s.num = u.rcd[c].num + 1 BY <1>1, <2>13, <2>15, <3>2
      <4>2. QED BY <2>15, <3>2, <4>1, OneLess
    <3>3. QED BY <2>1, <3>1, <3>2
  <2>19. Cardinality(Units(u)) <= u.cob /\ (Exact(st) => Exact(u))
    <3> HIDE DEF old
    <3>1. QED BY <1>1, <2>1, <2>2, <2>15, <2>18 DEF Exact, b
  <2>20. QED BY <2>13, <2>15, <2>16, <2>17, <2>18, <2>19, GoodAfter
<1>4. QED BY <1>1, <1>2, <1>3

\* A change that touches neither the marks nor the counts
LEMMA SameRecords ==
  ASSUME NEW st, Good(st), NEW c \in Contents, NEW r \in Records,
         r.is = st.rcd[c].is, r.map = st.rcd[c].map, r.num = st.rcd[c].num,
         NEW u, u = Edited(st, c, r, st.con, st.cob)
  PROVE  /\ Good(u) /\ Alike(st, u, c) /\ (Exact(st) => Exact(u))
         /\ u.rcd[c].map = st.rcd[c].map
<1>1. st \in StatType /\ st.con \in Nat /\ st.cob \in Nat /\ Counts(st.rcd[c]) BY RecordOf
<1>2. Alike(st, u, c) /\ u.rcd[c] = r /\ u.con = st.con /\ u.cob = st.cob BY <1>1, EditRecord
<1>3. Units(u) = Units(st) BY <1>2, SameUnits
<1>4. Known(u) = Known(st) BY <1>2 DEF Known, Alike
<1>5. Counts(u.rcd[c]) BY <1>1, <1>2 DEF Counts
<1>6. Good(u) BY <1>2, <1>3, <1>4, <1>5, GoodAfter DEF Good
<1>7. QED BY <1>2, <1>3, <1>6 DEF Exact

LEMMA VersionedRecords ==
  ASSUME NEW st, Good(st), NEW c \in Contents, NEW v \in Nat, NEW u, u = S!Versioned(st, c, v)
  PROVE  /\ Good(u) /\ Alike(st, u, c) /\ (Exact(st) => Exact(u))
         /\ u.rcd[c].map = st.rcd[c].map
<1>1. st \in StatType /\ st.rcd[c] \in Records BY RecordOf
<1>2. CASE u = st BY <1>1, <1>2 DEF Alike
<1>3. CASE u = [st EXCEPT !.rcd[c].version = v]
  <2> DEFINE r == [st.rcd[c] EXCEPT !.version = v]
  <2>1. r \in Records /\ r.is = st.rcd[c].is /\ r.map = st.rcd[c].map /\ r.num = st.rcd[c].num
    BY <1>1 DEF Records
  <2>2. u = Edited(st, c, r, st.con, st.cob) BY <1>1, <1>3 DEF Edited, StatType
  <2> HIDE DEF r
  <2>3. QED BY <2>1, <2>2, SameRecords
<1>4. QED BY <1>2, <1>3 DEF S!Versioned

LEMMA ExtendedRecords ==
  ASSUME NEW st, Good(st), NEW c \in Contents, NEW e \in Nat, NEW u, u = S!Extended(st, c, e)
  PROVE  /\ Good(u) /\ Alike(st, u, c) /\ (Exact(st) => Exact(u))
         /\ u.rcd[c].map = st.rcd[c].map
<1>1. st \in StatType /\ st.rcd[c] \in Records BY RecordOf
<1>2. CASE u = st BY <1>1, <1>2 DEF Alike
<1>3. CASE u = [st EXCEPT !.rcd[c].expiry = e]
  <2> DEFINE r == [st.rcd[c] EXCEPT !.expiry = e]
  <2>1. r \in Records /\ r.is = st.rcd[c].is /\ r.map = st.rcd[c].map /\ r.num = st.rcd[c].num
    BY <1>1 DEF Records
  <2>2. u = Edited(st, c, r, st.con, st.cob) BY <1>1, <1>3 DEF Edited, StatType
  <2> HIDE DEF r
  <2>3. QED BY <2>1, <2>2, SameRecords
<1>4. QED BY <1>2, <1>3 DEF S!Extended

-----------------------------------------------------------------------------
(* The cache: its table t, library q, count n and records st, when the     *)
(* contents up have lost a record to a newer version.                      *)

Objects == [content : Contents, chunk : Chunks, version : Nat, expiry : Nat, id : Nat]
HeldIn(t) == {k \in Keys : t[k] # Nothing}

Body(t, q, n) ==
  /\ t \in [Keys -> Objects \cup {Nothing}] /\ n = Cardinality(HeldIn(t))
  /\ Lists(q, IF alg = "None" THEN {} ELSE HeldIn(t))
Marked(t, st, up) ==
  \A c \in Contents \ up : st.rcd[c].map = {n \in Chunks : t[<<c, n>>] # Nothing}
Sound(t, q, n, st, up) == Body(t, q, n) /\ Good(st) /\ Marked(t, st, up) /\ (up = {} => Exact(st))

Parts(t, q, n, st) == [table |-> t, order |-> q, cobs |-> n, stat |-> st]

LEMMA ObjectsAre ==
  ASSUME NEW o \in Objects
  PROVE  /\ o # Nothing /\ Key(o) \in Keys /\ Key(o) = <<o.content, o.chunk>>
         /\ o.content \in Contents /\ o.chunk \in Chunks /\ o.version \in Nat /\ o.expiry \in Nat
<1>1. o.content \in Contents /\ o.chunk \in Chunks /\ o.version \in Nat /\ o.expiry \in Nat BY DEF Objects
<1>2. "chunk" \in DOMAIN o /\ "chunk" \notin DOMAIN Nothing BY DEF Objects, Nothing
<1>3. QED BY <1>1, <1>2 DEF Key, Keys

LEMMA EmptyLists == Lists(<<>>, {}) /\ \A q : Lists(q, {}) => q = <<>>
<1>1. Lists(<<>>, {}) BY DEF Lists, Once
<1>2. ASSUME NEW q, Lists(q, {}) PROVE q = <<>> BY <1>2 DEF Lists
<1>3. QED BY <1>1, <1>2

\* An entry that leaves is out of the table and of the library.
LEMMA BodyWithout ==
  ASSUME NEW t, NEW q, NEW n, Body(t, q, n), NEW k \in HeldIn(t)
  PROVE  /\ Body(Lacking(t, k), Without(q, k), n - 1)
         /\ HeldIn(Lacking(t, k)) = HeldIn(t) \ {k}
<1>1. t \in [Keys -> Objects \cup {Nothing}] /\ n = Cardinality(HeldIn(t)) /\ k \in Keys
      /\ Lists(q, IF alg = "None" THEN {} ELSE HeldIn(t))
  BY DEF Body, HeldIn
<1>2. Lacking(t, k) \in [Keys -> Objects \cup {Nothing}] BY <1>1 DEF Lacking
<1>3. HeldIn(Lacking(t, k)) = HeldIn(t) \ {k} BY <1>1 DEF Lacking, HeldIn
<1>4. Cardinality(HeldIn(t) \ {k}) = n - 1
  <2>1. HeldIn(t) \subseteq Keys BY DEF HeldIn
  <2>2. QED BY <1>1, <2>1, Sets, FS_RemoveElement
<1>5. Lists(Without(q, k), (IF alg = "None" THEN {} ELSE HeldIn(t)) \ {k}) BY <1>1, KeptLists DEF Without
<1>6. (IF alg = "None" THEN {} ELSE HeldIn(t)) \ {k} = IF alg = "None" THEN {} ELSE HeldIn(t) \ {k} OBVIOUS
<1>7. QED BY <1>2, <1>3, <1>4, <1>5, <1>6 DEF Body

\* One that enters is in both, once.
LEMMA BodyWith ==
  ASSUME NEW t, NEW q, NEW n, Body(t, q, n), NEW o \in Objects,
         NEW r, r = IF alg = "None" THEN <<>> ELSE Append(Without(q, Key(o)), Key(o)),
         NEW m, m = n + (IF t[Key(o)] = Nothing THEN 1 ELSE 0)
  PROVE  /\ Body(With(t, o), r, m)
         /\ HeldIn(With(t, o)) = HeldIn(t) \cup {Key(o)}
<1> DEFINE k == Key(o)
<1>1. t \in [Keys -> Objects \cup {Nothing}] /\ n = Cardinality(HeldIn(t))
      /\ Lists(q, IF alg = "None" THEN {} ELSE HeldIn(t))
  BY DEF Body
<1>2. k \in Keys /\ o # Nothing BY ObjectsAre
<1> HIDE DEF k
<1>3. With(t, o) = [t EXCEPT ![k] = o] BY DEF With, k
<1>4. With(t, o) \in [Keys -> Objects \cup {Nothing}] BY <1>1, <1>2, <1>3
<1>5. HeldIn(With(t, o)) = HeldIn(t) \cup {k} BY <1>1, <1>2, <1>3 DEF HeldIn
<1>6. Cardinality(HeldIn(t) \cup {k}) = m
  <2>1. IsFiniteSet(HeldIn(t)) /\ n \in Nat BY <1>1, Sets DEF HeldIn
  <2>2. k \in HeldIn(t) <=> t[k] # Nothing BY <1>2 DEF HeldIn
  <2>3. m = n + (IF t[k] = Nothing THEN 1 ELSE 0) BY DEF k
  <2>4. Cardinality(HeldIn(t) \cup {k})
          = IF k \in HeldIn(t) THEN Cardinality(HeldIn(t)) ELSE Cardinality(HeldIn(t)) + 1
    BY <2>1, FS_AddElement
  <2>5. QED BY <1>1, <2>1, <2>2, <2>3, <2>4
<1>7. Lists(r, IF alg = "None" THEN {} ELSE HeldIn(t) \cup {k})
  <2>1. CASE alg = "None" BY <2>1, EmptyLists
  <2>2. CASE alg # "None"
    <3>1. Lists(Without(q, k), HeldIn(t) \ {k}) BY <1>1, <2>2, KeptLists DEF Without
    <3>2. Lists(Append(Without(q, k), k), (HeldIn(t) \ {k}) \cup {k}) BY <3>1, AppendLists
    <3>3. (HeldIn(t) \ {k}) \cup {k} = HeldIn(t) \cup {k} OBVIOUS
    <3>4. QED BY <2>2, <3>2, <3>3 DEF k
  <2>3. QED BY <2>1, <2>2
<1>8. QED BY <1>4, <1>5, <1>6, <1>7 DEF Body, k

\* The marks follow the table.
LEMMA MarkedWith ==
  ASSUME NEW t \in [Keys -> Objects \cup {Nothing}], NEW st, NEW u, NEW up, Marked(t, st, up),
         NEW o \in Objects, Alike(st, u, o.content),
         u.rcd[o.content].map = st.rcd[o.content].map \cup {o.chunk}
  PROVE  Marked(With(t, o), u, up)
<1>1. o.content \in Contents /\ o.chunk \in Chunks /\ o # Nothing /\ Key(o) = <<o.content, o.chunk>>
      /\ Key(o) \in Keys
  BY ObjectsAre
<1>2. ASSUME NEW c \in Contents, NEW n \in Chunks
      PROVE  With(t, o)[<<c, n>>] = IF c = o.content /\ n = o.chunk THEN o ELSE t[<<c, n>>]
  <2>1. <<c, n>> \in Keys BY DEF Keys
  <2>2. QED BY <1>1, <2>1 DEF With
<1>3. ASSUME NEW c \in Contents \ up PROVE u.rcd[c].map = {n \in Chunks : With(t, o)[<<c, n>>] # Nothing}
  <2>1. st.rcd[c].map = {n \in Chunks : t[<<c, n>>] # Nothing} BY DEF Marked
  <2>2. CASE c = o.content BY <1>1, <1>2, <2>1, <2>2
  <2>3. CASE c # o.content
    <3>1. u.rcd[c].map = st.rcd[c].map BY <2>3 DEF Alike
    <3>2. \A n \in Chunks : With(t, o)[<<c, n>>] = t[<<c, n>>] BY <1>2, <2>3
    <3>3. QED BY <2>1, <3>1, <3>2
  <2>4. QED BY <2>2, <2>3
<1>4. QED BY <1>3 DEF Marked

LEMMA MarkedWithout ==
  ASSUME NEW t \in [Keys -> Objects \cup {Nothing}], NEW st, NEW u, NEW up, Marked(t, st, up),
         NEW k \in Keys, Alike(st, u, k[1]), u.rcd[k[1]].map = st.rcd[k[1]].map \ {k[2]}
  PROVE  Marked(Lacking(t, k), u, up)
<1>1. k[1] \in Contents /\ k[2] \in Chunks /\ k = <<k[1], k[2]>> BY DEF Keys
<1>2. ASSUME NEW c \in Contents, NEW n \in Chunks
      PROVE  Lacking(t, k)[<<c, n>>] = IF c = k[1] /\ n = k[2] THEN Nothing ELSE t[<<c, n>>]
  <2>1. <<c, n>> \in Keys BY DEF Keys
  <2>2. QED BY <1>1, <2>1 DEF Lacking
<1>3. ASSUME NEW c \in Contents \ up PROVE u.rcd[c].map = {n \in Chunks : Lacking(t, k)[<<c, n>>] # Nothing}
  <2>1. st.rcd[c].map = {n \in Chunks : t[<<c, n>>] # Nothing} BY DEF Marked
  <2>2. CASE c = k[1] BY <1>1, <1>2, <2>1, <2>2
  <2>3. CASE c # k[1]
    <3>1. u.rcd[c].map = st.rcd[c].map BY <2>3 DEF Alike
    <3>2. \A n \in Chunks : Lacking(t, k)[<<c, n>>] = t[<<c, n>>] BY <1>2, <2>3
    <3>3. QED BY <2>1, <3>1, <3>2
  <2>4. QED BY <2>2, <2>3
<1>4. QED BY <1>3 DEF Marked

-----------------------------------------------------------------------------
(* What the writer does to the cache.                                      *)

LEMMA LeavesParts ==
  ASSUME NEW t, NEW q, NEW n, NEW st, NEW k
  PROVE  /\ Leaves(Parts(t, q, n, st), k, FALSE) = Parts(Lacking(t, k), Without(q, k), n - 1, st)
         /\ Leaves(Parts(t, q, n, st), k, TRUE)
              = Parts(Lacking(t, k), Without(q, k), n - 1, S!Removed(st, k[1], k[2]))
BY DEF Leaves, Parts

\* The list and the count of mem_cs_store, and its records
Queued(q, o) == IF alg = "None" THEN <<>> ELSE Append(Without(q, Key(o)), Key(o))
CountedIn(t, n, o) == n + (IF t[Key(o)] = Nothing THEN 1 ELSE 0)
Noted(st, o) == S!Versioned(S!Updated(st, o.content, o.chunk, o.expiry), o.content, o.version)

LEMMA EntersParts ==
  ASSUME NEW t, NEW q, NEW n, NEW st, NEW o
  PROVE  Enters(Parts(t, q, n, st), o) = Parts(With(t, o), Queued(q, o), CountedIn(t, n, o), Noted(st, o))
BY DEF Enters, Parts, Queued, CountedIn, Noted

LEMMA NotedRecords ==
  ASSUME NEW st, Good(st), NEW o \in Objects, NEW u, u = Noted(st, o)
  PROVE  /\ Good(u) /\ Alike(st, u, o.content) /\ (Exact(st) => Exact(u))
         /\ u.rcd[o.content].map = st.rcd[o.content].map \cup {o.chunk}
<1> DEFINE w == S!Updated(st, o.content, o.chunk, o.expiry)
<1>1. o.content \in Contents /\ o.chunk \in Chunks /\ o.version \in Nat /\ o.expiry \in Nat BY ObjectsAre
<1>2. /\ Good(w) /\ Alike(st, w, o.content) /\ (Exact(st) => Exact(w))
      /\ w.rcd[o.content].map = st.rcd[o.content].map \cup {o.chunk}
  BY <1>1, UpdatedRecords
<1>3. u = S!Versioned(w, o.content, o.version) BY DEF Noted
<1> HIDE DEF w
<1>4. /\ Good(u) /\ Alike(w, u, o.content) /\ (Exact(w) => Exact(u))
      /\ u.rcd[o.content].map = w.rcd[o.content].map
  BY <1>1, <1>2, <1>3, VersionedRecords
<1>5. QED BY <1>2, <1>4 DEF Alike

\* An Object enters a sound cache.
LEMMA SoundEnters ==
  ASSUME NEW t, NEW q, NEW n, NEW st, NEW up, Sound(t, q, n, st, up), NEW o \in Objects
  PROVE  /\ Sound(With(t, o), Queued(q, o), CountedIn(t, n, o), Noted(st, o), up)
         /\ HeldIn(With(t, o)) = HeldIn(t) \cup {Key(o)}
<1>1. Body(t, q, n) /\ t \in [Keys -> Objects \cup {Nothing}] BY DEF Sound, Body
<1>2. Body(With(t, o), Queued(q, o), CountedIn(t, n, o)) /\ HeldIn(With(t, o)) = HeldIn(t) \cup {Key(o)}
  BY <1>1, BodyWith DEF Queued, CountedIn
<1> DEFINE u == Noted(st, o)
<1>3. /\ Good(u) /\ Alike(st, u, o.content) /\ (Exact(st) => Exact(u))
      /\ u.rcd[o.content].map = st.rcd[o.content].map \cup {o.chunk}
  BY NotedRecords DEF Sound
<1> HIDE DEF u
<1>4. Marked(With(t, o), u, up) BY <1>1, <1>3, MarkedWith DEF Sound
<1>5. QED BY <1>2, <1>3, <1>4 DEF Sound, u

\* A victim, or an overdue entry, leaves it with its mark.
LEMMA SoundLeaves ==
  ASSUME NEW t, NEW q, NEW n, NEW st, NEW up, Sound(t, q, n, st, up), NEW k \in HeldIn(t)
  PROVE  /\ Sound(Lacking(t, k), Without(q, k), n - 1, S!Removed(st, k[1], k[2]), up)
         /\ HeldIn(Lacking(t, k)) = HeldIn(t) \ {k}
<1>1. Body(t, q, n) /\ t \in [Keys -> Objects \cup {Nothing}] /\ k \in Keys /\ k[1] \in Contents
  BY DEF Sound, Body, HeldIn, Keys
<1>2. Body(Lacking(t, k), Without(q, k), n - 1) /\ HeldIn(Lacking(t, k)) = HeldIn(t) \ {k}
  BY <1>1, BodyWithout
<1> DEFINE u == S!Removed(st, k[1], k[2])
<1>3. /\ Good(u) /\ Alike(st, u, k[1]) /\ (Exact(st) => Exact(u))
      /\ u.rcd[k[1]].map = st.rcd[k[1]].map \ {k[2]}
  BY <1>1, RemovedRecords DEF Sound
<1> HIDE DEF u
<1>4. Marked(Lacking(t, k), u, up) BY <1>1, <1>3, MarkedWithout DEF Sound
<1>5. QED BY <1>2, <1>3, <1>4 DEF Sound, u

\* The old entry left before: it is overwritten, and its mark stays.
LEMMA SoundReplaces ==
  ASSUME NEW t, NEW q, NEW n, NEW st, NEW up, Sound(t, q, n, st, up), NEW o \in Objects, Key(o) \in HeldIn(t)
  PROVE  LET s == Lacking(t, Key(o))  r == Without(q, Key(o)) IN
         /\ Sound(With(s, o), Queued(r, o), CountedIn(s, n - 1, o), Noted(st, o), up)
         /\ With(s, o) = With(t, o) /\ CountedIn(s, n - 1, o) = n
<1> DEFINE k == Key(o)
           s == Lacking(t, k)
           r == Without(q, k)
<1>1. Body(t, q, n) /\ t \in [Keys -> Objects \cup {Nothing}] /\ k \in Keys /\ k \in HeldIn(t)
  BY DEF Sound, Body, HeldIn
<1>2. Body(s, r, n - 1) BY <1>1, BodyWithout
<1>3. With(s, o) = With(t, o) BY <1>1 DEF With, Lacking
<1>4. s[k] = Nothing BY <1>1 DEF Lacking
<1>5. n \in Nat
  <2>1. n = Cardinality(HeldIn(t)) /\ HeldIn(t) \subseteq Keys BY <1>1 DEF Body, HeldIn
  <2>2. QED BY <2>1, Sets
<1>6. CountedIn(s, n - 1, o) = n BY <1>4, <1>5 DEF CountedIn
<1> HIDE DEF s, r
<1>7. Body(With(s, o), Queued(r, o), CountedIn(s, n - 1, o)) BY <1>2, BodyWith DEF Queued, CountedIn
<1>8. Sound(With(t, o), Queued(q, o), CountedIn(t, n, o), Noted(st, o), up) BY SoundEnters
<1>9. Sound(With(s, o), Queued(r, o), CountedIn(s, n - 1, o), Noted(st, o), up) BY <1>3, <1>7, <1>8 DEF Sound
<1>10. QED BY <1>3, <1>6, <1>9 DEF s, r

\* The record of a content goes, and its marks count for nothing from then on.
LEMMA SoundDeletes ==
  ASSUME NEW t, NEW q, NEW n, NEW st, NEW up, Sound(t, q, n, st, up), NEW c \in Contents
  PROVE  Sound(t, q, n, S!Deleted(st, c), up \cup {c})
<1> DEFINE u == S!Deleted(st, c)
<1>1. Good(u) /\ Alike(st, u, c) BY DeletedRecords DEF Sound
<1> HIDE DEF u
<1>2. Marked(t, u, up \cup {c}) BY <1>1 DEF Sound, Marked, Alike
<1>3. QED BY <1>1, <1>2 DEF Sound, u

LEMMA ReplacedParts ==
  ASSUME NEW t, NEW q, NEW n, NEW st, NEW o
  PROVE  LET d == IF S!Newer(o.version, st.rcd[o.content].version) THEN S!Deleted(st, o.content) ELSE st IN
         Replaced(Parts(t, q, n, st), o) = Parts(With(t, o), Queued(q, o), CountedIn(t, n, o), Noted(d, o))
<1>1. Parts(t, q, n, st).stat = st BY DEF Parts
<1>2. \A d : [Parts(t, q, n, st) EXCEPT !.stat = d] = Parts(t, q, n, d) BY DEF Parts
<1>3. QED BY <1>1, <1>2, EntersParts DEF Replaced

-----------------------------------------------------------------------------
(* One Object that the writer takes.                                       *)

\* The cache is sound and has not more than its capacity; the deleter is told of contents
\* that lost a record and of no others.
SoundCache == Sound(table, order, cobs, stat, upgraded) /\ cobs <= Capacity
ToldOf(q, up) == \E T : q \in Seq(T) /\ \A d \in T : d.content \in up
CacheInv == SoundCache /\ ToldOf(pipe, upgraded)

\* The table t becomes u when o is written: no entry but o is new, and o is not older
\* than the one it replaces.
Turns(t, u, o) ==
  \A k \in Keys :
    u[k] \in {t[k], Nothing} \/ (k = Key(o) /\ u[k] = o /\ (t[k] # Nothing => o.version >= t[k].version))

LEMMA HereParts == Here = Parts(table, order, cobs, stat)
BY DEF Here, Parts

LEMMA BecomesParts ==
  ASSUME NEW t, NEW q, NEW n, NEW st, Becomes(Parts(t, q, n, st))
  PROVE  table' = t /\ order' = q /\ cobs' = n /\ stat' = st
BY DEF Becomes, Parts

LEMMA SoundTyped ==
  ASSUME NEW t, NEW q, NEW n, NEW st, NEW up, Sound(t, q, n, st, up)
  PROVE  /\ t \in [Keys -> Objects \cup {Nothing}] /\ n \in Nat
         /\ n = Cardinality(HeldIn(t)) /\ IsFiniteSet(HeldIn(t))
         /\ HeldIn(t) = {k \in Keys : t[k] # Nothing}
<1>1. HeldIn(t) \subseteq Keys BY DEF HeldIn
<1>2. QED BY <1>1, Sets DEF Sound, Body, HeldIn

LEMMA NewTurns ==
  ASSUME NEW t \in [Keys -> Objects \cup {Nothing}], NEW o \in Objects,
         t[Key(o)] # Nothing => o.version >= t[Key(o)].version
  PROVE  Turns(t, With(t, o), o)
<1>1. Key(o) \in Keys BY ObjectsAre
<1>2. QED BY <1>1 DEF Turns, With

LEMMA NewerRises ==
  ASSUME NEW v \in Nat, NEW w \in Nat, S!Newer(v, w)
  PROVE  v >= w
BY DEF S!Newer

\* What mem_cs_store leaves when o is new in t
LEMMA EntersSound ==
  ASSUME SoundCache, NEW o \in Objects, ~Stored(Key(o)), cobs < Capacity, Becomes(Enters(Here, o)),
         UNCHANGED upgraded
  PROVE  Sound(table', order', cobs', stat', upgraded') /\ cobs' <= Capacity /\ Turns(table, table', o)
<1>1. Sound(table, order, cobs, stat, upgraded) BY DEF SoundCache
<1>2. /\ table' = With(table, o) /\ order' = Queued(order, o) /\ cobs' = CountedIn(table, cobs, o)
      /\ stat' = Noted(stat, o)
  BY EntersParts, HereParts, BecomesParts
<1>3. Sound(table', order', cobs', stat', upgraded') BY <1>1, <1>2, SoundEnters
<1>4. cobs \in Nat /\ Capacity \in Nat /\ table \in [Keys -> Objects \cup {Nothing}]
  BY <1>1, SoundTyped, MemoryCacheAssumption
<1>5. cobs' = cobs + 1 BY <1>2 DEF CountedIn, Stored
<1>6. Turns(table, table', o) BY <1>2, <1>4, NewTurns DEF Stored
<1>7. QED BY <1>3, <1>4, <1>5, <1>6

\* And when a victim leaves for it
LEMMA EvictsSound ==
  ASSUME SoundCache, alg # "None", NEW o \in Objects, ~Stored(Key(o)), cobs >= Capacity,
         NEW v \in Victims(order), Becomes(Enters(Leaves(Here, v, TRUE), o)), UNCHANGED upgraded
  PROVE  Sound(table', order', cobs', stat', upgraded') /\ cobs' <= Capacity /\ Turns(table, table', o)
<1> DEFINE t == Lacking(table, v)
           q == Without(order, v)
           st == S!Removed(stat, v[1], v[2])
           k == Key(o)
           m == cobs - 1
<1>1. Sound(table, order, cobs, stat, upgraded) /\ cobs <= Capacity BY DEF SoundCache
<1>2. /\ cobs \in Nat /\ Capacity \in Nat /\ Capacity # 0
      /\ table \in [Keys -> Objects \cup {Nothing}] /\ cobs = Cardinality(HeldIn(table))
      /\ k \in Keys /\ k \notin HeldIn(table)
  BY <1>1, SoundTyped, MemoryCacheAssumption, ObjectsAre DEF Stored, HeldIn
<1>3. Lists(order, HeldIn(table)) BY <1>1 DEF Sound, Body
<1>4. v \in HeldIn(table)
  <2>1. Range(order) = HeldIn(table) /\ Len(order) = cobs /\ order \in Seq(HeldIn(table))
    BY <1>2, <1>3, ListCounts
  <2>2. Len(order) # 0 BY <1>1, <1>2, <2>1
  <2>3. Head(order) \in HeldIn(table) BY <2>1, <2>2
  <2>4. QED BY <2>1, <2>3 DEF Victims
<1>5. Leaves(Here, v, TRUE) = Parts(t, q, m, st) BY DEF Leaves, Here, Parts
<1>6. Sound(t, q, m, st, upgraded) /\ HeldIn(t) = HeldIn(table) \ {v}
  BY <1>1, <1>4, SoundLeaves
<1>7. t[k] = Nothing /\ Turns(table, With(t, o), o)
  <2>1. v \in Keys /\ v # k BY <1>2, <1>4 DEF HeldIn
  <2>2. \A j \in Keys : With(t, o)[j] = IF j = k THEN o ELSE IF j = v THEN Nothing ELSE table[j]
    BY <1>2, <2>1 DEF With, Lacking
  <2>3. t[k] = Nothing /\ table[k] = Nothing BY <1>2, <2>1 DEF Lacking, Stored
  <2> HIDE DEF t
  <2>4. Turns(table, With(t, o), o) BY <2>2, <2>3 DEF Turns
  <2>5. QED BY <2>3, <2>4
<1> HIDE DEF t, q, st, m
<1>8. /\ table' = With(t, o) /\ order' = Queued(q, o) /\ cobs' = CountedIn(t, m, o)
      /\ stat' = Noted(st, o)
  <2>1. Enters(Leaves(Here, v, TRUE), o)
          = Parts(With(t, o), Queued(q, o), CountedIn(t, m, o), Noted(st, o))
    <3>1. Enters(Parts(t, q, m, st), o)
            = Parts(With(t, o), Queued(q, o), CountedIn(t, m, o), Noted(st, o))
      BY EntersParts
    <3>2. QED BY <1>5, <3>1
  <2>2. Becomes(Parts(With(t, o), Queued(q, o), CountedIn(t, m, o), Noted(st, o))) BY <2>1
  <2>3. QED BY <2>2, BecomesParts
<1>9. Sound(table', order', cobs', stat', upgraded') BY <1>6, <1>8, SoundEnters
<1>10. cobs' <= Capacity BY <1>1, <1>2, <1>7, <1>8 DEF CountedIn, m
<1>11. QED BY <1>7, <1>8, <1>9, <1>10

\* The record of o's content, once a newer version has come
Bared(o) == IF S!Newer(o.version, stat.rcd[o.content].version) THEN S!Deleted(stat, o.content) ELSE stat

LEMMA BaredSound ==
  ASSUME SoundCache, NEW o \in Objects, Told(Here, o)
  PROVE  Sound(table, order, cobs, Bared(o), upgraded')
<1>1. Sound(table, order, cobs, stat, upgraded) /\ o.content \in Contents BY ObjectsAre DEF SoundCache
<1>2. Here.stat = stat BY DEF Here
<1>3. CASE S!Newer(o.version, stat.rcd[o.content].version)
  <2>1. upgraded' = upgraded \cup {o.content} BY <1>2, <1>3 DEF Told
  <2>2. Sound(table, order, cobs, S!Deleted(stat, o.content), upgraded \cup {o.content})
    BY <1>1, SoundDeletes
  <2>3. QED BY <1>3, <2>1, <2>2 DEF Bared
<1>4. CASE ~S!Newer(o.version, stat.rcd[o.content].version)
  <2>1. upgraded' = upgraded BY <1>2, <1>4 DEF Told
  <2>2. QED BY <1>1, <1>4, <2>1 DEF Bared
<1>5. QED BY <1>3, <1>4

\* A newer version replaces the entry, which left the library before.
LEMMA ReplacesSound ==
  ASSUME SoundCache, NEW o \in Objects, Stored(Key(o)), S!Newer(o.version, table[Key(o)].version),
         Becomes(Replaced(Leaves(Here, Key(o), FALSE), o)), Told(Here, o)
  PROVE  Sound(table', order', cobs', stat', upgraded') /\ cobs' <= Capacity /\ Turns(table, table', o)
<1> DEFINE k == Key(o)
           t == Lacking(table, k)
           q == Without(order, k)
           st == Bared(o)
           m == cobs - 1
<1>1. /\ cobs <= Capacity /\ table \in [Keys -> Objects \cup {Nothing}]
      /\ k \in Keys /\ k \in HeldIn(table) /\ table[k] \in Objects
  BY SoundTyped, ObjectsAre DEF SoundCache, HeldIn, Stored
<1>2. Leaves(Here, k, FALSE) = Parts(t, q, m, stat) BY DEF Leaves, Here, Parts
<1>3. Sound(table, order, cobs, st, upgraded') BY BaredSound
<1> DEFINE w == With(t, o)
           n == CountedIn(t, m, o)
<1>4. /\ Sound(w, Queued(q, o), n, Noted(st, o), upgraded')
      /\ w = With(table, o) /\ n = cobs
  BY <1>1, <1>3, SoundReplaces
<1>5. Replaced(Parts(t, q, m, stat), o) = Parts(w, Queued(q, o), n, Noted(st, o))
  BY ReplacedParts DEF Bared
<1>6. Becomes(Parts(w, Queued(q, o), n, Noted(st, o))) BY <1>2, <1>5
<1> HIDE DEF w, n, q, st
<1>7. table' = w /\ order' = Queued(q, o) /\ cobs' = n /\ stat' = Noted(st, o) BY <1>6, BecomesParts
<1>8. o.version >= table[k].version
  <2>1. o.version \in Nat /\ table[k].version \in Nat BY <1>1, ObjectsAre
  <2>2. QED BY <2>1, NewerRises
<1>9. Turns(table, table', o) BY <1>1, <1>4, <1>7, <1>8, NewTurns
<1>10. QED BY <1>1, <1>4, <1>7, <1>9

\* Without a library it is overwritten.
LEMMA OverwritesSound ==
  ASSUME SoundCache, NEW o \in Objects, Stored(Key(o)), S!Newer(o.version, table[Key(o)].version),
         Becomes(Replaced(Here, o)), Told(Here, o)
  PROVE  Sound(table', order', cobs', stat', upgraded') /\ cobs' <= Capacity /\ Turns(table, table', o)
<1> DEFINE k == Key(o)
           st == Bared(o)
           w == With(table, o)
           n == CountedIn(table, cobs, o)
<1>1. /\ cobs <= Capacity /\ cobs \in Nat /\ table \in [Keys -> Objects \cup {Nothing}]
      /\ k \in Keys /\ table[k] \in Objects
  BY SoundTyped, ObjectsAre DEF SoundCache, HeldIn, Stored
<1>2. Sound(table, order, cobs, st, upgraded') BY BaredSound
<1>3. Sound(w, Queued(order, o), n, Noted(st, o), upgraded') BY <1>2, SoundEnters
<1>4. n = cobs BY <1>1 DEF CountedIn, Stored
<1>5. Replaced(Parts(table, order, cobs, stat), o) = Parts(w, Queued(order, o), n, Noted(st, o))
  BY ReplacedParts DEF Bared
<1>6. Becomes(Parts(w, Queued(order, o), n, Noted(st, o))) BY <1>5, HereParts
<1> HIDE DEF w, n, st
<1>7. table' = w /\ order' = Queued(order, o) /\ cobs' = n /\ stat' = Noted(st, o) BY <1>6, BecomesParts
<1>8. o.version >= table[k].version
  <2>1. o.version \in Nat /\ table[k].version \in Nat BY <1>1, ObjectsAre
  <2>2. QED BY <2>1, NewerRises
<1>9. Turns(table, table', o) BY <1>1, <1>7, <1>8, NewTurns DEF w
<1>10. QED BY <1>1, <1>3, <1>4, <1>7, <1>9

\* Nor has an entry of the same version left it; its record has a new end of life.
LEMMA RefreshesSound ==
  ASSUME SoundCache, alg = "None", NEW o \in Objects, Stored(Key(o)), o.version = table[Key(o)].version,
         Becomes([Here EXCEPT !.table = With(@, o), !.stat = S!Extended(@, o.content, o.expiry)]),
         UNCHANGED upgraded
  PROVE  Sound(table', order', cobs', stat', upgraded') /\ cobs' <= Capacity /\ Turns(table, table', o)
<1> DEFINE k == Key(o)
           u == S!Extended(stat, o.content, o.expiry)
<1>1. /\ Sound(table, order, cobs, stat, upgraded) /\ cobs <= Capacity
      /\ table \in [Keys -> Objects \cup {Nothing}]
      /\ k \in Keys /\ table[k] \in Objects /\ k \in HeldIn(table)
      /\ o.content \in Contents /\ o.expiry \in Nat /\ o.version \in Nat /\ o.chunk \in Chunks
      /\ k = <<o.content, o.chunk>>
  BY SoundTyped, ObjectsAre DEF SoundCache, HeldIn, Stored
<1>2. table' = With(table, o) /\ order' = order /\ cobs' = cobs /\ stat' = u BY DEF Becomes, Here
<1>3. /\ Good(u) /\ Alike(stat, u, o.content) /\ (Exact(stat) => Exact(u))
      /\ u.rcd[o.content].map = stat.rcd[o.content].map
  BY <1>1, ExtendedRecords DEF Sound
<1> HIDE DEF u
<1>4. Body(With(table, o), order, cobs)
  <2>1. With(table, o) \in [Keys -> Objects \cup {Nothing}] /\ HeldIn(With(table, o)) = HeldIn(table)
    <3>1. o # Nothing BY ObjectsAre
    <3>2. With(table, o) = [table EXCEPT ![k] = o] BY DEF With
    <3> HIDE DEF k
    <3>3. QED BY <1>1, <3>1, <3>2 DEF HeldIn
  <2>2. QED BY <1>1, <2>1 DEF Sound, Body
<1>5. Marked(With(table, o), u, upgraded)
  <2>1. ASSUME NEW c \in Contents \ upgraded
        PROVE  u.rcd[c].map = {n \in Chunks : With(table, o)[<<c, n>>] # Nothing}
    <3>1. stat.rcd[c].map = {n \in Chunks : table[<<c, n>>] # Nothing} BY <1>1 DEF Sound, Marked
    <3>2. u.rcd[c].map = stat.rcd[c].map BY <1>3 DEF Alike
    <3>3. \A n \in Chunks : With(table, o)[<<c, n>>] # Nothing <=> table[<<c, n>>] # Nothing
      <4> TAKE n \in Chunks
      <4>1. <<c, n>> \in Keys BY DEF Keys
      <4>2. o # Nothing /\ table[k] # Nothing BY ObjectsAre DEF Stored
      <4>3. With(table, o) = [table EXCEPT ![k] = o] BY DEF With
      <4> HIDE DEF k
      <4>4. QED BY <1>1, <4>1, <4>2, <4>3
    <3>4. QED BY <3>1, <3>2, <3>3
  <2>2. QED BY <2>1 DEF Marked
<1>6. Sound(table', order', cobs', stat', upgraded') BY <1>1, <1>2, <1>3, <1>4, <1>5 DEF Sound
<1>7. o.version >= table[k].version BY <1>1
<1>8. Turns(table, table', o) BY <1>1, <1>2, <1>7, NewTurns
<1>9. QED BY <1>1, <1>2, <1>6, <1>8

LEMMA ToldMore ==
  ASSUME ToldOf(pipe, upgraded), NEW o, Told(Here, o)
  PROVE  ToldOf(pipe', upgraded')
<1>1. PICK T : pipe \in Seq(T) /\ \A d \in T : d.content \in upgraded BY DEF ToldOf
<1>2. CASE UNCHANGED <<pipe, upgraded>> BY <1>1, <1>2 DEF ToldOf
<1>3. CASE S!Newer(o.version, stat.rcd[o.content].version)
  <2> DEFINE first == S!FirstChunk(stat, o.content)
             last == S!LastChunk(stat, o.content)
             version == stat.rcd[o.content].version
             d == [content |-> o.content, version |-> version, first |-> first, last |-> last]
             U == T \cup {d}
  <2>1. pipe' = Append(pipe, d) /\ upgraded' = upgraded \cup {o.content} BY <1>3 DEF Told, Here
  <2> HIDE DEF first, last, version
  <2>2. d.content = o.content OBVIOUS
  <2> HIDE DEF d
  <2>3. pipe \in Seq(U) /\ d \in U BY <1>1
  <2>4. \A e \in U : e.content \in upgraded' BY <1>1, <2>1, <2>2
  <2> HIDE DEF U
  <2>5. Append(pipe, d) \in Seq(U) BY <2>3
  <2>6. QED BY <2>1, <2>4, <2>5 DEF ToldOf
<1>4. QED BY <1>2, <1>3 DEF Told, Here

\* Whatever the writer does with an Object, the cache is sound behind it.
LEMMA WriteKeeps ==
  ASSUME CacheInv, NEW o \in Objects,
         IF alg = "None" THEN WriteWithout(o) ELSE WriteWithLibrary(o)
  PROVE  /\ Sound(table', order', cobs', stat', upgraded') /\ cobs' <= Capacity
         /\ ToldOf(pipe', upgraded') /\ Turns(table, table', o)
<1>1. SoundCache /\ ToldOf(pipe, upgraded) /\ Capacity \in Nat BY MemoryCacheAssumption DEF CacheInv
<1>2. cobs \in Nat BY <1>1, SoundTyped DEF SoundCache
<1>3. ASSUME UNCHANGED <<cache, pipe, upgraded>>
      PROVE  /\ Sound(table', order', cobs', stat', upgraded') /\ cobs' <= Capacity
             /\ ToldOf(pipe', upgraded') /\ Turns(table, table', o)
  BY <1>1, <1>3 DEF SoundCache, cache, Turns
<1>4. ASSUME UNCHANGED <<pipe, upgraded>> PROVE ToldOf(pipe', upgraded') BY <1>1, <1>4
<1>5. CASE alg = "None" /\ WriteWithout(o)
  <2>1. CASE cobs < Capacity /\ ~Stored(Key(o)) /\ Becomes(Enters(Here, o)) /\ UNCHANGED <<pipe, upgraded>>
    BY <1>1, <1>4, <2>1, EntersSound
  <2>2. CASE /\ Stored(Key(o)) /\ o.version = table[Key(o)].version
             /\ Becomes([Here EXCEPT !.table = With(@, o), !.stat = S!Extended(@, o.content, o.expiry)])
             /\ UNCHANGED <<pipe, upgraded>>
    BY <1>1, <1>4, <1>5, <2>2, RefreshesSound
  <2>3. CASE /\ Stored(Key(o)) /\ S!Newer(o.version, table[Key(o)].version)
             /\ Becomes(Replaced(Here, o)) /\ Told(Here, o)
    BY <1>1, <2>3, OverwritesSound, ToldMore
  <2>4. QED BY <1>3, <1>5, <2>1, <2>2, <2>3 DEF WriteWithout, Break
<1>6. CASE alg # "None" /\ WriteWithLibrary(o)
  <2>1. CASE cobs < Capacity /\ ~Stored(Key(o)) /\ Becomes(Enters(Here, o)) /\ UNCHANGED <<pipe, upgraded>>
    BY <1>1, <1>4, <2>1, EntersSound
  <2>2. ASSUME ~Stored(Key(o)), cobs >= Capacity, UNCHANGED <<pipe, upgraded>>,
               NEW v \in Victims(order), Becomes(Enters(Leaves(Here, v, TRUE), o))
        PROVE  /\ Sound(table', order', cobs', stat', upgraded') /\ cobs' <= Capacity
               /\ ToldOf(pipe', upgraded') /\ Turns(table, table', o)
    BY <1>1, <1>4, <1>6, <2>2, EvictsSound
  <2>3. CASE /\ Stored(Key(o)) /\ S!Newer(o.version, table[Key(o)].version)
             /\ Becomes(Replaced(Leaves(Here, Key(o), FALSE), o)) /\ Told(Here, o)
    BY <1>1, <2>3, ReplacesSound, ToldMore
  <2>4. QED BY <1>3, <1>6, <2>1, <2>2, <2>3 DEF WriteWithLibrary, Break
<1>7. QED BY <1>5, <1>6

\* An overdue entry leaves, by the sweep or by the request that meets it.
LEMMA ExpireKeeps ==
  ASSUME CacheInv, NEW k \in Keys, Stored(k), Becomes(Leaves(Here, k, TRUE)), UNCHANGED <<pipe, upgraded>>
  PROVE  /\ Sound(table', order', cobs', stat', upgraded') /\ cobs' <= Capacity /\ ToldOf(pipe', upgraded')
         /\ table' = [table EXCEPT ![k] = Nothing]
<1>1. Sound(table, order, cobs, stat, upgraded) /\ cobs <= Capacity /\ Capacity \in Nat
      /\ cobs \in Nat /\ ToldOf(pipe, upgraded) /\ k \in HeldIn(table)
  BY SoundTyped, MemoryCacheAssumption DEF CacheInv, SoundCache, HeldIn, Stored
<1>2. /\ table' = Lacking(table, k) /\ order' = Without(order, k) /\ cobs' = cobs - 1
      /\ stat' = S!Removed(stat, k[1], k[2])
  BY DEF Becomes, Leaves, Here
<1>3. Sound(table', order', cobs', stat', upgraded') BY <1>1, <1>2, SoundLeaves
<1>4. QED BY <1>1, <1>2, <1>3 DEF Lacking

\* A hit moves the entry to the end of the library.
LEMMA SendKeeps ==
  ASSUME CacheInv, NEW k \in Keys, Stored(k), alg # "None", order' = Append(Without(order, k), k),
         UNCHANGED <<table, stat, cobs, upgraded>>
  PROVE  Sound(table', order', cobs', stat', upgraded')
<1>1. Sound(table, order, cobs, stat, upgraded) /\ k \in HeldIn(table)
  BY DEF CacheInv, SoundCache, HeldIn, Stored
<1>2. Lists(order, HeldIn(table)) BY <1>1 DEF Sound, Body
<1>3. Lists(Without(order, k), HeldIn(table) \ {k}) BY <1>2, KeptLists DEF Without
<1>4. Lists(Append(Without(order, k), k), (HeldIn(table) \ {k}) \cup {k}) BY <1>3, AppendLists
<1>5. (HeldIn(table) \ {k}) \cup {k} = HeldIn(table) BY <1>1
<1>6. QED BY <1>1, <1>4, <1>5 DEF Sound, Body

\* The deleter takes entries away whose content has lost its record.
LEMMA DeleteKeeps ==
  ASSUME CacheInv, DeleteOld
  PROVE  /\ Sound(table', order', cobs', stat', upgraded') /\ cobs' <= Capacity
         /\ ToldOf(pipe', upgraded') /\ \A k \in Keys : table'[k] \in {table[k], Nothing}
<1>1. /\ Sound(table, order, cobs, stat, upgraded) /\ cobs <= Capacity /\ Capacity \in Nat /\ cobs \in Nat
      /\ cobs = Cardinality(HeldIn(table)) /\ IsFiniteSet(HeldIn(table))
      /\ table \in [Keys -> Objects \cup {Nothing}] /\ HeldIn(table) = {k \in Keys : table[k] # Nothing}
      /\ Good(stat)
  BY SoundTyped, MemoryCacheAssumption DEF CacheInv, SoundCache, Sound
<1>2. PICK T : pipe \in Seq(T) /\ \A d \in T : d.content \in upgraded BY DEF CacheInv, ToldOf
<1>3. pipe # <<>> /\ pipe' = Tail(pipe) /\ upgraded' = upgraded BY DEF DeleteOld
<1>4. Head(pipe) \in T /\ pipe' \in Seq(T) BY <1>2, <1>3
<1>5. ToldOf(pipe', upgraded') BY <1>2, <1>3, <1>4 DEF ToldOf
<1> DEFINE d == Head(pipe)
           range == {<<d.content, n>> : n \in d.first .. d.last - 1}
           old == {k \in range \cap Keys : Stored(k) /\ table[k].version = d.version}
           kept == [k \in Keys |-> IF k \in old THEN Nothing ELSE table[k]]
<1>6. d.content \in upgraded BY <1>2, <1>4
<1>7. old \subseteq HeldIn(table) /\ \A k \in old : k[1] = d.content
  <2>1. \A k \in range : k[1] = d.content OBVIOUS
  <2> HIDE DEF range
  <2>2. QED BY <1>1, <2>1 DEF Stored
<1>8. CASE UNCHANGED cache BY <1>1, <1>3, <1>5, <1>8 DEF cache
<1>9. CASE /\ table' = kept /\ order' = Kept(order, old) /\ cobs' = cobs - Cardinality(old)
           /\ UNCHANGED <<stat, broken>>
  <2> HIDE DEF old, d
  <2>1. \A k \in Keys : table'[k] = IF k \in old THEN Nothing ELSE table[k] BY <1>9
  <2>2. table' \in [Keys -> Objects \cup {Nothing}] BY <1>1, <1>9
  <2>3. HeldIn(table') = HeldIn(table) \ old BY <1>1, <2>1 DEF HeldIn
  <2>4. cobs' = Cardinality(HeldIn(table')) /\ cobs' <= Capacity
    <3>1. IsFiniteSet(old) /\ Cardinality(old) \in Nat BY <1>1, <1>7, FS_Subset, FS_CardinalityType
    <3>2. Cardinality(HeldIn(table) \ old) = Cardinality(HeldIn(table)) - Cardinality(HeldIn(table) \cap old)
      BY <1>1, FS_Difference
    <3>3. HeldIn(table) \cap old = old BY <1>7
    <3>4. QED BY <1>1, <1>9, <2>3, <3>1, <3>2, <3>3
  <2>5. Lists(order', IF alg = "None" THEN {} ELSE HeldIn(table'))
    <3>1. Lists(order, IF alg = "None" THEN {} ELSE HeldIn(table)) BY <1>1 DEF Sound, Body
    <3>2. Lists(order', (IF alg = "None" THEN {} ELSE HeldIn(table)) \ old) BY <1>9, <3>1, KeptLists
    <3>3. (IF alg = "None" THEN {} ELSE HeldIn(table)) \ old = IF alg = "None" THEN {} ELSE HeldIn(table')
      BY <2>3
    <3>4. QED BY <3>2, <3>3
  <2>6. Body(table', order', cobs') BY <2>2, <2>4, <2>5 DEF Body
  <2>7. Marked(table', stat', upgraded')
    <3>1. SUFFICES ASSUME NEW c \in Contents \ upgraded
                   PROVE  stat.rcd[c].map = {n \in Chunks : table'[<<c, n>>] # Nothing}
      BY <1>3, <1>9 DEF Marked
    <3>2. stat.rcd[c].map = {n \in Chunks : table[<<c, n>>] # Nothing} BY <1>1 DEF Sound, Marked
    <3>3. \A n \in Chunks : table'[<<c, n>>] = table[<<c, n>>]
      <4> TAKE n \in Chunks
      <4>1. <<c, n>> \in Keys BY DEF Keys
      <4>2. <<c, n>> \notin old BY <1>6, <1>7
      <4>3. QED BY <2>1, <4>1, <4>2
    <3>4. QED BY <3>2, <3>3
  <2>8. Sound(table', order', cobs', stat', upgraded') BY <1>1, <1>3, <1>9, <2>6, <2>7 DEF Sound
  <2>9. QED BY <1>5, <2>1, <2>4, <2>8
<1>10. QED BY <1>8, <1>9 DEF DeleteOld

-----------------------------------------------------------------------------
(* The numbers of allocations: no Object is in two places.                 *)

Ids(q) == {q[i].id : i \in DOMAIN q}
Apart(q) == \A i, j \in DOMAIN q : q[i].id = q[j].id => i = j
\* The writer holds the mutex of buffer b.
Locked(b) == writer.at \in {"write", "done"} /\ writer.b = b

Typed ==
  /\ alg \in Algorithms /\ now \in 0 .. TimeMax /\ sem \in Nat /\ ids \in Nat
  /\ running \in BOOLEAN /\ broken \in BOOLEAN
  /\ buff \in [BufferIds -> Seq(Objects)] /\ \A b \in BufferIds : Len(buff[b]) <= BufferSize
  /\ put \in [at : {"idle", "fill"}, left : Seq(Objects), b : BufferIds, write : BOOLEAN]
  /\ writer \in [at : {"start", "gone", "wait", "try", "write", "done"}, b : BufferIds, left : Seq(Objects)]
  /\ getter.at = "look" => getter.key \in Keys

\* What is on its way to the table
Queues ==
  /\ Apart(put.left) /\ Apart(writer.left) /\ Ids(put.left) \subseteq 1 .. ids
  /\ \A b \in BufferIds : /\ Apart(buff[b]) /\ Ids(buff[b]) \subseteq 1 .. ids
                          /\ Ids(put.left) \cap Ids(buff[b]) = {}
                          /\ \A d \in BufferIds \ {b} : Ids(buff[b]) \cap Ids(buff[d]) = {}
  /\ writer.at = "write" \/ writer.left = <<>>
  /\ Ids(writer.left) \subseteq Ids(buff[writer.b])
\* What is in the table is not on its way, but for what the writer has just written.
Arrived(x) ==
  /\ x \in 1 .. ids /\ x \notin Ids(put.left) /\ x \notin Ids(writer.left)
  /\ \A b \in BufferIds : x \in Ids(buff[b]) => Locked(b)
Arrivals == \A k \in Keys : table[k] # Nothing => Arrived(table[k].id)

IInv == CacheInv /\ Typed /\ Queues /\ Arrivals

LEMMA EmptyIds == Ids(<<>>) = {} /\ Apart(<<>>) /\ \A E : <<>> \in Seq(E)
BY DEF Ids, Apart

LEMMA IdIn ==
  ASSUME NEW q, NEW x
  PROVE  x \in Ids(q) <=> \E i \in DOMAIN q : x = q[i].id
BY DEF Ids

LEMMA TailIds ==
  ASSUME NEW q \in Seq(Objects), q # <<>>, Apart(q)
  PROVE  /\ Head(q) \in Objects /\ Head(q).id \in Ids(q) /\ Head(q).id \notin Ids(Tail(q))
         /\ Tail(q) \in Seq(Objects) /\ Apart(Tail(q)) /\ Ids(Tail(q)) \subseteq Ids(q)
<1> DEFINE n == Len(q)
           r == Tail(q)
<1>1. n \in Nat /\ n >= 1 /\ DOMAIN q = 1 .. n /\ Head(q) = q[1] /\ Head(q) \in Objects OBVIOUS
<1>2. r \in Seq(Objects) /\ DOMAIN r = 1 .. n - 1 /\ \A i \in 1 .. n - 1 : r[i] = q[i + 1] OBVIOUS
<1> HIDE DEF n, r
<1>3. \A i \in 1 .. n - 1 : i + 1 \in DOMAIN q /\ i + 1 # 1 BY <1>1
<1>4. 1 \in DOMAIN q BY <1>1
<1>5. Head(q).id \in Ids(q) BY <1>1, <1>4, IdIn
<1>6. Head(q).id \notin Ids(r)
  <2>1. SUFFICES ASSUME NEW i \in 1 .. n - 1, q[1].id = q[i + 1].id PROVE FALSE
    BY <1>1, <1>2, IdIn
  <2>2. QED BY <1>3, <1>4, <2>1 DEF Apart
<1>7. Apart(r)
  <2>1. SUFFICES ASSUME NEW i \in 1 .. n - 1, NEW j \in 1 .. n - 1, q[i + 1].id = q[j + 1].id PROVE i = j
    BY <1>2 DEF Apart
  <2>2. i + 1 = j + 1 BY <1>3, <2>1 DEF Apart
  <2>3. i \in Int /\ j \in Int OBVIOUS
  <2>4. QED BY <2>2, <2>3
<1>8. Ids(r) \subseteq Ids(q) BY <1>2, <1>3 DEF Ids
<1>9. QED BY <1>1, <1>2, <1>5, <1>6, <1>7, <1>8 DEF r

\* The first n Objects of the list q, and the rest
Parted(q, n, p, r) ==
  /\ q \in Seq(Objects) /\ Apart(q) /\ n \in Nat /\ n <= Len(q)
  /\ p = SubSeq(q, 1, n) /\ r = SubSeq(q, n + 1, Len(q))

LEMMA CutIds ==
  ASSUME NEW q, NEW n, NEW p, NEW r, Parted(q, n, p, r)
  PROVE  /\ p \in Seq(Objects) /\ r \in Seq(Objects) /\ Apart(p) /\ Apart(r) /\ Len(p) = n
         /\ Ids(p) \subseteq Ids(q) /\ Ids(r) \subseteq Ids(q) /\ Ids(p) \cap Ids(r) = {}
         /\ n = 0 => p = <<>> /\ r = q
<1> USE DEF Parted
<1> DEFINE m == Len(q)
<1>1. m \in Nat /\ DOMAIN q = 1 .. m OBVIOUS
<1>2. p \in Seq(Objects) /\ Len(p) = n /\ DOMAIN p = 1 .. n /\ \A i \in 1 .. n : p[i] = q[i]
  BY <1>1
<1>3. r \in Seq(Objects) /\ DOMAIN r = 1 .. m - n /\ \A i \in 1 .. m - n : r[i] = q[n + i]
  BY <1>1
<1>4. n = 0 => p = <<>> /\ r = q BY <1>1, <1>2, <1>3
<1> HIDE DEF m
<1>5. (\A i \in 1 .. n : i \in DOMAIN q) /\ (\A i \in 1 .. m - n : n + i \in DOMAIN q) BY <1>1 DEF m
<1>6. Apart(p)
  <2>1. SUFFICES ASSUME NEW i \in 1 .. n, NEW j \in 1 .. n, q[i].id = q[j].id PROVE i = j
    BY <1>2 DEF Apart
  <2>2. QED BY <1>5, <2>1 DEF Apart
<1>7. Apart(r)
  <2>1. SUFFICES ASSUME NEW i \in 1 .. m - n, NEW j \in 1 .. m - n, q[n + i].id = q[n + j].id PROVE i = j
    BY <1>3 DEF Apart
  <2>2. n + i = n + j BY <1>5, <2>1 DEF Apart
  <2>3. i \in Int /\ j \in Int OBVIOUS
  <2>4. QED BY <2>2, <2>3
<1>8. Ids(p) \subseteq Ids(q) /\ Ids(r) \subseteq Ids(q) BY <1>2, <1>3, <1>5 DEF Ids
<1>9. Ids(p) \cap Ids(r) = {}
  <2>1. SUFFICES ASSUME NEW x \in Ids(p), x \in Ids(r) PROVE FALSE OBVIOUS
  <2>2. PICK i \in 1 .. n : x = q[i].id BY <1>2 DEF Ids
  <2>3. PICK j \in 1 .. m - n : x = q[n + j].id BY <1>3, <2>1 DEF Ids
  <2>4. i = n + j BY <1>5, <2>2, <2>3 DEF Apart
  <2>5. i <= n /\ 1 <= j /\ j \in Int OBVIOUS
  <2>6. QED BY <2>4, <2>5
<1>10. QED BY <1>2, <1>3, <1>4, <1>6, <1>7, <1>8, <1>9

LEMMA TypedParts ==
  ASSUME Typed
  PROVE  /\ put.left \in Seq(Objects) /\ put.b \in BufferIds /\ put.write \in BOOLEAN
         /\ writer.left \in Seq(Objects) /\ writer.b \in BufferIds
         /\ \A b \in BufferIds : buff[b] \in Seq(Objects)
         /\ Buffers \in Nat /\ Buffers # 0 /\ BufferSize \in Nat
BY MemoryCacheAssumption DEF Typed

-----------------------------------------------------------------------------
(* Each step keeps the invariant.                                          *)

LEMMA InitInv == Init => IInv
<1> SUFFICES ASSUME Init PROVE IInv OBVIOUS
<1>1. /\ table = [k \in Keys |-> Nothing] /\ stat = S!NewStat /\ order = <<>> /\ cobs = 0 /\ upgraded = {}
  BY DEF Init
<1>2. HeldIn(table) = {} BY <1>1 DEF HeldIn
<1>3. Body(table, order, cobs)
  <2>1. table \in [Keys -> Objects \cup {Nothing}] BY <1>1
  <2>2. cobs = Cardinality(HeldIn(table)) BY <1>1, <1>2, FS_EmptySet
  <2>3. QED BY <1>1, <1>2, <2>1, <2>2, EmptyLists DEF Body
<1>4. \A c \in Contents : stat.rcd[c] = S!NoRecord
  BY <1>1 DEF S!NewStat
<1>5. stat.con = 0 /\ stat.cob = 0 BY <1>1 DEF S!NewStat
<1>6. S!NoRecord \in Records /\ S!NoRecord.is = FALSE /\ S!NoRecord.map = {} /\ S!NoRecord.num = 0
  BY DEF S!NoRecord, S!NoVersion, Records
<1>7. stat \in StatType
  <2>1. stat = [rcd |-> [c \in Contents |-> S!NoRecord], con |-> 0, cob |-> 0] BY <1>1 DEF S!NewStat
  <2>2. [c \in Contents |-> S!NoRecord] \in [Contents -> Records] BY <1>6
  <2>3. QED BY <2>1, <2>2 DEF StatType
<1>8. Known(stat) = {} BY <1>4, <1>6 DEF Known
<1>9. Units(stat) = {}
  <2>1. \A c \in Contents : {c} \X (1 .. stat.rcd[c].num) = {} BY <1>4, <1>6
  <2>2. QED BY <2>1 DEF Units, S!Units
<1>10. Good(stat) /\ Exact(stat)
  <2>1. \A c \in Contents : Counts(stat.rcd[c]) BY <1>4, <1>6, FS_EmptySet DEF Counts
  <2>2. QED BY <1>5, <1>7, <1>8, <1>9, <2>1, FS_EmptySet DEF Good, Exact
<1>11. Marked(table, stat, upgraded)
  <2>1. \A c \in Contents, n \in Chunks : table[<<c, n>>] = Nothing BY <1>1 DEF Keys
  <2>2. QED BY <1>4, <1>6, <2>1 DEF Marked
<1>12. CacheInv
  <2>1. pipe \in Seq({}) BY EmptyIds DEF Init
  <2>2. ToldOf(pipe, upgraded) BY <2>1 DEF ToldOf
  <2>3. cobs <= Capacity BY <1>1, MemoryCacheAssumption
  <2>4. QED BY <1>3, <1>10, <1>11, <2>2, <2>3 DEF CacheInv, SoundCache, Sound
<1>13. Typed
  <2>1. 0 \in 0 .. TimeMax /\ 1 \in BufferIds BY MemoryCacheAssumption DEF BufferIds
  <2>2. \A b \in BufferIds : Len(buff[b]) <= BufferSize /\ buff[b] = <<>>
    BY MemoryCacheAssumption DEF Init
  <2>3. QED BY <2>1, <2>2, EmptyIds DEF Init, Typed
<1>14. Queues /\ Arrivals
  <2>1. put.left = <<>> /\ writer.left = <<>> /\ \A b \in BufferIds : buff[b] = <<>> BY DEF Init
  <2>2. QED BY <1>1, <2>1, EmptyIds DEF Queues, Arrivals
<1>15. QED BY <1>12, <1>13, <1>14 DEF IInv

\* What the threads other than the writer and the puts change leaves the queues as they are.
LEMMA CacheSteps ==
  ASSUME Typed, Queues, Arrivals, UNCHANGED <<buff, put, writer, ids>>,
         \A k \in Keys : table'[k] \in {table[k], Nothing}
  PROVE  Queues' /\ Arrivals'
<1>1. buff' = buff /\ put' = put /\ writer' = writer /\ ids' = ids OBVIOUS
<1>2. Queues' BY <1>1, Zenon DEF Queues
<1>3. ASSUME NEW x, Arrived(x)
      PROVE  /\ x \in 1 .. ids' /\ x \notin Ids(put'.left) /\ x \notin Ids(writer'.left)
             /\ \A b \in BufferIds : x \in Ids(buff'[b]) => (writer'.at \in {"write", "done"} /\ writer'.b = b)
  BY <1>1, <1>3 DEF Arrived, Locked
<1>4. Arrivals'
  <2>1. SUFFICES ASSUME NEW k \in Keys, table'[k] # Nothing PROVE Arrived(table[k].id)' 
    BY DEF Arrivals
  <2>2. table'[k] = table[k] /\ Arrived(table[k].id) BY <2>1 DEF Arrivals
  <2>3. QED BY <1>3, <2>2 DEF Arrived, Locked
<1>5. QED BY <1>2, <1>4

LEMMA CacheInvAfter ==
  ASSUME Sound(table', order', cobs', stat', upgraded'), cobs' <= Capacity, ToldOf(pipe', upgraded'),
         UNCHANGED alg
  PROVE  CacheInv'
BY DEF CacheInv, SoundCache, Sound, Body, ToldOf

LEMMA CacheUnchanged ==
  ASSUME CacheInv, UNCHANGED <<alg, cache, pipe, upgraded>>
  PROVE  CacheInv'
<1>1. Sound(table', order', cobs', stat', upgraded') /\ cobs' <= Capacity /\ ToldOf(pipe', upgraded')
  BY DEF CacheInv, SoundCache, cache
<1>2. QED BY <1>1, CacheInvAfter

LEMMA SetFlagInv == IInv /\ SetFlag => IInv'
<1> SUFFICES ASSUME IInv, SetFlag PROVE IInv' OBVIOUS
<1>1. CacheInv' BY CacheUnchanged DEF IInv, SetFlag, cache
<1>2. Typed' BY DEF IInv, SetFlag, Typed
<1>3. \A k \in Keys : table'[k] \in {table[k], Nothing} BY DEF SetFlag, cache
<1>4. Queues' /\ Arrivals' BY <1>3, CacheSteps DEF IInv, SetFlag
<1>5. QED BY <1>1, <1>2, <1>4 DEF IInv

LEMMA TickInv == IInv /\ Tick => IInv'
<1> SUFFICES ASSUME IInv, Tick PROVE IInv' OBVIOUS
<1>1. CacheInv' BY CacheUnchanged DEF IInv, Tick, cache
<1>2. now' \in 0 .. TimeMax BY MemoryCacheAssumption DEF IInv, Tick, Typed
<1>3. Typed' BY <1>2 DEF IInv, Tick, Typed
<1>4. \A k \in Keys : table'[k] \in {table[k], Nothing} BY DEF Tick, cache
<1>5. Queues' /\ Arrivals' BY <1>4, CacheSteps DEF IInv, Tick
<1>6. QED BY <1>1, <1>3, <1>5 DEF IInv

LEMMA ExpireInv == ASSUME NEW k \in Keys PROVE IInv /\ Expire(k) => IInv'
<1> SUFFICES ASSUME IInv, Expire(k) PROVE IInv' OBVIOUS
<1>1. /\ Sound(table', order', cobs', stat', upgraded') /\ cobs' <= Capacity /\ ToldOf(pipe', upgraded')
      /\ table' = [table EXCEPT ![k] = Nothing]
  BY ExpireKeeps DEF IInv, Expire
<1>2. CacheInv' BY <1>1, CacheInvAfter DEF Expire
<1>3. Typed' BY DEF IInv, Expire, Typed
<1>4. table \in [Keys -> Objects \cup {Nothing}] BY SoundTyped DEF IInv, CacheInv, SoundCache
<1>5. \A j \in Keys : table'[j] \in {table[j], Nothing} BY <1>1, <1>4
<1>6. Queues' /\ Arrivals' BY <1>5, CacheSteps DEF IInv, Expire
<1>7. QED BY <1>2, <1>3, <1>6 DEF IInv

LEMMA GetLookInv == ASSUME NEW k \in Keys, NEW v PROVE IInv /\ GetLook(k, v) => IInv'
<1> SUFFICES ASSUME IInv, GetLook(k, v) PROVE IInv' OBVIOUS
<1>1. CacheInv' BY CacheUnchanged DEF IInv, GetLook
<1>2. getter'.at = "look" => getter'.key \in Keys BY DEF GetLook
<1>3. Typed' BY <1>2 DEF IInv, GetLook, Typed
<1>4. \A j \in Keys : table'[j] \in {table[j], Nothing} BY DEF GetLook, cache
<1>5. Queues' /\ Arrivals' BY <1>4, CacheSteps DEF IInv, GetLook
<1>6. QED BY <1>1, <1>3, <1>5 DEF IInv

LEMMA GetSendInv == IInv /\ GetSend => IInv'
<1> SUFFICES ASSUME IInv, GetSend PROVE IInv' OBVIOUS
<1>1. getter.key \in Keys /\ getter'.at = "idle" BY DEF IInv, Typed, GetSend
<1>2. CacheInv'
  <2>1. CASE order' = order BY <2>1, CacheUnchanged DEF IInv, GetSend, cache
  <2>2. CASE order' # order
    <3>1. alg = "lru" /\ Stored(getter.key) /\ order' = Append(Without(order, getter.key), getter.key)
      BY <2>2 DEF GetSend
    <3>2. Sound(table', order', cobs', stat', upgraded') BY <1>1, <3>1, SendKeeps DEF IInv, GetSend
    <3>3. cobs' <= Capacity /\ ToldOf(pipe', upgraded') BY DEF IInv, GetSend, CacheInv, SoundCache
    <3>4. QED BY <3>2, <3>3, CacheInvAfter DEF GetSend
  <2>3. QED BY <2>1, <2>2
<1>3. Typed' BY <1>1 DEF IInv, GetSend, Typed
<1>4. \A j \in Keys : table'[j] \in {table[j], Nothing} BY DEF GetSend
<1>5. Queues' /\ Arrivals' BY <1>4, CacheSteps DEF IInv, GetSend
<1>6. QED BY <1>2, <1>3, <1>5 DEF IInv

LEMMA DeleteOldInv == IInv /\ DeleteOld => IInv'
<1> SUFFICES ASSUME IInv, DeleteOld PROVE IInv' OBVIOUS
<1>1. /\ Sound(table', order', cobs', stat', upgraded') /\ cobs' <= Capacity /\ ToldOf(pipe', upgraded')
      /\ \A k \in Keys : table'[k] \in {table[k], Nothing}
  BY DeleteKeeps DEF IInv
<1>2. CacheInv' BY <1>1, CacheInvAfter DEF DeleteOld
<1>3. broken' \in BOOLEAN BY DEF IInv, Typed, DeleteOld
<1>4. Typed' BY <1>3 DEF IInv, DeleteOld, Typed
<1>5. Queues' /\ Arrivals' BY <1>1, CacheSteps DEF IInv, DeleteOld
<1>6. QED BY <1>2, <1>4, <1>5 DEF IInv

-----------------------------------------------------------------------------
(* The steps that move Objects towards the table.                          *)

\* What a message brings: Objects without a number
Fresh == [content : Contents, chunk : Chunks, version : Nat, expiry : Nat, id : {0}]

LEMMA Numbered ==
  ASSUME NEW r \in Fresh, NEW n \in Nat
  PROVE  [r EXCEPT !.id = n] \in Objects /\ [r EXCEPT !.id = n].id = n
BY DEF Fresh, Objects

LEMMA PutInv == ASSUME NEW batch \in Batches PROVE IInv /\ Put(batch) => IInv'
<1> SUFFICES ASSUME IInv, Put(batch) PROVE IInv' OBVIOUS
<1> DEFINE n == Len(batch)
           q == [i \in DOMAIN batch |-> [batch[i] EXCEPT !.id = ids + i]]
<1>1. batch \in Seq(Fresh) BY MemoryCacheAssumption DEF Fresh
<1>2. n \in Nat /\ ids \in Nat /\ DOMAIN batch = 1 .. n BY <1>1 DEF IInv, Typed
<1>3. \A i \in 1 .. n : ids + i \in Nat /\ q[i] \in Objects /\ q[i].id = ids + i
  <2> TAKE i \in 1 .. n
  <2>1. ids + i \in Nat /\ batch[i] \in Fresh BY <1>1, <1>2
  <2>2. q[i] = [batch[i] EXCEPT !.id = ids + i] BY <1>2
  <2>3. QED BY <2>1, <2>2, Numbered
<1>4. DOMAIN q = 1 .. n BY <1>2
<1>5. q = [i \in 1 .. n |-> q[i]] BY <1>4
<1>6. /\ put' = [at |-> "fill", b |-> 1, write |-> FALSE, left |-> q]
      /\ ids' = ids + n
  BY DEF Put
<1> HIDE DEF q, n
<1>7. q \in Seq(Objects) BY <1>2, <1>3, <1>5, IsASeq
<1>8. Apart(q)
  <2>1. SUFFICES ASSUME NEW i \in 1 .. n, NEW j \in 1 .. n, q[i].id = q[j].id PROVE i = j
    BY <1>4 DEF Apart
  <2>2. ids + i = ids + j BY <1>3, <2>1
  <2>3. QED BY <1>2, <2>2
<1>9. \A x \in Ids(q) : x \in Nat /\ x > ids /\ x <= ids'
  <2>1. SUFFICES ASSUME NEW i \in 1 .. n PROVE q[i].id \in Nat /\ q[i].id > ids /\ q[i].id <= ids'
    BY <1>4 DEF Ids
  <2>2. QED BY <1>2, <1>3, <1>6
<1>10. \A x \in 1 .. ids : x \in 1 .. ids' /\ x \notin Ids(q)
  <2>1. ids' \in Nat /\ ids <= ids' BY <1>2, <1>6
  <2>2. QED BY <1>2, <1>9, <2>1
<1>11. UNCHANGED <<alg, now, table, order, cobs, stat, buff, sem, running, writer, getter, pipe, upgraded, broken>>
  BY DEF Put, cache
<1>12. CacheInv' BY <1>11, CacheUnchanged DEF IInv, cache
<1>13. put'.left = q BY <1>6
<1>14. Typed'
  <2>1. put' \in [at : {"idle", "fill"}, left : Seq(Objects), b : BufferIds, write : BOOLEAN]
    <3>1. 1 \in BufferIds BY MemoryCacheAssumption DEF BufferIds
    <3>2. QED BY <1>6, <1>7, <3>1
  <2>2. ids' \in Nat BY <1>2, <1>6
  <2>3. QED BY <1>11, <2>1, <2>2 DEF IInv, Typed
<1>15. Queues'
  <2>1. Queues BY DEF IInv
  <2>2. \A b \in BufferIds : Ids(buff[b]) \subseteq 1 .. ids BY <2>1 DEF Queues
  <2>3. Ids(q) \subseteq 1 .. ids' BY <1>2, <1>6, <1>9
  <2>4. \A b \in BufferIds : Ids(buff[b]) \subseteq 1 .. ids' /\ Ids(q) \cap Ids(buff[b]) = {}
    BY <1>10, <2>2
  <2>5. buff' = buff /\ writer' = writer BY <1>11
  <2>6. QED BY <1>8, <1>13, <2>1, <2>3, <2>4, <2>5 DEF Queues
<1>16. Arrivals'
  <2>1. SUFFICES ASSUME NEW k \in Keys, table[k] # Nothing PROVE Arrived(table[k].id)'
    BY <1>11 DEF Arrivals
  <2>2. Arrived(table[k].id) BY <2>1 DEF IInv, Arrivals
  <2>3. table[k].id \in 1 .. ids' /\ table[k].id \notin Ids(q) BY <1>10, <2>2 DEF Arrived
  <2>4. buff' = buff /\ writer' = writer /\ table' = table BY <1>11
  <2>5. QED BY <1>13, <2>2, <2>3, <2>4 DEF Arrived, Locked
<1>17. QED BY <1>12, <1>14, <1>15, <1>16 DEF IInv

LEMMA TakesFits ==
  ASSUME Typed
  PROVE  Takes \in Nat /\ Takes <= BufferSize /\ Takes <= Len(put.left)
<1> DEFINE m == Len(put.left)
           P == {BufferSize, m}
<1>1. m \in Nat /\ BufferSize \in Nat BY TypedParts
<1> HIDE DEF m
<1>2. \E x \in P : \A y \in P : x <= y BY <1>1
<1>3. Min(P) \in P /\ \A y \in P : Min(P) <= y BY <1>2 DEF Min
<1>4. QED BY <1>1, <1>3 DEF Takes, m

LEMMA FillInv == IInv /\ Fill => IInv'
<1> SUFFICES ASSUME IInv, Fill PROVE IInv' OBVIOUS
<1> DEFINE b == put.b
           free == ~(writer.at \in {"write", "done"} /\ writer.b = b)
           n == IF free /\ buff[b] = <<>> THEN Takes ELSE 0
           q == put.left
           p == SubSeq(q, 1, n)
           r == SubSeq(q, n + 1, Len(q))
           w == Flag(put.write, free /\ buff[b] \o p # <<>>)
<1>1. Typed /\ Queues /\ Arrivals BY DEF IInv
<1>2. /\ q \in Seq(Objects) /\ b \in BufferIds /\ put.write \in BOOLEAN /\ Apart(q)
      /\ buff \in [BufferIds -> Seq(Objects)] /\ BufferSize \in Nat /\ sem \in Nat
  BY <1>1, TypedParts DEF Queues, Typed
<1>3. n \in Nat /\ n <= BufferSize /\ n <= Len(q)
  <2>1. Len(q) \in Nat BY <1>2
  <2>2. QED BY <1>1, <1>2, <2>1, TakesFits
<1>4. w \in BOOLEAN
  <2> HIDE DEF n, b
  <2>1. (free /\ buff[b] \o p # <<>>) \in BOOLEAN OBVIOUS
  <2>2. QED BY <1>2, <2>1 DEF Flag
<1>5. /\ buff' = [buff EXCEPT ![b] = @ \o p]
      /\ \/ put' = [at |-> "idle", left |-> <<>>, b |-> 1, write |-> FALSE] /\ sem' \in {sem, sem + 1}
         \/ put' = [put EXCEPT !.b = b + 1, !.left = r, !.write = w] /\ sem' = sem /\ b # Buffers
      /\ UNCHANGED <<alg, now, table, order, cobs, stat, running, writer, getter, pipe, upgraded, broken, ids>>
  BY DEF Fill, cache
<1>6. n = 0 \/ (free /\ buff[b] = <<>>) OBVIOUS
<1> HIDE DEF n, w, free
<1>17. Parted(q, n, p, r) BY <1>2, <1>3 DEF Parted
<1> HIDE DEF p, r, q
<1>7. /\ p \in Seq(Objects) /\ r \in Seq(Objects) /\ Apart(p) /\ Apart(r) /\ Len(p) = n
      /\ Ids(p) \subseteq Ids(q) /\ Ids(r) \subseteq Ids(q) /\ Ids(p) \cap Ids(r) = {}
      /\ n = 0 => p = <<>> /\ r = q
  BY <1>17, CutIds
<1>8. put' \in [at : {"idle", "fill"}, left : Seq(Objects), b : BufferIds, write : BOOLEAN]
      /\ Apart(put'.left) /\ Ids(put'.left) \subseteq Ids(r)
  <2>1. CASE put' = [at |-> "idle", left |-> <<>>, b |-> 1, write |-> FALSE]
    <3>1. 1 \in BufferIds BY MemoryCacheAssumption DEF BufferIds
    <3>2. put'.left = <<>> BY <2>1
    <3>3. QED BY <2>1, <3>1, <3>2, EmptyIds
  <2>2. CASE put' = [put EXCEPT !.b = b + 1, !.left = r, !.write = w] /\ b # Buffers
    <3>1. b + 1 \in BufferIds BY <1>2, <2>2, MemoryCacheAssumption DEF BufferIds
    <3>2. put \in [at : {"idle", "fill"}, left : Seq(Objects), b : BufferIds, write : BOOLEAN]
      BY <1>1 DEF Typed
    <3>3. put'.left = r BY <2>2, <3>2
    <3> HIDE DEF b
    <3>4. put' \in [at : {"idle", "fill"}, left : Seq(Objects), b : BufferIds, write : BOOLEAN]
      BY <1>4, <1>7, <2>2, <3>1, <3>2
    <3>5. QED BY <1>7, <3>3, <3>4
  <2>3. QED BY <1>5, <2>1, <2>2
<1>9. sem' \in Nat BY <1>2, <1>5
<1>10. (n = 0 /\ buff' = buff) \/ (buff[b] = <<>> /\ buff' = [buff EXCEPT ![b] = p])
  <2>1. buff[b] \in Seq(Objects) BY <1>2
  <2>2. CASE n = 0
    <3>1. buff[b] \o p = buff[b] BY <1>7, <2>1, <2>2
    <3>2. QED BY <1>2, <1>5, <2>2, <3>1
  <2>3. CASE buff[b] = <<>>
    <3>1. buff[b] \o p = p BY <1>7, <2>3
    <3>2. QED BY <1>2, <1>5, <2>3, <3>1
  <2>4. QED BY <1>6, <2>2, <2>3
<1>11. CacheInv' BY <1>5, CacheUnchanged DEF IInv, cache
<1> HIDE DEF b, q
<1>12. Typed'
  <2>1. buff' \in [BufferIds -> Seq(Objects)] /\ \A d \in BufferIds : Len(buff'[d]) <= BufferSize
    <3>1. CASE buff' = buff BY <1>1, <3>1 DEF Typed
    <3>2. CASE buff' = [buff EXCEPT ![b] = p]
      <4>1. \A d \in BufferIds : buff'[d] = IF d = b THEN p ELSE buff[d] BY <1>2, <3>2
      <4>2. Len(p) <= BufferSize BY <1>3, <1>7
      <4>3. QED BY <1>1, <1>2, <1>7, <3>2, <4>1, <4>2 DEF Typed
    <3>3. QED BY <1>10, <3>1, <3>2
  <2>2. QED BY <1>1, <1>5, <1>8, <1>9, <2>1 DEF Typed
<1>13. Ids(put'.left) \subseteq Ids(put.left) /\ Ids(put'.left) \cap Ids(p) = {}
  BY <1>7, <1>8 DEF q
<1>14. writer' = writer /\ ids' = ids /\ table' = table BY <1>5
<1>15. CASE buff' = buff
  <2>1. Queues' BY <1>1, <1>8, <1>13, <1>14, <1>15 DEF Queues
  <2>2. Arrivals'
    <3>1. SUFFICES ASSUME NEW k \in Keys, table[k] # Nothing PROVE Arrived(table[k].id)'
      BY <1>14 DEF Arrivals
    <3>2. Arrived(table[k].id) BY <1>1, <3>1 DEF Arrivals
    <3>3. QED BY <1>13, <1>14, <1>15, <3>2 DEF Arrived, Locked
  <2>3. QED BY <1>11, <1>12, <2>1, <2>2 DEF IInv
<1>16. CASE buff[b] = <<>> /\ buff' = [buff EXCEPT ![b] = p]
  <2>1. \A d \in BufferIds : buff'[d] = IF d = b THEN p ELSE buff[d] BY <1>2, <1>16
  <2>2. Ids(p) \subseteq Ids(put.left) BY <1>7 DEF q
  <2>3. \A d \in BufferIds : Ids(buff'[d]) = IF d = b THEN Ids(p) ELSE Ids(buff[d]) BY <2>1
  <2>4. \A d \in BufferIds : Apart(buff'[d]) BY <1>1, <1>7, <2>1 DEF Queues
  <2>5. Queues'
    <3>1. Ids(put.left) \subseteq 1 .. ids /\ Ids(writer.left) \subseteq Ids(buff[writer.b])
          /\ writer.b \in BufferIds
      BY <1>1, TypedParts DEF Queues
    <3>2. Ids(writer.left) \subseteq Ids(buff'[writer.b])
      <4>1. CASE writer.b = b BY <1>16, <3>1, <4>1, EmptyIds
      <4>2. CASE writer.b # b BY <2>3, <3>1, <4>2
      <4>3. QED BY <4>1, <4>2
    <3>3. \A d \in BufferIds : Ids(buff'[d]) \subseteq 1 .. ids /\ Ids(put'.left) \cap Ids(buff'[d]) = {}
      <4> TAKE d \in BufferIds
      <4>1. CASE d = b BY <1>13, <2>2, <2>3, <3>1, <4>1
      <4>2. CASE d # b BY <1>1, <1>13, <2>3, <4>2 DEF Queues
      <4>3. QED BY <4>1, <4>2
    <3>4. \A d \in BufferIds : \A e \in BufferIds \ {d} : Ids(buff'[d]) \cap Ids(buff'[e]) = {}
      <4>1. SUFFICES ASSUME NEW d \in BufferIds, NEW e \in BufferIds, d # e
                     PROVE  Ids(buff'[d]) \cap Ids(buff'[e]) = {}
        OBVIOUS
      <4>2. Ids(put.left) \cap Ids(buff[d]) = {} /\ Ids(put.left) \cap Ids(buff[e]) = {}
            /\ Ids(buff[d]) \cap Ids(buff[e]) = {}
        BY <1>1, <4>1 DEF Queues
      <4>3. CASE d = b BY <2>2, <2>3, <4>1, <4>2, <4>3
      <4>4. CASE e = b BY <2>2, <2>3, <4>1, <4>2, <4>4
      <4>5. CASE d # b /\ e # b BY <2>3, <4>2, <4>5
      <4>6. QED BY <4>3, <4>4, <4>5
    <3>5. Apart(writer.left) /\ (writer.at = "write" \/ writer.left = <<>>) BY <1>1 DEF Queues
    <3>6. QED BY <1>8, <1>13, <1>14, <2>4, <3>1, <3>2, <3>3, <3>4, <3>5 DEF Queues
  <2>6. Arrivals'
    <3>1. SUFFICES ASSUME NEW k \in Keys, table[k] # Nothing PROVE Arrived(table[k].id)'
      BY <1>14 DEF Arrivals
    <3>2. Arrived(table[k].id) BY <1>1, <3>1 DEF Arrivals
    <3>3. table[k].id \notin Ids(put.left) BY <3>2 DEF Arrived
    <3>4. \A d \in BufferIds : table[k].id \in Ids(buff'[d]) => Locked(d)
      BY <2>2, <2>3, <3>2, <3>3 DEF Arrived
    <3>5. QED BY <1>13, <1>14, <3>2, <3>3, <3>4 DEF Arrived, Locked
  <2>7. QED BY <1>11, <1>12, <2>5, <2>6 DEF IInv
<1>18. QED BY <1>10, <1>15, <1>16

\* Between its rounds the writer holds nothing, and what it takes is not in the table.
LEMMA WriterTurns ==
  ASSUME IInv, writer.at \notin {"write", "done"}, UNCHANGED <<table, buff, put, ids>>,
         writer'.left = <<>> \/ (writer'.at = "write" /\ writer'.b \in BufferIds
                                  /\ writer'.left = buff[writer'.b])
  PROVE  Queues' /\ Arrivals'
<1>1. Queues /\ Arrivals BY DEF IInv
<1>2. table' = table /\ buff' = buff /\ put' = put /\ ids' = ids OBVIOUS
<1>3. Queues'
  <2>1. Apart(writer'.left) /\ Ids(writer'.left) \subseteq Ids(buff[writer'.b])
        /\ (writer'.at = "write" \/ writer'.left = <<>>)
    BY <1>1, EmptyIds DEF Queues
  <2>2. QED BY <1>1, <1>2, <2>1 DEF Queues
<1>4. Arrivals'
  <2>1. SUFFICES ASSUME NEW k \in Keys, table[k] # Nothing PROVE Arrived(table[k].id)'
    BY <1>2 DEF Arrivals
  <2>2. Arrived(table[k].id) BY <1>1, <2>1 DEF Arrivals
  <2>3. \A b \in BufferIds : table[k].id \notin Ids(buff[b]) BY <2>2 DEF Arrived, Locked
  <2>4. table[k].id \notin Ids(writer'.left) BY <2>3, EmptyIds
  <2>5. QED BY <1>2, <2>2, <2>3, <2>4 DEF Arrived
<1>5. QED BY <1>3, <1>4

WriterType ==
  [at : {"start", "gone", "wait", "try", "write", "done"}, b : BufferIds, left : Seq(Objects)]

LEMMA NextBufferIs ==
  ASSUME Typed
  PROVE  NextBuffer \in WriterType /\ NextBuffer.left = <<>> /\ NextBuffer.at \in {"wait", "try"}
<1>1. writer.b \in BufferIds /\ 1 \in BufferIds BY MemoryCacheAssumption, TypedParts DEF BufferIds
<1>2. writer.b # Buffers => writer.b + 1 \in BufferIds BY <1>1, MemoryCacheAssumption DEF BufferIds
<1>3. QED BY <1>1, <1>2, EmptyIds DEF NextBuffer, WriterType

LEMMA WriterStartInv == IInv /\ WriterStart => IInv'
<1> SUFFICES ASSUME IInv, WriterStart PROVE IInv' OBVIOUS
<1>1. UNCHANGED <<alg, now, table, order, cobs, stat, buff, sem, running, put, getter, pipe, upgraded, puts, ids, broken>>
  BY DEF WriterStart, cache
<1>2. writer \in WriterType /\ writer.left = <<>> BY DEF IInv, Typed, Queues, WriterType, WriterStart
<1>3. writer' \in WriterType /\ writer'.left = <<>>
  <2>1. writer' = [writer EXCEPT !.at = "wait"] \/ writer' = [writer EXCEPT !.at = "gone"]
    BY DEF WriterStart
  <2>2. QED BY <1>2, <2>1 DEF WriterType
<1>4. CacheInv' BY <1>1, CacheUnchanged DEF IInv, cache
<1>5. Typed' BY <1>1, <1>3 DEF IInv, Typed, WriterType
<1>6. Queues' /\ Arrivals' BY <1>1, <1>3, WriterTurns DEF WriterStart
<1>7. QED BY <1>4, <1>5, <1>6 DEF IInv

LEMMA WriterWakeInv == IInv /\ WriterWake => IInv'
<1> SUFFICES ASSUME IInv, WriterWake PROVE IInv' OBVIOUS
<1>1. UNCHANGED <<alg, now, table, order, cobs, stat, buff, running, put, getter, pipe, upgraded, puts, ids, broken>>
  BY DEF WriterWake, cache
<1>2. writer \in WriterType /\ writer.left = <<>> /\ sem \in Nat /\ 1 \in BufferIds
  BY MemoryCacheAssumption DEF IInv, Typed, Queues, WriterType, WriterWake, BufferIds
<1>3. writer' \in WriterType /\ writer'.left = <<>>
  <2>1. writer' = [writer EXCEPT !.at = "try", !.b = 1] BY DEF WriterWake
  <2>2. QED BY <1>2, <2>1 DEF WriterType
<1>4. sem' \in Nat BY <1>2 DEF WriterWake
<1>5. CacheInv' BY <1>1, CacheUnchanged DEF IInv, cache
<1>6. Typed' BY <1>1, <1>3, <1>4 DEF IInv, Typed, WriterType
<1>7. Queues' /\ Arrivals' BY <1>1, <1>3, WriterTurns DEF WriterWake
<1>8. QED BY <1>5, <1>6, <1>7 DEF IInv

LEMMA WriterTryInv == IInv /\ WriterTry => IInv'
<1> SUFFICES ASSUME IInv, WriterTry PROVE IInv' OBVIOUS
<1>1. UNCHANGED <<alg, now, table, order, cobs, stat, buff, sem, running, put, getter, pipe, upgraded, puts, ids, broken>>
  BY DEF WriterTry, cache
<1>2. writer \in WriterType /\ writer.b \in BufferIds /\ buff[writer.b] \in Seq(Objects) /\ Typed
  BY TypedParts DEF IInv, Typed, WriterType
<1>3. /\ writer' \in WriterType
      /\ writer'.left = <<>> \/ (writer'.at = "write" /\ writer'.b \in BufferIds
                                   /\ writer'.left = buff[writer'.b])
  <2>1. CASE writer' = NextBuffer BY <1>2, <2>1, NextBufferIs
  <2>2. CASE writer' = [writer EXCEPT !.at = "write", !.left = buff[writer.b]]
    BY <1>2, <2>2 DEF WriterType
  <2>3. QED BY <2>1, <2>2 DEF WriterTry
<1>4. CacheInv' BY <1>1, CacheUnchanged DEF IInv, cache
<1>5. Typed' BY <1>1, <1>3 DEF IInv, Typed, WriterType
<1>6. Queues' /\ Arrivals' BY <1>1, <1>3, WriterTurns DEF WriterTry
<1>7. QED BY <1>4, <1>5, <1>6 DEF IInv

LEMMA WriterDoneInv == IInv /\ WriterDone => IInv'
<1> SUFFICES ASSUME IInv, WriterDone PROVE IInv' OBVIOUS
<1>1. UNCHANGED <<alg, now, table, order, cobs, stat, sem, running, put, getter, pipe, upgraded, puts, ids, broken>>
  BY DEF WriterDone, cache
<1>2. Typed /\ Queues /\ Arrivals BY DEF IInv
<1>3. writer' \in WriterType /\ writer'.left = <<>> BY <1>2, NextBufferIs DEF WriterDone
<1>4. /\ buff \in [BufferIds -> Seq(Objects)] /\ writer.b \in BufferIds /\ BufferSize \in Nat
      /\ \A b \in BufferIds : buff'[b] = IF b = writer.b THEN <<>> ELSE buff[b]
      /\ buff' = [buff EXCEPT ![writer.b] = <<>>]
  BY <1>2, TypedParts DEF Typed, WriterDone
<1>5. buff' \in [BufferIds -> Seq(Objects)] /\ \A b \in BufferIds : Len(buff'[b]) <= BufferSize
  <2>1. \A b \in BufferIds : Len(buff'[b]) <= BufferSize BY <1>2, <1>4 DEF Typed
  <2>2. QED BY <1>4, <2>1, EmptyIds
<1>6. CacheInv' BY <1>1, CacheUnchanged DEF IInv, cache
<1>7. Typed' BY <1>1, <1>2, <1>3, <1>5 DEF Typed, WriterType
<1>8. \A b \in BufferIds : /\ Apart(buff'[b]) /\ Ids(buff'[b]) \subseteq Ids(buff[b])
                            /\ (b = writer.b => Ids(buff'[b]) = {})
  BY <1>2, <1>4, EmptyIds DEF Queues
<1>9. put' = put /\ ids' = ids /\ table' = table BY <1>1
<1>10. Queues'
  <2>1. Apart(writer'.left) /\ Ids(writer'.left) = {} BY <1>3, EmptyIds
  <2>2. \A b \in BufferIds : Ids(buff'[b]) \subseteq 1 .. ids /\ Ids(put.left) \cap Ids(buff'[b]) = {}
    BY <1>2, <1>8 DEF Queues
  <2>3. \A b \in BufferIds : \A d \in BufferIds \ {b} : Ids(buff'[b]) \cap Ids(buff'[d]) = {}
    <3>1. SUFFICES ASSUME NEW b \in BufferIds, NEW d \in BufferIds \ {b}
                   PROVE  Ids(buff'[b]) \cap Ids(buff'[d]) = {}
      OBVIOUS
    <3>2. Ids(buff[b]) \cap Ids(buff[d]) = {} BY <1>2 DEF Queues
    <3>3. QED BY <1>8, <3>2
  <2>4. Apart(put.left) /\ Ids(put.left) \subseteq 1 .. ids BY <1>2 DEF Queues
  <2>5. QED BY <1>3, <1>8, <1>9, <2>1, <2>2, <2>3, <2>4 DEF Queues
<1>11. Arrivals'
  <2>1. SUFFICES ASSUME NEW k \in Keys, table[k] # Nothing PROVE Arrived(table[k].id)'
    BY <1>9 DEF Arrivals
  <2>2. Arrived(table[k].id) BY <1>2, <2>1 DEF Arrivals
  <2>3. \A b \in BufferIds : table[k].id \notin Ids(buff'[b])
    BY <1>8, <2>2 DEF Arrived, Locked
  <2>4. table[k].id \notin Ids(writer'.left) BY <1>3, EmptyIds
  <2>5. QED BY <1>9, <2>2, <2>3, <2>4 DEF Arrived
<1>12. QED BY <1>6, <1>7, <1>10, <1>11 DEF IInv

\* The Object that the writer is at
LEMMA AtHead ==
  ASSUME IInv, Write, writer.left # <<>>
  PROVE  LET o == Head(writer.left) IN
         /\ o \in Objects /\ writer'.left = Tail(writer.left)
         /\ o.id \in Ids(writer.left) /\ o.id \in 1 .. ids
         /\ o.id \notin Ids(writer'.left) /\ o.id \notin Ids(put.left)
         /\ \A b \in BufferIds : o.id \in Ids(buff[b]) => b = writer.b
         /\ Apart(writer'.left) /\ Ids(writer'.left) \subseteq Ids(writer.left)
         /\ writer'.at = "write" /\ writer'.b = writer.b /\ writer' \in WriterType
<1> DEFINE o == Head(writer.left)
<1>1. Typed /\ Queues BY DEF IInv
<1>2. writer \in WriterType /\ writer.left \in Seq(Objects) /\ writer.b \in BufferIds
      /\ Apart(writer.left)
  BY <1>1, TypedParts DEF Typed, Queues, WriterType
<1>3. writer' = [writer EXCEPT !.left = Tail(writer.left)] /\ writer.at = "write" BY <1>2 DEF Write, WriterType
<1>4. /\ o \in Objects /\ o.id \in Ids(writer.left) /\ o.id \notin Ids(Tail(writer.left))
      /\ Tail(writer.left) \in Seq(Objects) /\ Apart(Tail(writer.left))
      /\ Ids(Tail(writer.left)) \subseteq Ids(writer.left)
  BY <1>2, TailIds
<1> HIDE DEF o
<1>5. writer'.left = Tail(writer.left) /\ writer'.at = "write" /\ writer'.b = writer.b
      /\ writer' \in WriterType
  BY <1>2, <1>3, <1>4 DEF WriterType
<1>6. o.id \in Ids(buff[writer.b]) BY <1>1, <1>4 DEF Queues
<1>7. o.id \in 1 .. ids /\ o.id \notin Ids(put.left) BY <1>1, <1>2, <1>6 DEF Queues
<1>8. ASSUME NEW b \in BufferIds, o.id \in Ids(buff[b]), b # writer.b PROVE FALSE
  <2>1. Ids(buff[b]) \cap Ids(buff[writer.b]) = {} BY <1>1, <1>2, <1>8 DEF Queues
  <2>2. QED BY <1>6, <1>8, <2>1
<1>9. QED BY <1>4, <1>5, <1>7, <1>8 DEF o

LEMMA WriteTurns ==
  ASSUME IInv, Write
  PROVE  /\ CacheInv' /\ broken' \in BOOLEAN
         /\ IF writer.left = <<>> THEN table' = table ELSE Turns(table, table', Head(writer.left))
<1>1. alg' = alg /\ CacheInv /\ broken \in BOOLEAN BY DEF Write, IInv, Typed
<1>2. ASSUME UNCHANGED <<cache, pipe, upgraded, broken>>
      PROVE  CacheInv' /\ broken' \in BOOLEAN /\ table' = table
  BY <1>1, <1>2, CacheUnchanged DEF cache
<1>3. CASE writer.left = <<>> BY <1>2, <1>3 DEF Write
<1>4. CASE writer.left # <<>>
  <2> DEFINE o == Head(writer.left)
  <2>1. CASE o.expiry < now
    <3>1. UNCHANGED <<cache, pipe, upgraded, broken>> BY <1>4, <2>1 DEF Write
    <3>2. QED BY <1>2, <1>4, <3>1 DEF Turns
  <2>2. CASE ~(o.expiry < now)
    <3>1. o \in Objects BY <1>4, AtHead
    <3>2. IF alg = "None" THEN WriteWithout(o) ELSE WriteWithLibrary(o) BY <1>4, <2>2 DEF Write
    <3> HIDE DEF o
    <3>3. /\ Sound(table', order', cobs', stat', upgraded') /\ cobs' <= Capacity
          /\ ToldOf(pipe', upgraded') /\ Turns(table, table', o)
      BY <1>1, <3>1, <3>2, WriteKeeps
    <3>4. CacheInv' BY <1>1, <3>3, CacheInvAfter
    <3>5. broken' \in {broken, TRUE}
      <4>1. CASE alg = "None" BY <3>2, <4>1 DEF WriteWithout, Break
      <4>2. CASE alg # "None" BY <3>2, <4>2 DEF WriteWithLibrary, Break
      <4>3. QED BY <4>1, <4>2
    <3>6. QED BY <1>1, <1>4, <3>3, <3>4, <3>5 DEF o
  <2>3. QED BY <2>1, <2>2
<1>5. QED BY <1>3, <1>4

LEMMA WriteInv == IInv /\ Write => IInv'
<1> SUFFICES ASSUME IInv, Write PROVE IInv' OBVIOUS
<1>1. UNCHANGED <<alg, now, buff, sem, running, put, getter, puts, ids>> BY DEF Write
<1>2. Typed /\ Queues /\ Arrivals BY DEF IInv
<1>3. CacheInv' /\ broken' \in BOOLEAN BY WriteTurns
<1>4. CASE writer.left = <<>>
  <2>1. table' = table /\ writer' = [writer EXCEPT !.at = "done"] /\ writer.at = "write"
    BY <1>4, WriteTurns DEF Write
  <2>2. writer \in WriterType BY <1>2 DEF Typed, WriterType
  <2>3. writer' \in WriterType /\ writer'.left = <<>> /\ writer'.b = writer.b /\ writer'.at = "done"
    BY <1>4, <2>1, <2>2 DEF WriterType
  <2>4. Typed' BY <1>1, <1>2, <1>3, <2>3 DEF Typed, WriterType
  <2>5. buff' = buff /\ put' = put /\ ids' = ids BY <1>1
  <2>6. Apart(writer'.left) /\ Ids(writer'.left) = {} BY <2>3, EmptyIds
  <2>7. Queues' BY <1>2, <2>3, <2>5, <2>6 DEF Queues
  <2>8. Arrivals'
    <3>1. SUFFICES ASSUME NEW k \in Keys, table[k] # Nothing PROVE Arrived(table[k].id)'
      BY <2>1 DEF Arrivals
    <3>2. Arrived(table[k].id) BY <1>2, <3>1 DEF Arrivals
    <3>3. table' = table BY <2>1
    <3>4. QED BY <2>3, <2>5, <2>6, <3>2, <3>3 DEF Arrived, Locked
  <2>9. QED BY <1>3, <2>4, <2>7, <2>8 DEF IInv
<1>5. CASE writer.left # <<>>
  <2> DEFINE o == Head(writer.left)
  <2>1. /\ o.id \in 1 .. ids /\ o.id \notin Ids(writer'.left) /\ o.id \notin Ids(put.left)
        /\ \A b \in BufferIds : o.id \in Ids(buff[b]) => b = writer.b
        /\ Apart(writer'.left) /\ Ids(writer'.left) \subseteq Ids(writer.left)
        /\ writer'.at = "write" /\ writer'.b = writer.b /\ writer' \in WriterType
    BY <1>5, AtHead
  <2>2. Turns(table, table', o) BY <1>5, WriteTurns
  <2> HIDE DEF o
  <2>3. writer.at = "write" BY DEF Write
  <2>4. Typed' BY <1>1, <1>2, <1>3, <2>1 DEF Typed, WriterType
  <2>5. buff' = buff /\ put' = put /\ ids' = ids BY <1>1
  <2>6. Queues'
    <3>1. Ids(writer'.left) \subseteq Ids(buff[writer'.b]) BY <1>2, <2>1 DEF Queues
    <3>2. QED BY <1>2, <2>1, <2>5, <3>1 DEF Queues
  <2>7. Arrivals'
    <3>1. SUFFICES ASSUME NEW k \in Keys, NEW x, x = table'[k].id, table'[k] # Nothing
                   PROVE  /\ x \in 1 .. ids' /\ x \notin Ids(put'.left) /\ x \notin Ids(writer'.left)
                          /\ \A b \in BufferIds : x \in Ids(buff'[b])
                                => writer'.at \in {"write", "done"} /\ writer'.b = b
      BY DEF Arrivals, Arrived, Locked
    <3>2. CASE table'[k] = o BY <2>1, <2>5, <3>1, <3>2
    <3>3. CASE table'[k] # o
      <4>1. table'[k] = table[k] BY <2>2, <3>1, <3>3 DEF Turns
      <4>2. Arrived(x) BY <1>2, <3>1, <4>1 DEF Arrivals
      <4>3. QED BY <2>1, <2>3, <2>5, <4>2 DEF Arrived, Locked
    <3>4. QED BY <3>2, <3>3
  <2>8. QED BY <1>3, <2>4, <2>6, <2>7 DEF IInv
<1>6. QED BY <1>4, <1>5

LEMMA NextInv == IInv /\ [Next]_vars => IInv'
<1> SUFFICES ASSUME IInv, [Next]_vars PROVE IInv' OBVIOUS
<1>1. CASE SetFlag BY <1>1, SetFlagInv
<1>2. CASE Tick BY <1>2, TickInv
<1>3. CASE Fill BY <1>3, FillInv
<1>4. CASE WriterStep
  BY <1>4, WriterStartInv, WriterWakeInv, WriterTryInv, WriteInv, WriterDoneInv DEF WriterStep
<1>5. CASE GetSend BY <1>5, GetSendInv
<1>6. CASE DeleteOld BY <1>6, DeleteOldInv
<1>7. ASSUME NEW b \in Batches, Put(b) PROVE IInv' BY <1>7, PutInv
<1>8. ASSUME NEW k \in Keys, Expire(k) PROVE IInv' BY <1>8, ExpireInv
<1>9. ASSUME NEW k \in Keys, NEW v \in Wanted, GetLook(k, v) PROVE IInv' BY <1>9, GetLookInv
<1>10. CASE UNCHANGED vars
  <2>1. UNCHANGED <<alg, cache, pipe, upgraded>> /\ UNCHANGED <<buff, put, writer, ids>> /\ table' = table
    BY <1>10 DEF vars, cache
  <2>2. CacheInv' BY <2>1, CacheUnchanged DEF IInv
  <2>3. Typed' BY <1>10 DEF IInv, Typed, vars
  <2>4. \A k \in Keys : table'[k] \in {table[k], Nothing} BY <2>1
  <2>5. Queues' /\ Arrivals' BY <2>1, <2>4, CacheSteps DEF IInv
  <2>6. QED BY <2>2, <2>3, <2>5 DEF IInv
<1>11. QED BY <1>1, <1>2, <1>3, <1>4, <1>5, <1>6, <1>7, <1>8, <1>9, <1>10 DEF Next

-----------------------------------------------------------------------------
(* What follows.                                                           *)

LEMMA ConsistentThen == IInv => Consistent
<1> SUFFICES ASSUME IInv PROVE Consistent OBVIOUS
<1>1. /\ Body(table, order, cobs) /\ Good(stat) /\ Marked(table, stat, upgraded)
      /\ (upgraded = {} => Exact(stat)) /\ cobs <= Capacity
  BY DEF IInv, CacheInv, SoundCache, Sound
<1>2. /\ cobs \in Nat /\ cobs = Cardinality(HeldIn(table)) /\ IsFiniteSet(HeldIn(table))
      /\ HeldIn(table) \subseteq Keys /\ Capacity \in Nat
  BY SoundTyped, MemoryCacheAssumption DEF IInv, CacheInv, SoundCache, HeldIn
<1>3. Lists(order, IF alg = "None" THEN {} ELSE HeldIn(table)) BY <1>1 DEF Body
<1>4. TypeOK
  <2>1. order \in Seq(Keys)
    <3>1. order \in Seq(IF alg = "None" THEN {} ELSE HeldIn(table)) BY <1>3, ListCounts
    <3>2. (IF alg = "None" THEN {} ELSE HeldIn(table)) \subseteq Keys BY <1>2
    <3>3. QED BY <3>1, <3>2
  <2>2. stat.con \in Nat /\ stat.cob \in Nat BY <1>1 DEF Good, StatType
  <2>3. cobs \in 0 .. Capacity BY <1>1, <1>2
  <2>4. QED BY <2>1, <2>2, <2>3 DEF TypeOK, IInv, Typed
<1>5. Agree
  <2>1. {k \in Keys : Stored(k)} = HeldIn(table) BY DEF HeldIn, Stored
  <2>2. alg # "None" => Range(order) = HeldIn(table) /\ Len(order) = Cardinality(HeldIn(table))
    BY <1>3, ListCounts
  <2>3. QED BY <1>1, <1>2, <2>1, <2>2 DEF Agree
<1>6. Recorded
  <2>1. \A c \in Contents \ upgraded :
           /\ stat.rcd[c].map = {n \in Chunks : Stored(<<c, n>>)}
           /\ stat.rcd[c].is = (stat.rcd[c].map # {})
    BY <1>1 DEF Marked, Good, Counts, Stored
  <2>2. stat.con = Cardinality({c \in Contents : stat.rcd[c].is}) BY <1>1 DEF Good, Known
  <2>3. S!Units(stat) = Units(stat) BY DEF Units
  <2>4. Cardinality(Units(stat)) \in Nat /\ stat.cob \in Nat BY <1>1, FS_CardinalityType DEF Good, StatType
  <2>5. stat.cob >= Cardinality(Units(stat)) /\ (upgraded = {} => stat.cob = Cardinality(Units(stat)))
    BY <1>1, <2>4 DEF Good, Exact
  <2>6. QED BY <2>1, <2>2, <2>3, <2>5 DEF Recorded
<1>7. QED BY <1>4, <1>5, <1>6 DEF Consistent

\* Whatever the daemon's message thread, the writer, the requests, the sweep and the
\* deleter did, and whatever the buffers lost: the count of mem_cache.c, its table and
\* the library agree and stay within the capacity, and until a version is replaced the
\* records of cef_csmgr_stat.c mark exactly the cached chunks and count them.
THEOREM ConsistentAlways == Spec => []Consistent
<1>1. Spec => []IInv
  <2>1. QED BY InitInv, NextInv, PTL DEF Spec
<1>2. QED BY <1>1, ConsistentThen, PTL

Older ==
  \A k \in Keys : Stored(k) /\ table'[k] # Nothing /\ table'[k] # table[k]
    => table'[k].version >= table[k].version /\ table'[k].id # table[k].id

LEMMA NoOlderStep == IInv /\ [Next]_vars => Older
<1> SUFFICES ASSUME IInv, [Next]_vars PROVE Older OBVIOUS
<1>1. CASE Write
  <2>1. CASE writer.left = <<>> BY <1>1, <2>1, WriteTurns DEF Older
  <2>2. CASE writer.left # <<>>
    <3> DEFINE o == Head(writer.left)
    <3>1. Turns(table, table', o) /\ o.id \in Ids(writer.left) BY <1>1, <2>2, WriteTurns, AtHead
    <3> HIDE DEF o
    <3>2. SUFFICES ASSUME NEW k \in Keys, table[k] # Nothing, table'[k] # Nothing, table'[k] # table[k]
                   PROVE  table'[k].version >= table[k].version /\ table'[k].id # table[k].id
      BY DEF Older, Stored
    <3>3. table'[k] = o /\ o.version >= table[k].version BY <3>1, <3>2 DEF Turns
    <3>4. table[k].id \notin Ids(writer.left) BY <3>2 DEF IInv, Arrivals, Arrived
    <3>5. QED BY <3>1, <3>3, <3>4
  <2>3. QED BY <2>1, <2>2
<1>2. CASE ~Write
  <2>1. ASSUME \A k \in Keys : table'[k] \in {table[k], Nothing} PROVE Older
    BY <2>1 DEF Older
  <2>2. CASE table' = table BY <2>1, <2>2
  <2>3. ASSUME NEW k \in Keys, Expire(k) PROVE Older
    <3>1. table' = [table EXCEPT ![k] = Nothing] BY <2>3 DEF Expire, Becomes, Leaves, Here, Lacking
    <3>2. table \in [Keys -> Objects \cup {Nothing}] BY SoundTyped DEF IInv, CacheInv, SoundCache
    <3>3. QED BY <2>1, <3>1, <3>2
  <2>4. CASE DeleteOld BY <2>1, <2>4, DeleteKeeps DEF IInv
  <2>5. QED
    BY <1>2, <2>2, <2>3, <2>4
    DEF Next, SetFlag, Tick, Fill, WriterStep, WriterStart, WriterWake, WriterTry, WriterDone, GetSend,
        Put, GetLook, cache, vars
<1>3. QED BY <1>1, <1>2

\* And no step of any of them puts an older version in the place of a newer one, or
\* an allocation in its own place again.
THEOREM NeverOlderHolds == Spec => NeverOlder
<1>1. Spec => []IInv BY InitInv, NextInv, PTL DEF Spec
<1>2. IInv /\ [Next]_vars => [Older]_vars BY NoOlderStep
<1>3. Spec => [][Older]_vars BY <1>1, <1>2, PTL DEF Spec
<1>4. QED BY <1>3 DEF NeverOlder, Older
=============================================================================
