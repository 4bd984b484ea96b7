---------------------------- MODULE TablesProofs ----------------------------
(***************************************************************************)
(* Theorems about the tables under the forwarding plane: HashTable is a    *)
(* map for every size, hash function and set of keys; the Face-IDs of      *)
(* Routes stay apart for every set of peers, applications, names and route *)
(* messages and every size of its two tables; and Routes implements        *)
(* RouteTable where no two owners have a next hop in common.               *)
(***************************************************************************)
EXTENDS Routes, HashTable, WellFoundedInduction, SequenceTheorems, FiniteSetTheorems,
        FunctionTheorems, TLAPS

\* A set of numbers that is not empty has a least one.
LEMMA LeastNat ==
  ASSUME NEW T, T \subseteq Nat, T # {}
  PROVE  \E x \in T : \A y \in T : x <= y
<1> DEFINE Less == OpToRel(<, Nat)
<1>1. IsWellFoundedOn(Less, Nat) BY NatLessThanWellFounded, Zenon
<1>2. \A x, y \in Nat : x < y => <<x, y>> \in Less BY Zenon DEF OpToRel
<1> HIDE DEF Less
<1>3. PICK x \in T : \A y \in T : ~(<<y, x>> \in Less) BY <1>1, WFMin
<1>4. \A y \in T : ~(y < x) BY <1>2, <1>3
<1>5. QED BY <1>4

-----------------------------------------------------------------------------
(* HashTable.                                                              *)

\* No key lies in two slots.
Unique ==
  \A s, t \in Slots : key[s] \in Keys /\ key[s] = key[t] => s = t

\* A search for a key that is in the table meets no free slot before it.
Unbroken ==
  \A s, t \in Slots :
    /\ key[s] \in Keys
    /\ t # home[key[s]] /\ Sooner(home[key[s]], t, s)
    => key[t] # Free

HashIInv == HashOK /\ Unique /\ Unbroken

-----------------------------------------------------------------------------
(* The circle of slots.                                                    *)

LEMMA StepsType ==
  ASSUME NEW h \in Slots, NEW s \in Slots
  PROVE  Steps(h, s) \in Nat
BY HashTableAssumption DEF Steps, Slots

LEMMA StepsDiffer ==
  ASSUME NEW h \in Slots, NEW s \in Slots, NEW t \in Slots, Steps(h, s) = Steps(h, t)
  PROVE  s = t
BY HashTableAssumption DEF Steps, Slots

LEMMA FirstOfExists ==
  ASSUME NEW h \in Slots, NEW S, S \subseteq Slots, S # {}
  PROVE  FirstOf(h, S) # {}
<1> DEFINE T == {Steps(h, s) : s \in S}
<1>1. T \subseteq Nat /\ T # {} BY StepsType
<1> HIDE DEF T
<1>2. PICK n \in T : \A m \in T : n <= m BY <1>1, LeastNat
<1>3. PICK s \in S : n = Steps(h, s) BY <1>2 DEF T
<1>4. ASSUME NEW t \in S, t # s PROVE Sooner(h, s, t)
  <2>1. Steps(h, s) <= Steps(h, t) BY <1>2, <1>3 DEF T
  <2>2. Steps(h, s) # Steps(h, t) BY <1>4, StepsDiffer
  <2>3. QED BY <2>1, <2>2, StepsType DEF Sooner
<1>5. QED BY <1>4 DEF FirstOf

\* A search that passes slot u and ends at s, beyond the run of slots from u
\* to r, passes the slot after r too, and is not at its start there.
LEMMA PassesRun ==
  ASSUME NEW h \in Slots, NEW u \in Slots, NEW r \in Slots, NEW s \in Slots,
         u <= r, s \notin u .. r, s # Follow(r), u # h, Sooner(h, u, s)
  PROVE  Follow(r) \in Slots /\ Follow(r) # h /\ Sooner(h, Follow(r), s)
BY HashTableAssumption DEF Sooner, Steps, Slots, Follow

\* The same for a run that goes over the upper end of the table.
LEMMA PassesRunAround ==
  ASSUME NEW h \in Slots, NEW u \in Slots, NEW r \in Slots, NEW s \in Slots,
         u > r, s < u, s > r, s # Follow(r), u # h, Sooner(h, u, s)
  PROVE  Follow(r) \in Slots /\ Follow(r) # h /\ Sooner(h, Follow(r), s)
BY HashTableAssumption DEF Sooner, Steps, Slots, Follow

-----------------------------------------------------------------------------
(* What a search finds.                                                    *)

LEMMA FoundIs ==
  ASSUME HashIInv, NEW k \in Keys
  PROVE  Found(k) = {s \in Slots : key[s] = k}
<1>1. ASSUME NEW s \in Slots, key[s] = k, NEW t \in Slots, Sooner(home[k], t, s)
      PROVE  key[t] # k /\ (t # home[k] => key[t] # Free)
  <2>1. t # s BY <1>1, StepsType DEF Sooner, HashIInv, HashOK
  <2>2. key[t] # k BY <1>1, <2>1 DEF HashIInv, Unique
  <2>3. t # home[k] => key[t] # Free BY <1>1 DEF HashIInv, Unbroken
  <2>4. QED BY <2>2, <2>3
<1>2. QED BY <1>1 DEF Found

LEMMA StoredIs ==
  ASSUME HashIInv
  PROVE  Stored = {key[s] : s \in {x \in Slots : key[x] \in Keys}}
BY FoundIs DEF Stored

LEMMA PlaceIs ==
  ASSUME HashIInv, NEW k \in Keys, NEW s \in Place(k)
  PROVE  /\ s \in Slots /\ key[s] \in {Free, Gone}
         /\ \A t \in Slots : t # s /\ key[t] = Free => Sooner(home[k], s, t)
BY DEF Place, FirstOf, FreeSlots, GoneSlots

-----------------------------------------------------------------------------
(* The invariant is kept.                                                  *)

LEMMA InitHolds == HashInit => HashIInv
BY HashTableAssumption DEF HashInit, HashIInv, HashOK, Unique, Unbroken

LEMMA ItemSetKeeps ==
  ASSUME HashIInv, NEW k \in Keys, NEW e \in Elems, ItemSet(k, e)
  PROVE  HashIInv'
<1>1. home' = home BY DEF ItemSet
<1>2. CASE UNCHANGED <<key, elem>>
  BY <1>1, <1>2 DEF HashIInv, HashOK, Unique, Unbroken
<1>3. ASSUME NEW s \in Place(k),
             key' = [key EXCEPT ![s] = k], elem' = [elem EXCEPT ![s] = e]
      PROVE  HashIInv'
  <2>1. /\ s \in Slots /\ home[k] \in Slots
        /\ \A t \in Slots : t # s /\ key[t] = Free => Sooner(home[k], s, t)
    BY PlaceIs DEF HashIInv, HashOK
  <2>2. \A t \in Slots : key[t] # k BY FoundIs DEF ItemSet
  <2>3. \A t \in Slots : key'[t] = IF t = s THEN k ELSE key[t]
    BY <1>3 DEF HashIInv, HashOK
  <2>4. HashOK' BY <1>1, <1>3, <2>1 DEF HashIInv, HashOK
  <2>5. Unique' BY <2>2, <2>3 DEF HashIInv, Unique
  <2>6. Unbroken'
    <3>1. SUFFICES ASSUME NEW x \in Slots, NEW t \in Slots, key'[x] \in Keys,
                          t # home[key'[x]], Sooner(home[key'[x]], t, x), key'[t] = Free
                   PROVE  FALSE
      BY <1>1 DEF Unbroken
    <3>2. t # s /\ key[t] = Free BY <2>3, <3>1, HashTableAssumption
    <3>3. CASE x = s
      <4>1. Sooner(home[k], t, s) /\ Sooner(home[k], s, t) BY <2>1, <2>3, <3>1, <3>2, <3>3
      <4>2. QED BY <4>1, <2>1, StepsType DEF Sooner
    <3>4. CASE x # s BY <2>3, <3>1, <3>2, <3>4 DEF HashIInv, Unbroken
    <3>5. QED BY <3>3, <3>4
  <2>7. QED BY <2>4, <2>5, <2>6 DEF HashIInv
<1>4. QED BY <1>2, <1>3 DEF ItemSet

\* A slot that is given up breaks no search.
LEMMA GivenUp ==
  ASSUME HashIInv, NEW r \in Slots, NEW held, held = [key EXCEPT ![r] = Gone]
  PROVE  /\ held \in [Slots -> Keys \cup {Free, Gone}]
         /\ \A s, t \in Slots : held[s] \in Keys /\ held[s] = held[t] => s = t
         /\ \A s, t \in Slots :
              /\ held[s] \in Keys
              /\ t # home[held[s]] /\ Sooner(home[held[s]], t, s)
              => held[t] # Free
<1>1. \A t \in Slots : held[t] = IF t = r THEN Gone ELSE key[t] BY DEF HashIInv, HashOK
<1>2. held \in [Slots -> Keys \cup {Free, Gone}] BY DEF HashIInv, HashOK
<1>3. QED BY <1>1, <1>2, HashTableAssumption DEF HashIInv, Unique, Unbroken

LEMMA RemoveFromIndexKeeps ==
  ASSUME HashIInv, NEW s \in Slots, ItemRemoveFromIndex(s)
  PROVE  HashIInv'
<1>1. key' = [key EXCEPT ![s] = Gone] /\ home' = home BY DEF ItemRemoveFromIndex
<1>2. HashOK' BY <1>1 DEF HashIInv, HashOK, ItemRemoveFromIndex
<1>3. QED BY <1>1, <1>2, GivenUp DEF HashIInv, Unique, Unbroken

-----------------------------------------------------------------------------
(* Gone slots that become free.                                            *)

LEMMA ReclaimedIs ==
  ASSUME NEW held, held \in [Slots -> Keys \cup {Free, Gone}], NEW r \in Slots
  PROVE  /\ Reclaimed(held, r) \in [Slots -> Keys \cup {Free, Gone}]
         /\ \A s \in Slots : \/ Reclaimed(held, r)[s] = held[s]
                             \/ held[s] = Gone /\ Reclaimed(held, r)[s] = Free
<1>1. \A s \in Slots : s \in s .. r \/ s > r BY DEF Slots
<1>2. \A s \in Slots : s \in s .. ElemMax - 1 BY HashTableAssumption DEF Slots
<1>3. QED BY <1>1, <1>2 DEF Reclaimed

\* A slot becomes free only where a run of gone slots leads from it to a slot
\* that was free.
LEMMA LeadsToFree ==
  ASSUME NEW held, held \in [Slots -> Keys \cup {Free, Gone}], NEW r \in Slots,
         NEW u \in Slots, Reclaimed(held, r)[u] = Free
  PROVE  \/ held[u] = Free
         \/ \E x \in Slots :
              /\ held[Follow(x)] = Free
              /\ \/ u <= x /\ \A t \in u .. x : held[t] = Gone
                 \/ /\ u > x
                    /\ \A t \in u .. ElemMax - 1 : held[t] = Gone
                    /\ \A t \in 0 .. x : held[t] = Gone
<1>1. CASE held[Follow(r)] # Free BY <1>1 DEF Reclaimed
<1>2. CASE held[Follow(r)] = Free /\ u <= r /\ \A t \in u .. r : held[t] = Gone
  BY <1>2
<1>3. CASE /\ held[Follow(r)] = Free /\ u > r
           /\ \A t \in u .. ElemMax - 1 : held[t] = Gone
           /\ \A t \in 0 .. r : held[t] = Gone
  BY <1>3
<1>4. CASE u > r /\ (\A t \in u .. ElemMax - 1 : held[t] = Gone) /\ held[0] = Free
  <2>1. ElemMax - 1 \in Slots /\ Follow(ElemMax - 1) = 0 /\ u <= ElemMax - 1
    BY HashTableAssumption DEF Slots, Follow
  <2>2. QED BY <2>1, <1>4
<1>5. CASE held[u] = Free BY <1>5
<1>6. QED BY <1>1, <1>2, <1>3, <1>4, <1>5 DEF Reclaimed

LEMMA ReclaimedUnbroken ==
  ASSUME NEW held, held \in [Slots -> Keys \cup {Free, Gone}], NEW r \in Slots,
         NEW h \in Slots, NEW s \in Slots, held[s] \in Keys,
         \A t \in Slots : t # h /\ Sooner(h, t, s) => held[t] # Free,
         NEW u \in Slots, u # h, Sooner(h, u, s)
  PROVE  Reclaimed(held, r)[u] # Free
<1>1. SUFFICES ASSUME Reclaimed(held, r)[u] = Free PROVE FALSE OBVIOUS
<1>2. held[u] # Free OBVIOUS
<1>3. PICK x \in Slots :
              /\ held[Follow(x)] = Free
              /\ \/ u <= x /\ \A t \in u .. x : held[t] = Gone
                 \/ /\ u > x
                    /\ \A t \in u .. ElemMax - 1 : held[t] = Gone
                    /\ \A t \in 0 .. x : held[t] = Gone
  BY <1>1, <1>2, LeadsToFree
<1>4. s # Follow(x) BY <1>3, HashTableAssumption
<1>5. CASE u <= x /\ \A t \in u .. x : held[t] = Gone
  <2>1. s \notin u .. x BY <1>5, HashTableAssumption
  <2>2. Follow(x) \in Slots /\ Follow(x) # h /\ Sooner(h, Follow(x), s)
    BY <1>4, <1>5, <2>1, PassesRun
  <2>3. QED BY <2>2, <1>3
<1>6. CASE /\ u > x
           /\ \A t \in u .. ElemMax - 1 : held[t] = Gone
           /\ \A t \in 0 .. x : held[t] = Gone
  <2>1. s \notin u .. ElemMax - 1 /\ s \notin 0 .. x BY <1>6, HashTableAssumption
  <2>2. s < u /\ s > x BY <2>1, HashTableAssumption DEF Slots
  <2>3. Follow(x) \in Slots /\ Follow(x) # h /\ Sooner(h, Follow(x), s)
    BY <1>4, <1>6, <2>2, PassesRunAround
  <2>4. QED BY <2>3, <1>3
<1>7. QED BY <1>3, <1>5, <1>6

LEMMA ItemRemoveKeeps ==
  ASSUME HashIInv, NEW k \in Keys, ItemRemove(k)
  PROVE  HashIInv'
<1>1. PICK r \in Found(k) :
        /\ key' = Reclaimed([key EXCEPT ![r] = Gone], r)
        /\ elem' = [elem EXCEPT ![r] = NoElem]
  BY DEF ItemRemove
<1>2. r \in Slots /\ home' = home BY DEF Found, ItemRemove
<1> DEFINE held == [key EXCEPT ![r] = Gone]
<1>3. /\ held \in [Slots -> Keys \cup {Free, Gone}]
      /\ \A s, t \in Slots : held[s] \in Keys /\ held[s] = held[t] => s = t
      /\ \A s, t \in Slots :
           /\ held[s] \in Keys
           /\ t # home[held[s]] /\ Sooner(home[held[s]], t, s)
           => held[t] # Free
  <2> HIDE DEF held
  <2>1. held = [key EXCEPT ![r] = Gone] BY DEF held
  <2>2. QED BY <2>1, <1>2, GivenUp
<1>4. key' = Reclaimed(held, r) BY <1>1
<1> HIDE DEF held
<1>5. /\ key' \in [Slots -> Keys \cup {Free, Gone}]
      /\ \A s \in Slots : key'[s] = held[s] \/ (held[s] = Gone /\ key'[s] = Free)
  BY <1>2, <1>3, <1>4, ReclaimedIs
<1>6. \A s \in Slots : key'[s] \in Keys => held[s] = key'[s]
  BY <1>5, HashTableAssumption
<1>7. HashOK' BY <1>1, <1>2, <1>5 DEF HashIInv, HashOK
<1>8. Unique' BY <1>3, <1>6 DEF Unique
<1>9. Unbroken'
  <2>1. SUFFICES ASSUME NEW s \in Slots, NEW t \in Slots, key'[s] \in Keys,
                        t # home[key'[s]], Sooner(home[key'[s]], t, s)
                 PROVE  key'[t] # Free
    BY <1>2 DEF Unbroken
  <2>2. held[s] = key'[s] /\ home[held[s]] \in Slots BY <2>1, <1>6 DEF HashIInv, HashOK
  <2>3. \A x \in Slots : x # home[held[s]] /\ Sooner(home[held[s]], x, s) => held[x] # Free
    BY <1>3, <2>1, <2>2
  <2>4. QED BY <1>2, <1>3, <1>4, <2>1, <2>2, <2>3, ReclaimedUnbroken
<1>10. QED BY <1>7, <1>8, <1>9 DEF HashIInv

LEMMA NextKeeps == HashIInv /\ [HashNext]_hashVars => HashIInv'
<1>1. SUFFICES ASSUME HashIInv, [HashNext]_hashVars PROVE HashIInv' OBVIOUS
<1>2. CASE UNCHANGED hashVars BY <1>1, <1>2 DEF hashVars, HashIInv, HashOK, Unique, Unbroken
<1>3. CASE HashNext
  BY <1>1, <1>3, ItemSetKeeps, ItemRemoveKeeps, RemoveFromIndexKeeps DEF HashNext
<1>4. QED BY <1>1, <1>2, <1>3

\* Every slot holds a key, Free or Gone, and every key hashes to a slot; no key
\* lies in two slots, and no free slot lies on the way to a key.
THEOREM Searchable == HashSpec => []HashIInv
<1>1. QED BY InitHolds, NextKeeps, PTL DEF HashSpec

-----------------------------------------------------------------------------
(* The number of keys.                                                     *)

Used == {s \in Slots : key[s] \in Keys}

LEMMA SlotsFinite == IsFiniteSet(Slots) /\ Cardinality(Slots) = ElemMax
<1>1. ElemMax \in Nat \ {0} BY HashTableAssumption
<1>2. IsFiniteSet(0 .. ElemMax - 1) /\ Cardinality(0 .. ElemMax - 1) = ElemMax
  BY <1>1, FS_Interval
<1>3. QED BY <1>2 DEF Slots

LEMMA Counts ==
  ASSUME HashIInv
  PROVE  IsFiniteSet(Stored) /\ CountsStored
<1> DEFINE F == [s \in Used |-> key[s]]
<1>1. IsFiniteSet(Used) BY SlotsFinite, FS_Subset DEF Used
<1>2. Stored = {key[s] : s \in Used} BY StoredIs DEF Used
<1>3. F \in [Used -> Stored] BY <1>2
<1>4. \A a, b \in Used : F[a] = F[b] => a = b BY DEF Used, HashIInv, Unique
<1>5. \A k \in Stored : \E s \in Used : F[s] = k BY <1>2
<1>6. F \in Bijection(Used, Stored)
  <2> HIDE DEF F
  <2>1. QED BY <1>3, <1>4, <1>5, Fun_IsBij
<1>7. ExistsBijection(Used, Stored) BY <1>6, Fun_ExistsBij
<1>8. IsFiniteSet(Stored) /\ Cardinality(Stored) = Cardinality(Used)
  BY <1>1, <1>7, FS_Bijection
<1>9. QED BY <1>8 DEF CountsStored, ElemNum, Used

\* elem_num, which the callers compare with the size they asked for, counts
\* the keys that searches find.
THEOREM Counting == HashSpec => []CountsStored
<1>1. HashIInv => CountsStored BY Counts
<1>2. QED BY <1>1, Searchable, PTL

\* One slot more than the user asked for is enough: whenever elem_num allows a
\* key to be stored, cef_hash_tbl_item_set finds it a slot.
THEOREM Room == ASSUME DefElemMax < ElemMax PROVE HashSpec => []SetFindsRoom
<1>1. ASSUME HashIInv PROVE SetFindsRoom
  <2>1. SUFFICES ASSUME ElemNum < DefElemMax, NEW k \in Keys PROVE Place(k) # {}
    BY DEF SetFindsRoom
  <2>2. home[k] \in Slots BY <1>1 DEF HashIInv, HashOK
  <2>3. CASE FreeSlots # {}
    <3>1. FreeSlots \subseteq Slots BY DEF FreeSlots
    <3>2. QED BY <2>2, <2>3, <3>1, FirstOfExists DEF Place
  <2>4. CASE FreeSlots = {}
    <3> DEFINE U == Used \cup {home[k]}
    <3>1. IsFiniteSet(Used) BY SlotsFinite, FS_Subset DEF Used
    <3>2. Cardinality(Used) < DefElemMax BY <2>1 DEF ElemNum, Used
    <3>3. Cardinality(Used) \in Nat BY <3>1, FS_CardinalityType
    <3>4. IsFiniteSet(U) /\ Cardinality(U) <= Cardinality(Used) + 1
      <4>1. /\ IsFiniteSet(U)
            /\ Cardinality(U) = IF home[k] \in Used THEN Cardinality(Used)
                                ELSE Cardinality(Used) + 1
        BY <3>1, FS_AddElement, Zenon
      <4> HIDE DEF U
      <4>2. QED BY <3>3, <4>1
    <3>5. Cardinality(U) < ElemMax BY <3>2, <3>3, <3>4, HashTableAssumption, FS_CardinalityType
    <3>6. U # Slots
      <4> HIDE DEF U
      <4>1. Cardinality(U) # ElemMax BY <3>4, <3>5, FS_CardinalityType, HashTableAssumption
      <4>2. QED BY <4>1, SlotsFinite
    <3>7. PICK s \in Slots : s \notin U BY <3>6, <2>2 DEF Used
    <3>8. key[s] = Gone BY <1>1, <2>4, <3>7 DEF HashIInv, HashOK, FreeSlots, Used
    <3>9. GoneSlots \ {home[k]} # {} /\ GoneSlots \ {home[k]} \subseteq Slots
      BY <3>7, <3>8 DEF GoneSlots
    <3>10. QED BY <2>2, <2>4, <3>9, FirstOfExists DEF Place
  <2>5. QED BY <2>3, <2>4
<1>2. QED BY <1>1, Searchable, PTL

-----------------------------------------------------------------------------
(* The table implements the map.                                           *)

\* The slots tell what the map is.
Told ==
  /\ Stored = {key[s] : s \in {x \in Slots : key[x] \in Keys}}
  /\ DOMAIN dictBar = Stored
  /\ dictBar = [k \in Stored |-> dictBar[k]]
  /\ \A s \in Slots : key[s] \in Keys => dictBar[key[s]] = elem[s]

LEMMA DictBarTold == HashIInv => Told
<1>1. SUFFICES ASSUME HashIInv PROVE Told OBVIOUS
<1>2. ASSUME NEW s \in Slots, key[s] \in Keys PROVE dictBar[key[s]] = elem[s]
  <2>1. Found(key[s]) = {s} BY <1>1, <1>2, FoundIs DEF HashIInv, Unique
  <2>2. key[s] \in Stored BY <1>2, <2>1 DEF Stored
  <2>3. QED BY <2>1, <2>2 DEF dictBar
<1>3. DOMAIN dictBar = Stored /\ dictBar = [k \in Stored |-> dictBar[k]] BY DEF dictBar
<1>4. QED BY <1>1, <1>2, <1>3, StoredIs DEF Told

LEMMA DictBarToldNext == HashIInv' => Told'
<1>1. HashIInv => Told BY DictBarTold
<1>2. QED BY <1>1, PTL

LEMMA InitMaps == HashInit => Dict!DictInit
<1>1. SUFFICES ASSUME HashInit PROVE Dict!DictInit OBVIOUS
<1>2. Stored = {} BY <1>1, InitHolds, StoredIs, HashTableAssumption DEF HashInit
<1>3. QED BY <1>2 DEF dictBar, Dict!DictInit

LEMMA SetMaps ==
  ASSUME HashIInv, HashIInv', NEW k \in Keys, NEW e \in Elems, ItemSet(k, e)
  PROVE  (k \notin Stored /\ Dict!Store(k, e)) \/ UNCHANGED dictBar
<1>0. Told /\ Told' BY DictBarTold, DictBarToldNext
<1>1. home' = home BY DEF ItemSet
<1>2. CASE UNCHANGED <<key, elem>>
  BY <1>1, <1>2 DEF dictBar, Stored, Found
<1>3. ASSUME NEW s \in Place(k),
             key' = [key EXCEPT ![s] = k], elem' = [elem EXCEPT ![s] = e]
      PROVE  k \notin Stored /\ Dict!Store(k, e)
  <2>1. s \in Slots /\ key[s] \notin Keys BY PlaceIs, HashTableAssumption
  <2>2. k \notin Stored /\ (\A t \in Slots : key[t] # k) BY FoundIs DEF ItemSet, Stored
  <2>3. \A t \in Slots : /\ key'[t] = IF t = s THEN k ELSE key[t]
                         /\ elem'[t] = IF t = s THEN e ELSE elem[t]
    BY <1>3 DEF HashIInv, HashOK
  <2>4. Stored' = Stored \cup {k}
    <3>1. Stored = {key[t] : t \in {x \in Slots : key[x] \in Keys}} BY <1>0 DEF Told
    <3>2. Stored' = {key'[t] : t \in {x \in Slots : key'[x] \in Keys}} BY <1>0 DEF Told
    <3>3. QED BY <2>1, <2>3, <3>1, <3>2
  <2>5. \A x \in Stored' : dictBar'[x] = IF x = k THEN e ELSE dictBar[x]
    <3>1. SUFFICES ASSUME NEW x \in Stored' PROVE dictBar'[x] = IF x = k THEN e ELSE dictBar[x]
      OBVIOUS
    <3>2. PICK t \in Slots : key'[t] \in Keys /\ x = key'[t] BY <1>0 DEF Told
    <3>3. dictBar'[x] = elem'[t] BY <1>0, <3>2 DEF Told
    <3>4. QED BY <1>0, <2>2, <2>3, <3>2, <3>3 DEF Told
  <2>6. dictBar' = [x \in Stored' |-> dictBar'[x]] /\ DOMAIN dictBar = Stored
    BY <1>0 DEF Told
  <2>7. dictBar' = [x \in DOMAIN dictBar \cup {k} |-> IF x = k THEN e ELSE dictBar[x]]
    BY <2>4, <2>5, <2>6
  <2>8. Cardinality(DOMAIN dictBar) < DefElemMax
    BY Counts, <2>6 DEF CountsStored, ItemSet
  <2>9. Dict!Cardinality(DOMAIN dictBar) = Cardinality(DOMAIN dictBar)
    BY DEF Dict!Cardinality, Cardinality
  <2>10. QED BY <2>2, <2>7, <2>8, <2>9 DEF Dict!Store
<1>4. QED BY <1>2, <1>3 DEF ItemSet

\* A step that takes the key out of slot r, and leaves the other keys in
\* their slots, forgets that key.
LEMMA OutMaps ==
  ASSUME HashIInv, HashIInv', NEW r \in Slots, key[r] \in Keys,
         elem' = [elem EXCEPT ![r] = NoElem],
         \A s \in Slots : key'[s] \in Keys <=> s # r /\ key[s] \in Keys,
         \A s \in Slots : key'[s] \in Keys => key'[s] = key[s]
  PROVE  key[r] \in Stored /\ Dict!Forget(key[r])
<1>0. Told /\ Told' BY DictBarTold, DictBarToldNext
<1>1. Stored = {key[t] : t \in {x \in Slots : key[x] \in Keys}} BY <1>0 DEF Told
<1>2. Stored' = {key'[t] : t \in {x \in Slots : key'[x] \in Keys}} BY <1>0 DEF Told
<1>3. \A s \in Slots : s # r /\ key[s] \in Keys => key[s] # key[r] BY DEF HashIInv, Unique
<1>4. Stored' = Stored \ {key[r]} BY <1>1, <1>2, <1>3
<1>5. \A x \in Stored' : dictBar'[x] = dictBar[x]
  <2>1. SUFFICES ASSUME NEW x \in Stored' PROVE dictBar'[x] = dictBar[x] OBVIOUS
  <2>2. PICK t \in Slots : key'[t] \in Keys /\ x = key'[t] BY <1>2
  <2>3. dictBar'[x] = elem'[t] BY <1>0, <2>2 DEF Told
  <2>4. t # r /\ key[t] = x /\ elem'[t] = elem[t] BY <2>2 DEF HashIInv, HashOK
  <2>5. dictBar[x] = elem[t] BY <1>0, <2>2, <2>4 DEF Told
  <2>6. QED BY <2>3, <2>4, <2>5
<1>6. dictBar' = [x \in Stored' |-> dictBar'[x]] /\ DOMAIN dictBar = Stored
  BY <1>0 DEF Told
<1>7. dictBar' = [x \in DOMAIN dictBar \ {key[r]} |-> dictBar[x]] BY <1>4, <1>5, <1>6
<1>8. QED BY <1>1, <1>7 DEF Dict!Forget, Dict!Restrict

LEMMA RemoveMaps ==
  ASSUME HashIInv, HashIInv', NEW k \in Keys, ItemRemove(k)
  PROVE  k \in Stored /\ Dict!Forget(k)
<1>1. PICK r \in Found(k) :
        /\ key' = Reclaimed([key EXCEPT ![r] = Gone], r)
        /\ elem' = [elem EXCEPT ![r] = NoElem]
  BY DEF ItemRemove
<1>2. r \in Slots /\ key[r] = k BY DEF Found
<1> DEFINE held == [key EXCEPT ![r] = Gone]
<1>3. /\ held \in [Slots -> Keys \cup {Free, Gone}]
      /\ \A s \in Slots : held[s] = IF s = r THEN Gone ELSE key[s]
  BY <1>2 DEF HashIInv, HashOK
<1>4. key' = Reclaimed(held, r) BY <1>1
<1> HIDE DEF held
<1>5. \A s \in Slots : key'[s] = held[s] \/ (held[s] = Gone /\ key'[s] = Free)
  BY <1>2, <1>3, <1>4, ReclaimedIs
<1>6. /\ \A s \in Slots : key'[s] \in Keys <=> s # r /\ key[s] \in Keys
      /\ \A s \in Slots : key'[s] \in Keys => key'[s] = key[s]
  BY <1>3, <1>5, HashTableAssumption
<1>7. QED BY <1>1, <1>2, <1>6, OutMaps

LEMMA RemoveFromIndexMaps ==
  ASSUME HashIInv, HashIInv', NEW r \in Slots, ItemRemoveFromIndex(r)
  PROVE  key[r] \in Stored /\ Dict!Forget(key[r])
<1>1. key[r] \in Keys /\ elem' = [elem EXCEPT ![r] = NoElem] BY DEF ItemRemoveFromIndex
<1>2. \A s \in Slots : key'[s] = IF s = r THEN Gone ELSE key[s]
  BY DEF ItemRemoveFromIndex, HashIInv, HashOK
<1>3. QED BY <1>1, <1>2, OutMaps, HashTableAssumption

\* The table is a map from keys to elements: a key that was stored is found,
\* with its element, until it is removed, and no other step changes what is
\* found.
THEOREM Implements == HashSpec => IsDictionary
<1>1. ASSUME HashIInv, HashIInv', [HashNext]_hashVars PROVE [Dict!DictNext]_dictBar
  <2>1. CASE UNCHANGED hashVars BY <2>1 DEF hashVars, dictBar, Stored, Found
  <2>2. ASSUME NEW k \in Keys, NEW e \in Elems, ItemSet(k, e) PROVE [Dict!DictNext]_dictBar
    <3>1. (k \notin Stored /\ Dict!Store(k, e)) \/ UNCHANGED dictBar BY <1>1, <2>2, SetMaps
    <3>2. DOMAIN dictBar = Stored BY <1>1, DictBarTold DEF Told
    <3>3. QED BY <3>1, <3>2 DEF Dict!DictNext
  <2>3. ASSUME NEW k \in Keys, ItemRemove(k) PROVE Dict!DictNext
    <3>1. k \in Stored /\ Dict!Forget(k) BY <1>1, <2>3, RemoveMaps
    <3>2. DOMAIN dictBar = Stored BY <1>1, DictBarTold DEF Told
    <3>3. QED BY <3>1, <3>2 DEF Dict!DictNext
  <2>4. ASSUME NEW s \in Slots, ItemRemoveFromIndex(s) PROVE Dict!DictNext
    <3>1. key[s] \in Stored /\ Dict!Forget(key[s]) BY <1>1, <2>4, RemoveFromIndexMaps
    <3>2. DOMAIN dictBar = Stored BY <1>1, DictBarTold DEF Told
    <3>3. QED BY <3>1, <3>2 DEF Dict!DictNext
  <2>5. QED BY <1>1, <2>1, <2>2, <2>3, <2>4 DEF HashNext
<1>2. QED BY <1>1, InitMaps, Searchable, PTL DEF HashSpec, IsDictionary, Dict!DictSpec

-----------------------------------------------------------------------------
(* Routes.                                                                 *)

\* Datagrams and local applications have no connection that goes down.
OnlyTcpDown == \A k \in DOMAIN sock : k \in Open \/ k \in TcpPeers

\* The inductive invariant.
IInv == TypeOK /\ OnlyTcpDown /\ ConnectedApart

Socks(s) ==
  /\ DOMAIN s \subseteq Peers \cup Apps
  /\ s \in [DOMAIN s -> [face : FaceIds, open : BOOLEAN]]
  /\ \A k \in DOMAIN s : s[k].open \/ k \in TcpPeers
  /\ \A k, l \in DOMAIN s :
       k # l /\ s[k].face = s[l].face => \E x \in {k, l} : x \in TcpPeers /\ ~s[x].open

Fibs(b) == b \in [Uris -> Seq(Elements)]

LEMMA IInvParts ==
  IInv <=> Socks(sock) /\ Fibs(fib) /\ next \in 1 .. FaceMax + 1 /\ todo \in Seq(Operations)
<1>1. ASSUME DOMAIN sock \subseteq Peers \cup Apps,
             sock \in [DOMAIN sock -> [face : FaceIds, open : BOOLEAN]]
      PROVE  /\ OnlyTcpDown <=> \A k \in DOMAIN sock : sock[k].open \/ k \in TcpPeers
             /\ ConnectedApart <=> \A k, l \in DOMAIN sock :
                  k # l /\ sock[k].face = sock[l].face => \E x \in {k, l} : x \in TcpPeers /\ ~sock[x].open
  BY <1>1 DEF OnlyTcpDown, ConnectedApart, Open, FaceOf
<1>2. QED BY <1>1 DEF IInv, TypeOK, Socks, Fibs

LEMMA IInvPartsPrime ==
  IInv' <=> Socks(sock') /\ Fibs(fib') /\ next' \in 1 .. FaceMax + 1 /\ todo' \in Seq(Operations)
<1>1. ASSUME DOMAIN sock' \subseteq Peers \cup Apps,
             sock' \in [DOMAIN sock' -> [face : FaceIds, open : BOOLEAN]]
      PROVE  /\ OnlyTcpDown' <=> \A k \in DOMAIN sock' : sock'[k].open \/ k \in TcpPeers
             /\ ConnectedApart' <=> \A k, l \in DOMAIN sock' :
                  k # l /\ sock'[k].face = sock'[l].face => \E x \in {k, l} : x \in TcpPeers /\ ~sock'[x].open
  BY <1>1 DEF OnlyTcpDown, ConnectedApart, Open, FaceOf
<1>2. QED BY <1>1 DEF IInv, TypeOK, Socks, Fibs

-----------------------------------------------------------------------------
(* Least elements, and lists without one of their elements.                *)

LEMMA MinBelongs ==
  ASSUME NEW S, S \subseteq Nat, S # {}
  PROVE  Min(S) \in S
BY LeastNat DEF Min

LEMMA RemoveAtList ==
  ASSUME NEW list \in Seq(Elements), NEW i \in DOMAIN list
  PROVE  RemoveAt(list, i) \in Seq(Elements)
<1>1. i \in 1 .. Len(list) /\ Len(list) \in Nat OBVIOUS
<1>2. SubSeq(list, 1, i - 1) \in Seq(Elements) BY <1>1
<1>3. SubSeq(list, i + 1, Len(list)) \in Seq(Elements) BY <1>1
<1>4. QED BY <1>2, <1>3, ConcatProperties DEF RemoveAt

LEMMA AtMin ==
  ASSUME NEW list \in Seq(Elements), NEW f, At(list, f) # {}
  PROVE  Min(At(list, f)) \in DOMAIN list
<1>1. At(list, f) \subseteq DOMAIN list /\ DOMAIN list \subseteq Nat BY DEF At
<1>2. QED BY <1>1, MinBelongs

LEMMA SetFaceidList ==
  ASSUME NEW list \in Seq(Elements), NEW f \in FaceIds, NEW o \in Owners
  PROVE  SetFaceid(list, f, o) \in Seq(Elements)
<1>1. CASE At(list, f) = {} BY <1>1 DEF SetFaceid, Elements
<1>2. CASE At(list, f) # {}
  <2> DEFINE i == Min(At(list, f))
  <2>1. i \in DOMAIN list BY <1>2, AtMin
  <2>2. i \in 1 .. Len(list) /\ list[i] \in Elements BY <2>1
  <2>3. [list[i] EXCEPT !.owners = @ \cup {o}] \in Elements BY <2>2 DEF Elements
  <2>4. SetFaceid(list, f, o) = [list EXCEPT ![i] = [list[i] EXCEPT !.owners = @ \cup {o}]]
    BY <1>2 DEF SetFaceid
  <2> HIDE DEF i
  <2>5. QED BY <2>2, <2>3, <2>4, ExceptSeq
<1>3. QED BY <1>1, <1>2

LEMMA RemoveFaceidList ==
  ASSUME NEW list \in Seq(Elements), NEW f, NEW o
  PROVE  RemoveFaceid(list, f, o) \in Seq(Elements)
<1>1. CASE At(list, f) = {} BY <1>1 DEF RemoveFaceid
<1>2. CASE At(list, f) # {}
  <2> DEFINE i == Min(At(list, f))
  <2>1. i \in DOMAIN list BY <1>2, AtMin
  <2>2. i \in 1 .. Len(list) /\ list[i] \in Elements BY <2>1
  <2>3. [list[i] EXCEPT !.owners = @ \ {o}] \in Elements BY <2>2 DEF Elements
  <2>4. RemoveFaceid(list, f, o) =
          IF "static" \in list[i].owners \ {o}
          THEN [list EXCEPT ![i] = [list[i] EXCEPT !.owners = @ \ {o}]]
          ELSE RemoveAt(list, i)
    BY <1>2 DEF RemoveFaceid
  <2> HIDE DEF i
  <2>5. [list EXCEPT ![i] = [list[i] EXCEPT !.owners = @ \ {o}]] \in Seq(Elements)
    BY <2>2, <2>3, ExceptSeq
  <2>6. QED BY <2>1, <2>4, <2>5, RemoveAtList
<1>3. QED BY <1>1, <1>2

LEMMA CleanedFibs ==
  ASSUME NEW b, Fibs(b), NEW s
  PROVE  Fibs(Cleaned(b, s))
<1>1. ASSUME NEW p \in Uris, NEW closed, closed \subseteq DOMAIN b[p]
      PROVE  (IF closed = {} THEN b[p] ELSE RemoveAt(b[p], Min(closed))) \in Seq(Elements)
  <2>1. b[p] \in Seq(Elements) BY DEF Fibs
  <2>2. DOMAIN b[p] \subseteq Nat BY <2>1
  <2>3. CASE closed # {}
    <3>1. Min(closed) \in DOMAIN b[p] BY <1>1, <2>2, <2>3, MinBelongs
    <3>2. QED BY <2>1, <2>3, <3>1, RemoveAtList
  <2>4. QED BY <2>1, <2>3
<1>2. QED BY <1>1 DEF Cleaned, Fibs

LEMMA AfterMessageFibs ==
  ASSUME NEW b, Fibs(b)
  PROVE  Fibs(AfterMessage(b))
BY CleanedFibs DEF AfterMessage

-----------------------------------------------------------------------------
(* Socket entries.                                                         *)

LEMMA FewerSocks ==
  ASSUME NEW s, Socks(s), NEW K, K \subseteq DOMAIN s
  PROVE  Socks(Restrict(s, K))
<1>1. DOMAIN Restrict(s, K) = K /\ \A k \in K : Restrict(s, K)[k] = s[k] BY DEF Restrict
<1>2. Restrict(s, K) \in [K -> [face : FaceIds, open : BOOLEAN]] BY DEF Socks, Restrict
<1>3. QED BY <1>1, <1>2 DEF Socks

LEMMA ClosedSocks ==
  ASSUME NEW s, Socks(s), NEW f
  PROVE  Socks(Closed(s, f))
BY FewerSocks DEF Closed

\* The round robin gives out a Face-ID that is not in use.
LEMMA NextFaceUnused ==
  ASSUME Unused # {}
  PROVE  NextFace \in Unused
<1>1. Unused \subseteq Nat BY RoutesAssumption DEF Unused, FaceIds
<1>2. {f \in Unused : f >= next} \subseteq Nat BY <1>1
<1>3. QED BY <1>1, <1>2, MinBelongs DEF NextFace

\* An entry with a Face-ID that nobody else's open entry names.
LEMMA WithSocks ==
  ASSUME Socks(sock), NEW k \in Peers \cup Apps, NEW f \in FaceIds,
         \A l \in DOMAIN sock : l # k /\ sock[l].face = f => ~sock[l].open
  PROVE  Socks(With(k, f))
<1> DEFINE w == With(k, f)
<1>1. /\ DOMAIN w = DOMAIN sock \cup {k}
      /\ w[k] = [face |-> f, open |-> TRUE]
      /\ \A l \in DOMAIN sock : l # k => w[l] = sock[l]
  BY DEF With
<1>2. w \in [DOMAIN w -> [face : FaceIds, open : BOOLEAN]] BY DEF With, Socks
<1>3. \A l \in DOMAIN w : w[l].open \/ l \in TcpPeers BY <1>1 DEF Socks
<1>4. ASSUME NEW l \in DOMAIN w, NEW m \in DOMAIN w, l # m, w[l].face = w[m].face
      PROVE  \E x \in {l, m} : x \in TcpPeers /\ ~w[x].open
  <2>1. CASE l = k BY <1>1, <1>4, <2>1 DEF Socks
  <2>2. CASE m = k BY <1>1, <1>4, <2>2 DEF Socks
  <2>3. CASE l # k /\ m # k BY <1>1, <1>4, <2>3 DEF Socks
  <2>4. QED BY <2>1, <2>2, <2>3
<1>5. QED BY <1>1, <1>2, <1>3, <1>4 DEF Socks

LEMMA GivenSocks ==
  ASSUME Socks(sock), next \in 1 .. FaceMax + 1,
         NEW k \in Peers \cup Apps, NEW f, Given(k, f)
  PROVE  Socks(sock') /\ next' \in 1 .. FaceMax + 1
<1>1. CASE Unused # {} /\ f = NextFace /\ sock' = With(k, f) /\ next' = f + 1
  <2>1. f \in Unused BY <1>1, NextFaceUnused
  <2>2. f \in FaceIds BY <2>1 DEF Unused
  <2>3. \A l \in DOMAIN sock : sock[l].face = f => ~sock[l].open
    BY <2>1 DEF Unused, Open, FaceOf
  <2>4. QED BY <1>1, <2>2, <2>3, WithSocks, RoutesAssumption DEF FaceIds
<1>2. CASE next' = 1 /\ UNCHANGED sock BY <1>2, RoutesAssumption
<1>3. QED BY <1>1, <1>2 DEF Given

LEMMA AgainSocks ==
  ASSUME Socks(sock), OneNameEach, NEW k, NEW f, Again(k, f)
  PROVE  Socks(sock')
<1>1. k \in DOMAIN sock /\ f = sock[k].face /\ sock' = With(k, f) BY DEF Again, FaceOf
<1>2. k \in Peers \cup Apps /\ f \in FaceIds BY <1>1 DEF Socks
<1>3. \A l \in DOMAIN sock : sock[l].face = f => l = k BY <1>1 DEF OneNameEach, FaceOf
<1>4. QED BY <1>1, <1>2, <1>3, WithSocks

LEMMA LookupSocks ==
  ASSUME Socks(sock), OneNameEach, next \in 1 .. FaceMax + 1,
         NEW k \in Peers, NEW f, LookupFaceid(k, f)
  PROVE  Socks(sock') /\ next' \in 1 .. FaceMax + 1
<1>1. CASE UNCHANGED <<sock, next>> BY <1>1
<1>2. CASE Again(k, f) BY <1>2, AgainSocks DEF Again
<1>3. CASE Given(k, f) BY <1>3, GivenSocks
<1>4. CASE Refused(k, f) BY <1>4, ClosedSocks DEF Refused
<1>5. QED BY <1>1, <1>2, <1>3, <1>4 DEF LookupFaceid

-----------------------------------------------------------------------------
(* The events.                                                             *)

LEMMA InitIInv == Init => IInv
<1> SUFFICES ASSUME Init PROVE IInv OBVIOUS
<1>1. Socks(sock) BY DEF Init, Socks
<1>2. Fibs(fib) BY DEF Init, Fibs
<1>3. next \in 1 .. FaceMax + 1 /\ todo \in Seq(Operations) BY RoutesAssumption DEF Init
<1>4. QED BY <1>1, <1>2, <1>3, IInvParts

LEMMA RestartIInv == Restart => IInv'
<1> SUFFICES ASSUME Restart PROVE IInv' OBVIOUS
<1>1. Socks(sock') BY DEF Restart, Socks
<1>2. Fibs(fib') BY DEF Restart, Fibs
<1>3. next' \in 1 .. FaceMax + 1 /\ todo' \in Seq(Operations) BY RoutesAssumption DEF Restart
<1>4. QED BY <1>1, <1>2, <1>3, IInvPartsPrime

LEMMA OperationIInv ==
  ASSUME IInv, OneNameEach, todo # <<>>, RouteOperation
  PROVE  IInv'
<1> DEFINE r == Head(todo)
<1>1. Socks(sock) /\ Fibs(fib) /\ next \in 1 .. FaceMax + 1 /\ todo \in Seq(Operations) BY IInvParts
<1>2. r \in Operations /\ todo' \in Seq(Operations) BY <1>1 DEF RouteOperation
<1>3. r.uri \in Uris /\ r.host \in Peers /\ r.owner \in Owners BY <1>2 DEF Operations
<1> HIDE DEF r
<1>4. CASE RouteAdd(r.uri, r.host, r.owner)
  <2>1. PICK f \in FaceIds \cup {NoFace} :
          /\ LookupFaceid(r.host, f)
          /\ LET refused == f = NoFace \/ (fib[r.uri] = <<>> /\ FibFull)
             IN  fib' = AfterMessage(IF refused THEN fib
                                     ELSE [fib EXCEPT ![r.uri] = SetFaceid(@, f, r.owner)])
    BY <1>4 DEF RouteAdd
  <2>2. Socks(sock') /\ next' \in 1 .. FaceMax + 1 BY <1>1, <1>3, <2>1, LookupSocks
  <2>3. f # NoFace => Fibs([fib EXCEPT ![r.uri] = SetFaceid(@, f, r.owner)])
    BY <1>1, <1>3, SetFaceidList DEF Fibs
  <2>4. Fibs(fib') BY <1>1, <2>1, <2>3, AfterMessageFibs
  <2>5. QED BY <1>2, <2>2, <2>4, IInvPartsPrime
<1>5. CASE RouteDel(r.uri, r.host, r.owner)
  <2>1. Socks(sock') /\ next' \in 1 .. FaceMax + 1 BY <1>1, <1>5, ClosedSocks DEF RouteDel
  <2>2. Fibs([fib EXCEPT ![r.uri] = RemoveFaceid(@, FaceOf(r.host), r.owner)])
    BY <1>1, <1>3, RemoveFaceidList DEF Fibs
  <2>3. Fibs(fib') BY <1>5, <2>2, AfterMessageFibs DEF RouteDel
  <2>4. QED BY <1>2, <2>1, <2>3, IInvPartsPrime
<1>6. CASE NothingToDel(r.uri, r.host)
  <2>1. Fibs(fib') /\ UNCHANGED <<sock, next>> BY <1>1, <1>6, AfterMessageFibs DEF NothingToDel
  <2>2. QED BY <1>1, <1>2, <2>1, IInvPartsPrime
<1>7. QED BY <1>4, <1>5, <1>6 DEF RouteOperation, r

LEMMA MessageOperations ==
  ASSUME NEW m \in Messages, RouteMessage(m)
  PROVE  todo' \in Seq(Operations)
<1>1. m.op \in {"add", "del"} /\ m.uri \in Uris /\ m.hosts \in Seq(Peers) /\ m.owner \in Owners
  BY RoutesAssumption
<1>2. DOMAIN m.hosts = 1 .. Len(m.hosts) /\ Len(m.hosts) \in Nat BY <1>1
<1>3. \A i \in DOMAIN m.hosts :
        [op |-> m.op, uri |-> m.uri, host |-> m.hosts[i], owner |-> m.owner] \in Operations
  BY <1>1 DEF Operations
<1>4. todo' \in [1 .. Len(m.hosts) -> Operations] BY <1>2, <1>3 DEF RouteMessage
<1>5. QED BY <1>2, <1>4

LEMMA EventIInv ==
  ASSUME IInv, OneNameEach, Event
  PROVE  IInv'
<1>1. Socks(sock) /\ Fibs(fib) /\ next \in 1 .. FaceMax + 1 /\ todo \in Seq(Operations) BY IInvParts
<1>2. ASSUME NEW m \in Messages, RouteMessage(m) PROVE IInv'
  BY <1>1, <1>2, MessageOperations, IInvPartsPrime DEF RouteMessage
<1>3. ASSUME NEW h \in UdpPeers, Arrival(h) PROVE IInv'
  BY <1>1, <1>3, LookupSocks, IInvPartsPrime DEF Arrival, Peers
<1>4. ASSUME NEW h \in TcpPeers, Accept(h) PROVE IInv'
  <2>1. PICK f \in FaceIds \cup {NoFace} : Again(h, f) \/ Given(h, f) BY <1>4 DEF Accept
  <2>2. Socks(sock') /\ next' \in 1 .. FaceMax + 1
    BY <1>1, <2>1, AgainSocks, GivenSocks DEF Again, Peers
  <2>3. QED BY <1>1, <1>4, <2>2, IInvPartsPrime DEF Accept
<1>5. ASSUME NEW h \in TcpPeers, TcpDown(h) PROVE IInv'
  <2> DEFINE s == [sock EXCEPT ![h].open = FALSE]
  <2>1. h \in DOMAIN sock BY <1>5 DEF TcpDown, Open
  <2>2. sock \in [DOMAIN sock -> [face : FaceIds, open : BOOLEAN]] BY <1>1 DEF Socks
  <2>3. /\ DOMAIN s = DOMAIN sock /\ s[h] = [face |-> sock[h].face, open |-> FALSE]
        /\ \A k \in DOMAIN sock : k # h => s[k] = sock[k]
    BY <2>1, <2>2
  <2>4. s \in [DOMAIN s -> [face : FaceIds, open : BOOLEAN]] BY <2>1, <2>2
  <2> HIDE DEF s
  <2>5. \A k \in DOMAIN s : s[k].face = sock[k].face /\ (s[k].open => sock[k].open)
    BY <2>1, <2>2, <2>3
  <2>6. Socks(s) BY <1>1, <2>3, <2>4, <2>5 DEF Socks
  <2>7. QED BY <1>1, <1>5, <2>6, IInvPartsPrime DEF TcpDown, s
<1>6. ASSUME NEW h \in TcpPeers, TcpError(h) PROVE IInv'
  BY <1>1, <1>6, ClosedSocks, CleanedFibs, IInvPartsPrime DEF TcpError
<1>7. ASSUME NEW a \in Apps, AppConnect(a) PROVE IInv'
  BY <1>1, <1>7, GivenSocks, IInvPartsPrime DEF AppConnect
<1>8. ASSUME NEW a \in Apps, AppClose(a) PROVE IInv'
  BY <1>1, <1>8, ClosedSocks, IInvPartsPrime DEF AppClose
<1>9. CASE FacesCleanup
  BY <1>1, <1>9, FewerSocks, IInvPartsPrime DEF FacesCleanup
<1>10. QED BY <1>2, <1>3, <1>4, <1>5, <1>6, <1>7, <1>8, <1>9 DEF Event

LEMMA StepIInv == IInv /\ [Next]_vars => IInv'
<1> SUFFICES ASSUME IInv, [Next]_vars PROVE IInv' OBVIOUS
<1>1. CASE OneNameEach /\ todo # <<>> /\ RouteOperation BY <1>1, OperationIInv
<1>2. CASE OneNameEach /\ todo = <<>> /\ Event BY <1>2, EventIInv
<1>3. CASE Restart BY <1>3, RestartIInv
<1>4. CASE UNCHANGED vars BY <1>4, IInvParts, IInvPartsPrime DEF vars
<1>5. QED BY <1>1, <1>2, <1>3, <1>4 DEF Next

THEOREM Invariance == Spec => []IInv
BY InitIInv, StepIInv, PTL DEF Spec

\* cef_face.c and cef_fib.c: Face-IDs stay in the face table, whatever the
\* events and the order of the hosts in a message.
THEOREM TypeCorrect == Spec => []TypeOK
<1>1. IInv => TypeOK BY DEF IInv
<1>2. QED BY <1>1, Invariance, PTL

\* cef_face_unused_faceid_search and its five callers never give a Face-ID
\* that is in use to somebody else: only the face of a TCP connection that is
\* down can lose its Face-ID.
THEOREM FacesApart == Spec => []ConnectedApart
<1>1. IInv => ConnectedApart BY DEF IInv
<1>2. QED BY <1>1, Invariance, PTL

-----------------------------------------------------------------------------
(* Routes implements RouteTable: the lists of the FIB.                     *)

\* The list names face f with owner o; it names face f; it names no face twice.
Listed(list, f, o) == \E i \in DOMAIN list : list[i].face = f /\ o \in list[i].owners
Names(list, f) == \E i \in DOMAIN list : list[i].face = f
Once(list) == \A i, j \in DOMAIN list : list[i].face = list[j].face => i = j

LEMMA RemoveAtIs ==
  ASSUME NEW list \in Seq(Elements), NEW i \in DOMAIN list
  PROVE  /\ DOMAIN RemoveAt(list, i) = 1 .. Len(list) - 1
         /\ \A j \in 1 .. Len(list) - 1 : RemoveAt(list, i)[j] = IF j < i THEN list[j] ELSE list[j + 1]
<1>1. i \in 1 .. Len(list) /\ Len(list) \in Nat /\ list \in [1 .. Len(list) -> Elements] OBVIOUS
<1> DEFINE a == SubSeq(list, 1, i - 1)
           b == SubSeq(list, i + 1, Len(list))
<1>2. a \in Seq(Elements) /\ Len(a) = i - 1 /\ \A j \in 1 .. i - 1 : a[j] = list[j] BY <1>1
<1>3. b \in Seq(Elements) /\ Len(b) = Len(list) - i /\ \A j \in 1 .. Len(list) - i : b[j] = list[i + j]
  <2>1. i + 1 \in Int /\ Len(list) \in Int /\ \A m \in i + 1 .. Len(list) : list[m] \in Elements BY <1>1
  <2>2. /\ b \in Seq(Elements)
        /\ Len(b) = IF i + 1 <= Len(list) THEN Len(list) - (i + 1) + 1 ELSE 0
        /\ \A j \in 1 .. Len(list) - (i + 1) + 1 : b[j] = list[(i + 1) + j - 1]
    BY <2>1, SubSeqProperties
  <2> HIDE DEF b
  <2>3. Len(b) = Len(list) - i
    <3>1. i \in Int /\ Len(list) \in Int /\ i <= Len(list) BY <1>1
    <3>2. Len(b) = IF i + 1 <= Len(list) THEN Len(list) - (i + 1) + 1 ELSE 0 BY <2>2
    <3>3. QED BY <3>1, <3>2
  <2>4. \A j \in 1 .. Len(list) - i : b[j] = list[i + j]
    <3>1. SUFFICES ASSUME NEW j \in 1 .. Len(list) - i PROVE b[j] = list[i + j] OBVIOUS
    <3>2. j \in 1 .. Len(list) - (i + 1) + 1 /\ (i + 1) + j - 1 = i + j BY <1>1
    <3>3. QED BY <2>2, <3>2
  <2>5. QED BY <2>2, <2>3, <2>4
<1>4. RemoveAt(list, i) = a \o b BY DEF RemoveAt
<1> HIDE DEF a, b
<1>5. Len(a \o b) = Len(list) - 1 /\ a \o b \in Seq(Elements)
  <2>1. a \o b \in Seq(Elements) /\ Len(a \o b) = Len(a) + Len(b) BY <1>2, <1>3, ConcatProperties
  <2>2. QED BY <1>1, <1>2, <1>3, <2>1
<1>6. \A j \in 1 .. Len(list) - 1 : (a \o b)[j] = IF j < i THEN list[j] ELSE list[j + 1]
  <2>1. SUFFICES ASSUME NEW j \in 1 .. Len(list) - 1
                 PROVE  (a \o b)[j] = IF j < i THEN list[j] ELSE list[j + 1]
    OBVIOUS
  <2>2. (a \o b)[j] = IF j <= Len(a) THEN a[j] ELSE b[j - Len(a)] BY <1>1, <1>2, <1>3, ConcatProperties
  <2>3. CASE j < i BY <1>1, <1>2, <2>2, <2>3
  <2>4. CASE ~(j < i)
    <3>1. j - (i - 1) \in 1 .. Len(list) - i /\ i + (j - (i - 1)) = j + 1 BY <1>1, <2>4
    <3>2. b[j - (i - 1)] = list[j + 1] BY <1>3, <3>1
    <3>3. QED BY <1>1, <1>2, <2>2, <2>4, <3>2
  <2>5. QED BY <2>3, <2>4
<1>7. PICK c : c = RemoveAt(list, i) /\ c = a \o b BY <1>4
<1>8. c \in Seq(Elements) /\ Len(c) = Len(list) - 1 BY <1>5, <1>7
<1>9. DOMAIN c = 1 .. Len(list) - 1 BY <1>8
<1>10. \A j \in 1 .. Len(list) - 1 : c[j] = IF j < i THEN list[j] ELSE list[j + 1] BY <1>6, <1>7
<1>11. QED BY <1>7, <1>9, <1>10

\* A list without one of its elements lacks that element's face, and no other.
LEMMA RemoveAtLists ==
  ASSUME NEW list \in Seq(Elements), NEW i \in DOMAIN list, Once(list)
  PROVE  /\ Once(RemoveAt(list, i))
         /\ \A g, x : Listed(RemoveAt(list, i), g, x) <=> Listed(list, g, x) /\ g # list[i].face
         /\ \A g : Names(RemoveAt(list, i), g) <=> Names(list, g) /\ g # list[i].face
<1> DEFINE n == Len(list)  new == RemoveAt(list, i)
<1>1. i \in 1 .. n /\ n \in Nat /\ DOMAIN list = 1 .. n OBVIOUS
<1>2. DOMAIN new = 1 .. n - 1 /\ \A j \in 1 .. n - 1 : new[j] = IF j < i THEN list[j] ELSE list[j + 1]
  BY RemoveAtIs
<1> HIDE DEF n, new
<1>3. \A j \in DOMAIN new : \E m \in DOMAIN list : m # i /\ new[j] = list[m] /\ (IF j < i THEN m = j ELSE m = j + 1)
  <2>1. SUFFICES ASSUME NEW j \in 1 .. n - 1
                 PROVE  \E m \in 1 .. n : m # i /\ new[j] = list[m] /\ (IF j < i THEN m = j ELSE m = j + 1)
    BY <1>1, <1>2
  <2>2. CASE j < i BY <1>1, <1>2, <2>2
  <2>3. CASE ~(j < i)
    <3>1. j + 1 \in 1 .. n /\ j + 1 # i BY <1>1, <2>3
    <3>2. new[j] = list[j + 1] BY <1>2, <2>3
    <3>3. QED BY <2>3, <3>1, <3>2
  <2>4. QED BY <2>2, <2>3
<1>4. \A m \in DOMAIN list : m # i => \E j \in DOMAIN new : new[j] = list[m]
  <2>1. SUFFICES ASSUME NEW m \in 1 .. n, m # i PROVE \E j \in 1 .. n - 1 : new[j] = list[m] BY <1>1, <1>2
  <2>2. CASE m < i
    <3>1. m \in 1 .. n - 1 BY <1>1, <2>2
    <3>2. QED BY <1>2, <2>2, <3>1
  <2>3. CASE ~(m < i)
    <3>1. m - 1 \in 1 .. n - 1 /\ ~(m - 1 < i) /\ (m - 1) + 1 = m BY <1>1, <2>1, <2>3
    <3>2. new[m - 1] = list[m] BY <1>2, <3>1
    <3>3. QED BY <3>1, <3>2
  <2>4. QED BY <2>2, <2>3
<1>5. Once(new)
  <2>1. SUFFICES ASSUME NEW j \in DOMAIN new, NEW k \in DOMAIN new, new[j].face = new[k].face PROVE j = k
    BY DEF Once
  <2>2. PICK a \in DOMAIN list : new[j] = list[a] /\ (IF j < i THEN a = j ELSE a = j + 1) BY <1>3
  <2>3. PICK b \in DOMAIN list : new[k] = list[b] /\ (IF k < i THEN b = k ELSE b = k + 1) BY <1>3
  <2>4. a = b BY <2>1, <2>2, <2>3 DEF Once
  <2>5. j \in Int /\ k \in Int /\ i \in Int BY <1>1, <1>2
  <2>6. QED BY <2>2, <2>3, <2>4, <2>5
<1>6. \A m \in DOMAIN list : m # i => list[m].face # list[i].face BY DEF Once
<1>7. \A g, x : Listed(new, g, x) <=> Listed(list, g, x) /\ g # list[i].face BY <1>3, <1>4, <1>6 DEF Listed
<1>8. \A g : Names(new, g) <=> Names(list, g) /\ g # list[i].face BY <1>3, <1>4, <1>6 DEF Names
<1>9. QED BY <1>5, <1>7, <1>8 DEF new

LEMMA SetFaceidLists ==
  ASSUME NEW list \in Seq(Elements), Once(list), NEW f \in FaceIds, NEW o \in Owners
  PROVE  /\ Once(SetFaceid(list, f, o))
         /\ \A g, x : Listed(SetFaceid(list, f, o), g, x) <=> Listed(list, g, x) \/ (g = f /\ x = o)
         /\ \A g : Names(SetFaceid(list, f, o), g) <=> Names(list, g) \/ g = f
<1>0. DOMAIN list = 1 .. Len(list) /\ Len(list) \in Nat OBVIOUS
<1>1. CASE At(list, f) = {}
  <2> DEFINE e == [face |-> f, owners |-> {o}]
             new == Append(list, e)
  <2>1. e \in Elements /\ e.face = f /\ \A x : x \in e.owners <=> x = o BY DEF Elements
  <2> HIDE DEF e
  <2>2. /\ DOMAIN new = 1 .. Len(list) + 1 /\ new[Len(list) + 1] = e
        /\ \A j \in DOMAIN list : new[j] = list[j] /\ j \in DOMAIN new
    BY <2>1, <1>0
  <2>3. SetFaceid(list, f, o) = new BY <1>1 DEF SetFaceid, e
  <2> HIDE DEF new
  <2>4. \A j \in DOMAIN new : j \in DOMAIN list \/ j = Len(list) + 1 BY <1>0, <2>2
  <2>5. \A j \in DOMAIN list : list[j].face # f BY <1>1 DEF At
  <2>6. Len(list) + 1 \in DOMAIN new /\ Len(list) + 1 \notin DOMAIN list BY <1>0, <2>2
  <2>7. Once(new) BY <2>1, <2>2, <2>4, <2>5 DEF Once
  <2>8. \A g, x : Listed(new, g, x) <=> Listed(list, g, x) \/ (g = f /\ x = o)
    BY <2>1, <2>2, <2>4, <2>6 DEF Listed
  <2>9. \A g : Names(new, g) <=> Names(list, g) \/ g = f BY <2>1, <2>2, <2>4, <2>6 DEF Names
  <2>10. QED BY <2>3, <2>7, <2>8, <2>9
<1>2. CASE At(list, f) # {}
  <2> DEFINE i == Min(At(list, f))
  <2>1. i \in DOMAIN list BY <1>2, AtMin
  <2>2. i \in At(list, f)
    <3>1. At(list, f) \subseteq Nat BY <1>0 DEF At
    <3>2. QED BY <1>2, <3>1, MinBelongs
  <2>3. SetFaceid(list, f, o) = [list EXCEPT ![i] = [list[i] EXCEPT !.owners = @ \cup {o}]]
    BY <1>2 DEF SetFaceid
  <2> HIDE DEF i
  <2>4. list[i].face = f /\ list[i] \in Elements BY <2>1, <2>2 DEF At
  <2> DEFINE new == [list EXCEPT ![i] = [list[i] EXCEPT !.owners = @ \cup {o}]]
  <2>5. /\ DOMAIN new = DOMAIN list /\ new[i].face = f /\ (\A x : x \in new[i].owners <=> x \in list[i].owners \/ x = o)
        /\ \A j \in DOMAIN list : j # i => new[j] = list[j]
    BY <2>1, <2>4 DEF Elements
  <2> HIDE DEF new
  <2>6. Once(new)
    <3>1. \A j \in DOMAIN list : new[j].face = list[j].face BY <2>4, <2>5
    <3>2. QED BY <2>5, <3>1 DEF Once
  <2>7. \A g, x : Listed(new, g, x) <=> Listed(list, g, x) \/ (g = f /\ x = o) BY <2>1, <2>4, <2>5 DEF Listed
  <2>8. \A g : Names(new, g) <=> Names(list, g) \/ g = f BY <2>1, <2>4, <2>5 DEF Names
  <2>9. QED BY <2>3, <2>6, <2>7, <2>8 DEF new
<1>3. QED BY <1>1, <1>2

\* Where face f has no owner but o, its element goes with o.
LEMMA RemoveFaceidLists ==
  ASSUME NEW list \in Seq(Elements), Once(list), NEW f, NEW o, \A x : Listed(list, f, x) => x = o
  PROVE  /\ Once(RemoveFaceid(list, f, o))
         /\ \A g, x : Listed(RemoveFaceid(list, f, o), g, x) <=> Listed(list, g, x) /\ g # f
         /\ \A g : Names(RemoveFaceid(list, f, o), g) <=> Names(list, g) /\ g # f
<1>0. DOMAIN list = 1 .. Len(list) /\ Len(list) \in Nat OBVIOUS
<1>1. CASE At(list, f) = {}
  <2>1. ~Names(list, f) /\ (\A x : ~Listed(list, f, x)) BY <1>1 DEF At, Names, Listed
  <2>2. QED BY <1>1, <2>1 DEF RemoveFaceid
<1>2. CASE At(list, f) # {}
  <2> DEFINE i == Min(At(list, f))
  <2>1. i \in DOMAIN list BY <1>2, AtMin
  <2>2. i \in At(list, f)
    <3>1. At(list, f) \subseteq Nat BY <1>0 DEF At
    <3>2. QED BY <1>2, <3>1, MinBelongs
  <2>3. RemoveFaceid(list, f, o) =
          IF "static" \in list[i].owners \ {o}
          THEN [list EXCEPT ![i].owners = @ \ {o}]
          ELSE RemoveAt(list, i)
    BY <1>2 DEF RemoveFaceid
  <2> HIDE DEF i
  <2>4. list[i].face = f BY <2>2 DEF At
  <2>5. "static" \notin list[i].owners \ {o} BY <2>1, <2>4 DEF Listed
  <2>6. RemoveFaceid(list, f, o) = RemoveAt(list, i) BY <2>3, <2>5
  <2>7. QED BY <2>1, <2>4, <2>6, RemoveAtLists
<1>3. QED BY <1>1, <1>2

\* The clean-up takes out nothing that is the face of a peer.
LEMMA CleanedLists ==
  ASSUME NEW b, Fibs(b), NEW s, NEW p \in Uris, Once(b[p])
  PROVE  /\ Once(Cleaned(b, s)[p])
         /\ \A k \in DOMAIN s \cap Peers : \A x : Listed(Cleaned(b, s)[p], s[k].face, x) <=> Listed(b[p], s[k].face, x)
         /\ \A g : Names(Cleaned(b, s)[p], g) => Names(b[p], g)
<1> DEFINE closed == {i \in DOMAIN b[p] : \A k \in DOMAIN s \cap Peers : s[k].face # b[p][i].face}
<1>1. Cleaned(b, s)[p] = IF closed = {} THEN b[p] ELSE RemoveAt(b[p], Min(closed)) BY DEF Cleaned
<1>2. b[p] \in Seq(Elements) BY DEF Fibs
<1>3. CASE closed = {} BY <1>1, <1>3
<1>4. CASE closed # {}
  <2>1. closed \subseteq Nat BY <1>2
  <2>2. Min(closed) \in closed BY <1>4, <2>1, MinBelongs
  <2>3. PICK i \in DOMAIN b[p] : i = Min(closed) /\ \A k \in DOMAIN s \cap Peers : s[k].face # b[p][i].face
    BY <2>2
  <2>4. Cleaned(b, s)[p] = RemoveAt(b[p], i) BY <1>1, <1>4, <2>3
  <2> HIDE DEF closed
  <2>5. QED BY <1>2, <2>3, <2>4, RemoveAtLists
<1>5. QED BY <1>3, <1>4

-----------------------------------------------------------------------------
(* Routes implements RouteTable: the routes that show.                     *)

\* In the socket table s, peer h has an entry and its Face-ID for itself.
NamedIn(s, h) == h \in DOMAIN s /\ \A k \in DOMAIN s : s[k].face = s[h].face => k = h
\* The routes that show with the socket table s and the FIB b
RoutesIn(s, b) ==
  {r \in Uris \X Peers \X Owners : NamedIn(s, r[2]) /\ Listed(b[r[1]], s[r[2]].face, r[3])}
\* The routes of R but those to host l
Bereft(R, l) == {r \in R : r[2] # l}

\* The lists of b name no face twice.
Lists(b) == Fibs(b) /\ \A p \in Uris : Once(b[p])

\* From s to t, the peers of H keep their faces, and nobody else gets these.
Keeps(s, t, H) ==
  \A h \in H : (NamedIn(t, h) <=> NamedIn(s, h)) /\ (NamedIn(t, h) => t[h].face = s[h].face)

\* A Face-ID that the FIB names is that of a peer.
NoStale == \A f \in InFib : \E h \in DOMAIN sock \cap Peers : FaceOf(h) = f

LEMMA BarsAre == routesBar = RoutesIn(sock, fib) /\ routesBar' = RoutesIn(sock', fib')
BY DEF routesBar, RoutesIn, Named, NamedIn, FaceOf, At, Listed

LEMMA KeptRoutes ==
  ASSUME NEW s, NEW t, NEW b, Keeps(s, t, Peers)
  PROVE  RoutesIn(t, b) = RoutesIn(s, b)
BY DEF Keeps, RoutesIn

LEMMA LostRoutes ==
  ASSUME NEW s, NEW t, NEW b, NEW l, Keeps(s, t, Peers \ {l}), ~NamedIn(t, l)
  PROVE  RoutesIn(t, b) = Bereft(RoutesIn(s, b), l)
BY DEF Keeps, RoutesIn, Bereft

LEMMA CleanedRoutes ==
  ASSUME NEW b, Lists(b), NEW s
  PROVE  RoutesIn(s, Cleaned(b, s)) = RoutesIn(s, b) /\ Lists(Cleaned(b, s))
<1>1. ASSUME NEW p \in Uris, NEW h \in Peers, NEW o
      PROVE  NamedIn(s, h) /\ Listed(Cleaned(b, s)[p], s[h].face, o) <=> NamedIn(s, h) /\ Listed(b[p], s[h].face, o)
  BY CleanedLists DEF NamedIn, Lists
<1>2. RoutesIn(s, Cleaned(b, s)) = RoutesIn(s, b) BY <1>1 DEF RoutesIn
<1>3. QED BY <1>2, CleanedLists, CleanedFibs DEF Lists

LEMMA AfterMessageRoutes ==
  ASSUME NEW b, Lists(b)
  PROVE  RoutesIn(sock', AfterMessage(b)) = RoutesIn(sock', b) /\ Lists(AfterMessage(b))
BY CleanedRoutes DEF AfterMessage

\* A face set in the list of name p shows as a route if a peer has that face for itself.
SetShows(s, b, c, p, f, o) ==
  /\ \A k \in Peers : NamedIn(s, k) /\ s[k].face = f => RoutesIn(s, c) = RoutesIn(s, b) \cup {<<p, k, o>>}
  /\ (\A k \in Peers : NamedIn(s, k) => s[k].face # f) => RoutesIn(s, c) = RoutesIn(s, b)

LEMMA SetRoutes ==
  ASSUME NEW s, NEW b, Lists(b), NEW p \in Uris, NEW f \in FaceIds, NEW o \in Owners,
         NEW c, c = [b EXCEPT ![p] = SetFaceid(@, f, o)]
  PROVE  Lists(c) /\ SetShows(s, b, c, p, f, o)
<1>1. b[p] \in Seq(Elements) /\ Once(b[p]) /\ b \in [Uris -> Seq(Elements)] BY DEF Lists, Fibs
<1>2. c[p] = SetFaceid(b[p], f, o) /\ (\A q \in Uris \ {p} : c[q] = b[q]) BY <1>1
<1>3. c[p] \in Seq(Elements) BY <1>1, <1>2, SetFaceidList
<1>4. Once(c[p]) /\ (\A g, x : Listed(c[p], g, x) <=> Listed(b[p], g, x) \/ (g = f /\ x = o))
  BY <1>1, <1>2, SetFaceidLists
<1>5. c \in [Uris -> Seq(Elements)] BY <1>1, <1>2, <1>3
<1>6. Lists(c) BY <1>2, <1>4, <1>5 DEF Lists, Fibs
<1>7. \A q \in Uris : \A g, x : Listed(c[q], g, x) <=> Listed(b[q], g, x) \/ (q = p /\ g = f /\ x = o)
  BY <1>2, <1>4
<1>8. ASSUME NEW k \in Peers, NamedIn(s, k), s[k].face = f
      PROVE  RoutesIn(s, c) = RoutesIn(s, b) \cup {<<p, k, o>>}
  <2>1. \A h \in Peers : NamedIn(s, h) => (s[h].face = f <=> h = k) BY <1>8 DEF NamedIn
  <2>2. \A r \in Uris \X Peers \X Owners : r = <<p, k, o>> <=> r[1] = p /\ r[2] = k /\ r[3] = o OBVIOUS
  <2>3. \A r \in Uris \X Peers \X Owners : r \in RoutesIn(s, c) <=> r \in RoutesIn(s, b) \/ r = <<p, k, o>>
    BY <1>7, <1>8, <2>1, <2>2 DEF RoutesIn
  <2>4. QED BY <2>3 DEF RoutesIn
<1>9. ASSUME \A k \in Peers : NamedIn(s, k) => s[k].face # f
      PROVE  RoutesIn(s, c) = RoutesIn(s, b)
  BY <1>7, <1>9 DEF RoutesIn
<1>10. QED BY <1>6, <1>8, <1>9 DEF SetShows

\* Face f has no owner in the list but o.
Sole(list, f, o) == \A x : Listed(list, f, x) => x = o
RemoveShows(s, b, c, p, k, o) == RoutesIn(s, c) = RoutesIn(s, b) \ {<<p, k, o>>}

\* The list of name p loses the face of peer k, which has no owner there but o.
LEMMA RemoveRoutes ==
  ASSUME NEW s, NEW b, Lists(b), NEW p \in Uris, NEW k \in Peers, NamedIn(s, k),
         NEW f, f = s[k].face, NEW o, Sole(b[p], f, o),
         NEW c, c = [b EXCEPT ![p] = RemoveFaceid(@, f, o)]
  PROVE  Lists(c) /\ RemoveShows(s, b, c, p, k, o)
<1>1. b[p] \in Seq(Elements) /\ Once(b[p]) /\ b \in [Uris -> Seq(Elements)] BY DEF Lists, Fibs
<1>2. c[p] = RemoveFaceid(b[p], f, o) /\ (\A q \in Uris \ {p} : c[q] = b[q]) BY <1>1
<1>3. c[p] \in Seq(Elements) BY <1>1, <1>2, RemoveFaceidList
<1>4. \A x : Listed(b[p], f, x) => x = o BY DEF Sole
<1>5. Once(c[p]) /\ (\A g, x : Listed(c[p], g, x) <=> Listed(b[p], g, x) /\ g # f)
  BY <1>1, <1>2, <1>4, RemoveFaceidLists
<1>6. c \in [Uris -> Seq(Elements)] BY <1>1, <1>2, <1>3
<1>7. Lists(c) BY <1>2, <1>5, <1>6 DEF Lists, Fibs
<1>8. \A q \in Uris : \A g, x : Listed(c[q], g, x) <=> Listed(b[q], g, x) /\ ~(q = p /\ g = f)
  BY <1>2, <1>5
<1>9. \A h \in Peers : NamedIn(s, h) => (s[h].face = f <=> h = k) BY DEF NamedIn
<1>10. \A r \in Uris \X Peers \X Owners : r = <<p, k, o>> <=> r[1] = p /\ r[2] = k /\ r[3] = o OBVIOUS
<1>11. \A r \in Uris \X Peers \X Owners : r \in RoutesIn(s, c) <=> r \in RoutesIn(s, b) /\ r # <<p, k, o>>
  <2>1. SUFFICES ASSUME NEW r \in Uris \X Peers \X Owners
                 PROVE  r \in RoutesIn(s, c) <=> r \in RoutesIn(s, b) /\ r # <<p, k, o>>
    OBVIOUS
  <2>2. /\ r \in RoutesIn(s, c) <=> NamedIn(s, r[2]) /\ Listed(c[r[1]], s[r[2]].face, r[3])
        /\ r \in RoutesIn(s, b) <=> NamedIn(s, r[2]) /\ Listed(b[r[1]], s[r[2]].face, r[3])
    BY DEF RoutesIn
  <2>3. r[1] \in Uris /\ r[2] \in Peers OBVIOUS
  <2>4. Listed(c[r[1]], s[r[2]].face, r[3]) <=> Listed(b[r[1]], s[r[2]].face, r[3]) /\ ~(r[1] = p /\ s[r[2]].face = f)
    BY <1>8, <2>3
  <2>5. NamedIn(s, r[2]) => (s[r[2]].face = f <=> r[2] = k) BY <1>9, <2>3
  <2>6. r = <<p, k, o>> <=> r[1] = p /\ r[2] = k /\ r[3] = o BY <1>10
  <2>7. Listed(b[p], f, r[3]) => r[3] = o BY <1>4
  <2>8. QED BY <2>2, <2>4, <2>5, <2>6, <2>7
<1>12. RoutesIn(s, c) = RoutesIn(s, b) \ {<<p, k, o>>} BY <1>11 DEF RoutesIn
<1>13. QED BY <1>7, <1>12 DEF RemoveShows

-----------------------------------------------------------------------------
(* Routes implements RouteTable: how faces come and go.                    *)

LEMMA OneNames == OneNameEach => \A h \in DOMAIN sock : NamedIn(sock, h)
BY DEF OneNameEach, NamedIn, FaceOf

\* A Face-ID that was nobody's, and that the FIB does not name
FreshFace(k, f) ==
  /\ k \notin DOMAIN sock /\ NamedIn(sock', k) /\ sock'[k].face = f
  /\ Keeps(sock, sock', Peers \ {k}) /\ \A p \in Uris : ~Names(fib[p], f)
\* A Face-ID that a TCP connection has lost
TakenFace(f) ==
  /\ \A h \in Peers : NamedIn(sock', h) => sock'[h].face # f
  /\ \E l \in TcpPeers : Keeps(sock, sock', Peers \ {l}) /\ ~NamedIn(sock', l)

\* A new entry takes a Face-ID from nobody, unless from a TCP connection that is down.
LEMMA GivenNames ==
  ASSUME Socks(sock), OneNameEach, Fibs(fib), NoStale, NEW k \in Peers \cup Apps, NEW f, Given(k, f)
  PROVE  \/ f = NoFace /\ sock' = sock
         \/ f \in FaceIds /\ FreshFace(k, f)
         \/ f \in FaceIds /\ TakenFace(f)
<1>1. CASE f = NoFace /\ UNCHANGED sock BY <1>1
<1>2. CASE Unused # {} /\ f = NextFace /\ sock' = With(k, f)
  <2>1. f \in Unused BY <1>2, NextFaceUnused
  <2>2. f \in FaceIds /\ \A l \in DOMAIN sock : sock[l].face = f => ~sock[l].open
    BY <2>1 DEF Unused, Open, FaceOf
  <2>3. k \notin DOMAIN sock BY DEF Given
  <2>4. /\ DOMAIN sock' = DOMAIN sock \cup {k} /\ sock'[k].face = f
        /\ \A l \in DOMAIN sock : sock'[l] = sock[l]
    BY <1>2, <2>3 DEF With
  <2>5. \A l, m \in DOMAIN sock : sock[l].face = sock[m].face => l = m BY DEF OneNameEach, FaceOf
  <2>6. CASE \A l \in DOMAIN sock : sock[l].face # f
    <3>1. NamedIn(sock', k) BY <2>4, <2>6 DEF NamedIn
    <3>2. Keeps(sock, sock', Peers \ {k}) BY <2>4, <2>5, <2>6 DEF Keeps, NamedIn
    <3>3. f \notin InFib BY <2>6 DEF NoStale, FaceOf
    <3>4. \A p \in Uris : ~Names(fib[p], f) BY <2>2, <3>3 DEF InFib, Refers, At, Names
    <3>5. QED BY <2>2, <2>3, <2>4, <3>1, <3>2, <3>4 DEF FreshFace
  <2>7. ASSUME NEW l \in DOMAIN sock, sock[l].face = f PROVE TakenFace(f)
    <3>1. l \in TcpPeers BY <2>2, <2>7 DEF Socks
    <3>2. ~NamedIn(sock', l) /\ ~NamedIn(sock', k) BY <2>3, <2>4, <2>7 DEF NamedIn
    <3>3. ~NamedIn(sock, k) BY <2>3 DEF NamedIn
    <3>4. \A h \in DOMAIN sock \ {l} : sock[h].face # f BY <2>5, <2>7
    <3>5. Keeps(sock, sock', Peers \ {l}) BY <2>4, <2>5, <3>2, <3>3, <3>4 DEF Keeps, NamedIn
    <3>6. \A h \in Peers : NamedIn(sock', h) => sock'[h].face # f BY <2>3, <2>4, <2>7 DEF NamedIn
    <3>7. QED BY <3>1, <3>2, <3>5, <3>6 DEF TakenFace
  <2>8. QED BY <2>2, <2>6, <2>7
<1>3. QED BY <1>1, <1>2 DEF Given

LEMMA AgainNames ==
  ASSUME OneNameEach, NEW k, NEW f, Again(k, f)
  PROVE  k \in DOMAIN sock /\ sock[k].face = f /\ NamedIn(sock', k) /\ sock'[k].face = f /\ Keeps(sock, sock', Peers)
<1>1. k \in DOMAIN sock /\ f = sock[k].face /\ sock' = With(k, f) BY DEF Again, FaceOf
<1>2. DOMAIN sock' = DOMAIN sock /\ \A l \in DOMAIN sock : sock'[l].face = sock[l].face BY <1>1 DEF With
<1>3. NamedIn(sock, k) BY <1>1, OneNames
<1>4. QED BY <1>1, <1>2, <1>3 DEF Keeps, NamedIn

\* The entry of k, and of k only, is closed.
LEMMA ClosedNames ==
  ASSUME OneNameEach, NEW k \in DOMAIN sock, sock' = Closed(sock, FaceOf(k))
  PROVE  DOMAIN sock' = DOMAIN sock \ {k} /\ Keeps(sock, sock', Peers \ {k}) /\ ~NamedIn(sock', k)
<1>1. DOMAIN sock' = {l \in DOMAIN sock : sock[l].face # sock[k].face} /\ \A l \in DOMAIN sock' : sock'[l] = sock[l]
  BY DEF Closed, Restrict, FaceOf
<1>2. \A l, m \in DOMAIN sock : sock[l].face = sock[m].face => l = m BY DEF OneNameEach, FaceOf
<1>3. DOMAIN sock' = DOMAIN sock \ {k} BY <1>1, <1>2
<1>4. QED BY <1>1, <1>2, <1>3 DEF Keeps, NamedIn

\* What a new entry for a peer does to the routes that show
LEMMA FreshRoutes ==
  ASSUME NEW k, NEW f, FreshFace(k, f), Fibs(fib)
  PROVE  RoutesIn(sock', fib) = RoutesIn(sock, fib)
<1>1. \A r \in Uris \X Peers \X Owners :
        r[2] # k => (r \in RoutesIn(sock', fib) <=> r \in RoutesIn(sock, fib))
  BY DEF FreshFace, Keeps, RoutesIn
<1>2. \A r \in Uris \X Peers \X Owners : r[2] = k => r \notin RoutesIn(sock', fib) /\ r \notin RoutesIn(sock, fib)
  BY DEF FreshFace, RoutesIn, Names, Listed, NamedIn
<1>3. QED BY <1>1, <1>2 DEF RoutesIn

\* Looking up the face of peer k, which may be lost.
LEMMA LookupRoutes ==
  ASSUME Socks(sock), OneNameEach, Fibs(fib), NoStale, NEW k \in Peers, NEW f, LookupFaceid(k, f)
  PROVE  \/ /\ f \in FaceIds /\ NamedIn(sock', k) /\ sock'[k].face = f
            /\ RoutesIn(sock', fib) = RoutesIn(sock, fib)
         \/ /\ f \in FaceIds /\ \A h \in Peers : NamedIn(sock', h) => sock'[h].face # f
            /\ \E l \in TcpPeers : RoutesIn(sock', fib) = Bereft(RoutesIn(sock, fib), l)
         \/ f = NoFace /\ \E l \in TcpPeers : RoutesIn(sock', fib) = Bereft(RoutesIn(sock, fib), l)
         \/ f = NoFace /\ RoutesIn(sock', fib) = RoutesIn(sock, fib)
<1>1. CASE k \in Open /\ f = FaceOf(k) /\ UNCHANGED <<sock, next>>
  <2>1. k \in DOMAIN sock /\ sock'[k].face = f /\ f \in FaceIds BY <1>1 DEF Open, FaceOf, Socks
  <2>2. NamedIn(sock', k) BY <1>1, <2>1, OneNames
  <2>3. QED BY <1>1, <2>1, <2>2
<1>2. CASE Again(k, f)
  <2>1. f \in FaceIds BY <1>2, AgainNames DEF Socks
  <2>2. QED BY <1>2, <2>1, AgainNames, KeptRoutes
<1>3. CASE Given(k, f)
  <2>1. CASE f = NoFace /\ sock' = sock BY <2>1
  <2>2. CASE f \in FaceIds /\ FreshFace(k, f)
    <3>1. RoutesIn(sock', fib) = RoutesIn(sock, fib) BY <2>2, FreshRoutes
    <3>2. QED BY <2>2, <3>1 DEF FreshFace
  <2>3. CASE f \in FaceIds /\ TakenFace(f)
    <3>1. PICK l \in TcpPeers : Keeps(sock, sock', Peers \ {l}) /\ ~NamedIn(sock', l) BY <2>3 DEF TakenFace
    <3>2. RoutesIn(sock', fib) = Bereft(RoutesIn(sock, fib), l) BY <3>1, LostRoutes
    <3>3. QED BY <2>3, <3>1, <3>2 DEF TakenFace
  <2>4. QED BY <1>3, <2>1, <2>2, <2>3, GivenNames
<1>4. CASE Refused(k, f)
  <2>1. k \in TcpPeers /\ f = NoFace BY <1>4 DEF Refused
  <2>2. CASE UNCHANGED sock BY <2>1, <2>2
  <2>3. CASE k \in DOMAIN sock /\ sock' = Closed(sock, FaceOf(k))
    <3>1. Keeps(sock, sock', Peers \ {k}) /\ ~NamedIn(sock', k) BY <2>3, ClosedNames
    <3>2. RoutesIn(sock', fib) = Bereft(RoutesIn(sock, fib), k) BY <3>1, LostRoutes
    <3>3. QED BY <2>1, <3>2
  <2>4. QED BY <1>4, <2>2, <2>3 DEF Refused
<1>5. QED BY <1>1, <1>2, <1>3, <1>4 DEF LookupFaceid

-----------------------------------------------------------------------------
(* Routes implements RouteTable: the steps.                                *)

\* A host is next hop for the routes of one owner, own[h].
OwnHosts(own) ==
  /\ own \in [Peers -> Owners]
  /\ \A m \in Messages : \A i \in DOMAIN m.hosts : m.owner = own[m.hosts[i]]
  /\ \A i \in DOMAIN Config : Config[i].owner = own[Config[i].host]

\* The second invariant: no list names a face twice, and owners keep to their hosts.
RInv(own) ==
  /\ IInv /\ Lists(fib)
  /\ \A i \in DOMAIN todo : todo[i].owner = own[todo[i].host]
  /\ \A r \in RoutesIn(sock, fib) : r[3] = own[r[2]]

\* What a step does to the routes that show
Shows(own) ==
  \/ RoutesIn(sock', fib') = RoutesIn(sock, fib)
  \/ \E p \in Uris, h \in Peers : RoutesIn(sock', fib') = RoutesIn(sock, fib) \cup {<<p, h, own[h]>>}
  \/ \E p \in Uris, h \in Peers, o \in Owners : RoutesIn(sock', fib') = RoutesIn(sock, fib) \ {<<p, h, o>>}
  \/ \E l \in TcpPeers : RoutesIn(sock', fib') = Bereft(RoutesIn(sock, fib), l)
  \/ RoutesIn(sock', fib') = {}

LEMMA ShownSteps ==
  ASSUME NEW own, OwnHosts(own), Shows(own)
  PROVE  [Table!TableNext]_routesBar
<1> DEFINE R == RoutesIn(sock, fib)  Q == RoutesIn(sock', fib')
<1>1. routesBar = R /\ routesBar' = Q BY BarsAre
<1> HIDE DEF R, Q
<1>2. CASE Q = R BY <1>1, <1>2
<1>3. ASSUME NEW p \in Uris, NEW h \in Peers, Q = R \cup {<<p, h, own[h]>>} PROVE Table!TableNext
  <2>1. own[h] \in Owners BY DEF OwnHosts
  <2>2. Table!AddRoute(p, h, own[h]) BY <1>1, <1>3 DEF Table!AddRoute
  <2>3. QED BY <2>1, <2>2 DEF Table!TableNext
<1>4. ASSUME NEW p \in Uris, NEW h \in Peers, NEW o \in Owners, Q = R \ {<<p, h, o>>} PROVE Table!TableNext
  <2>1. Table!DeleteRoute(p, h, o) BY <1>1, <1>4 DEF Table!DeleteRoute
  <2>2. QED BY <2>1 DEF Table!TableNext
<1>5. ASSUME NEW l \in TcpPeers, Q = Bereft(R, l) PROVE Table!TableNext
  <2>1. Table!LoseHost(l) BY <1>1, <1>5 DEF Table!LoseHost, Bereft
  <2>2. QED BY <2>1 DEF Table!TableNext
<1>6. CASE Q = {} BY <1>1, <1>6 DEF Table!TableNext
<1>7. QED BY <1>2, <1>3, <1>4, <1>5, <1>6 DEF Shows, R, Q

LEMMA ShownOwners ==
  ASSUME NEW own, RInv(own), Shows(own)
  PROVE  \A r \in RoutesIn(sock', fib') : r[3] = own[r[2]]
<1> DEFINE R == RoutesIn(sock, fib)  Q == RoutesIn(sock', fib')
<1>1. \A r \in R : r[3] = own[r[2]] BY DEF RInv
<1> HIDE DEF R, Q
<1>2. ASSUME NEW p \in Uris, NEW h \in Peers, Q = R \cup {<<p, h, own[h]>>} PROVE \A r \in Q : r[3] = own[r[2]]
  BY <1>1, <1>2
<1>3. ASSUME Q \subseteq R PROVE \A r \in Q : r[3] = own[r[2]] BY <1>1, <1>3
<1>4. \A l : Bereft(R, l) \subseteq R BY DEF Bereft
<1>5. QED BY <1>2, <1>3, <1>4 DEF Shows, R, Q

\* What one host of a message does, with all its face brings about
LEMMA AddShows ==
  ASSUME NEW own, OwnHosts(own), RInv(own), NoStale, OneNameEach,
         NEW p \in Uris, NEW k \in Peers, RouteAdd(p, k, own[k])
  PROVE  Shows(own) /\ Lists(fib')
<1>1. Socks(sock) /\ Fibs(fib) /\ Lists(fib) BY IInvParts DEF RInv
<1>2. own[k] \in Owners BY DEF OwnHosts
<1>3. PICK f \in FaceIds \cup {NoFace} :
        /\ LookupFaceid(k, f)
        /\ fib' = AfterMessage(IF f = NoFace \/ (fib[p] = <<>> /\ FibFull) THEN fib
                               ELSE [fib EXCEPT ![p] = SetFaceid(@, f, own[k])])
  BY DEF RouteAdd
<1> DEFINE Q == RoutesIn(sock', fib)
<1>4. \/ f \in FaceIds /\ NamedIn(sock', k) /\ sock'[k].face = f /\ Q = RoutesIn(sock, fib)
      \/ /\ f \in FaceIds /\ \A h \in Peers : NamedIn(sock', h) => sock'[h].face # f
         /\ \E l \in TcpPeers : Q = Bereft(RoutesIn(sock, fib), l)
      \/ f = NoFace /\ \E l \in TcpPeers : Q = Bereft(RoutesIn(sock, fib), l)
      \/ f = NoFace /\ Q = RoutesIn(sock, fib)
  BY <1>1, <1>3, LookupRoutes
<1>5. CASE fib' = AfterMessage(fib)
  <2>1. RoutesIn(sock', fib') = Q /\ Lists(fib') BY <1>1, <1>5, AfterMessageRoutes
  <2>2. Shows(own) BY <1>4, <2>1 DEF Shows
  <2>3. QED BY <2>1, <2>2
<1>6. CASE f # NoFace /\ fib' = AfterMessage([fib EXCEPT ![p] = SetFaceid(@, f, own[k])])
  <2> DEFINE c == [fib EXCEPT ![p] = SetFaceid(@, f, own[k])]
  <2>1. f \in FaceIds BY <1>6
  <2>2. /\ Lists(c)
        /\ NamedIn(sock', k) /\ sock'[k].face = f => RoutesIn(sock', c) = Q \cup {<<p, k, own[k]>>}
        /\ (\A h \in Peers : NamedIn(sock', h) => sock'[h].face # f) => RoutesIn(sock', c) = Q
    <3> HIDE DEF c, Q
    <3>1. c = [fib EXCEPT ![p] = SetFaceid(@, f, own[k])] /\ Q = RoutesIn(sock', fib) BY DEF c, Q
    <3>2. Lists(c) /\ SetShows(sock', fib, c, p, f, own[k]) BY <1>1, <1>2, <2>1, <3>1, SetRoutes
    <3>3. QED BY <3>1, <3>2 DEF SetShows
  <2>3. fib' = AfterMessage(c) BY <1>6
  <2> HIDE DEF c
  <2>4. RoutesIn(sock', fib') = RoutesIn(sock', c) /\ Lists(fib') BY <2>2, <2>3, AfterMessageRoutes
  <2>5. NoFace \notin FaceIds BY RoutesAssumption DEF NoFace, FaceIds
  <2> HIDE DEF Q
  <2>6. CASE NamedIn(sock', k) /\ sock'[k].face = f /\ Q = RoutesIn(sock, fib)
    BY <2>2, <2>4, <2>6 DEF Shows
  <2>7. CASE /\ \A h \in Peers : NamedIn(sock', h) => sock'[h].face # f
             /\ \E l \in TcpPeers : Q = Bereft(RoutesIn(sock, fib), l)
    BY <2>2, <2>4, <2>7 DEF Shows
  <2>8. QED BY <1>4, <2>1, <2>4, <2>5, <2>6, <2>7
<1>7. QED BY <1>3, <1>5, <1>6

\* A peer's face has no owner but the peer's.
LEMMA RouteOwners ==
  ASSUME NEW own, RInv(own), NEW k \in Peers, NamedIn(sock, k)
  PROVE  \A q \in Uris : \A x : Listed(fib[q], sock[k].face, x) => x = own[k]
<1> DEFINE R == RoutesIn(sock, fib)
<1>1. SUFFICES ASSUME NEW q \in Uris, NEW x, Listed(fib[q], sock[k].face, x) PROVE x = own[k] OBVIOUS
<1>2. x \in Owners
  <2>1. PICK i \in DOMAIN fib[q] : x \in fib[q][i].owners BY <1>1 DEF Listed
  <2>2. fib[q] \in Seq(Elements) BY DEF RInv, Lists, Fibs
  <2>3. fib[q][i] \in Elements BY <2>1, <2>2
  <2>4. QED BY <2>1, <2>3 DEF Elements
<1>3. <<q, k, x>> \in R BY <1>1, <1>2 DEF RoutesIn
<1>4. <<q, k, x>>[3] = x /\ <<q, k, x>>[2] = k OBVIOUS
<1>5. \A r \in R : r[3] = own[r[2]] BY DEF RInv
<1> HIDE DEF R
<1>6. QED BY <1>3, <1>4, <1>5

LEMMA DelShows ==
  ASSUME NEW own, OwnHosts(own), RInv(own), OneNameEach,
         NEW p \in Uris, NEW k \in Peers, RouteDel(p, k, own[k])
  PROVE  Shows(own) /\ Lists(fib')
<1> DEFINE c == [fib EXCEPT ![p] = RemoveFaceid(@, FaceOf(k), own[k])]
           R == RoutesIn(sock, fib)
<1>1. Socks(sock) /\ Fibs(fib) /\ Lists(fib) BY IInvParts DEF RInv
<1>2. k \in DOMAIN sock /\ NamedIn(sock, k) BY OneNames DEF RouteDel
<1>3. own[k] \in Owners BY DEF OwnHosts
<1>4. \A q \in Uris : \A x : Listed(fib[q], sock[k].face, x) => x = own[k] BY <1>2, RouteOwners
<1>5. Lists(c) /\ RoutesIn(sock, c) = R \ {<<p, k, own[k]>>}
  <2>1. c = [fib EXCEPT ![p] = RemoveFaceid(@, FaceOf(k), own[k])] /\ FaceOf(k) = sock[k].face BY DEF FaceOf
  <2> HIDE DEF c
  <2>2. PICK f : f = sock[k].face OBVIOUS
  <2>3. PICK o : o = own[k] OBVIOUS
  <2>4. c = [fib EXCEPT ![p] = RemoveFaceid(@, f, o)] BY <2>1, <2>2, <2>3
  <2>5. Sole(fib[p], f, o) BY <1>4, <2>2, <2>3 DEF Sole
  <2>6. Lists(fib) /\ NamedIn(sock, k) BY <1>1, <1>2
  <2>7. Lists(c) /\ RemoveShows(sock, fib, c, p, k, o) BY <2>2, <2>4, <2>5, <2>6, RemoveRoutes
  <2>8. QED BY <2>3, <2>7 DEF RemoveShows
<1>6. fib' = AfterMessage(c) BY DEF RouteDel
<1> HIDE DEF c
<1>7. RoutesIn(sock', fib') = RoutesIn(sock', c) /\ Lists(fib') BY <1>5, <1>6, AfterMessageRoutes
<1>8. RoutesIn(sock', c) = R \ {<<p, k, own[k]>>}
  <2>1. CASE sock' = sock BY <1>5, <2>1
  <2>2. CASE sock' = Closed(sock, FaceOf(k)) /\ \A q \in Uris \ {p} : ~Refers(q, FaceOf(k))
    <3>1. Keeps(sock, sock', Peers \ {k}) /\ ~NamedIn(sock', k) BY <1>2, <2>2, ClosedNames
    <3>2. RoutesIn(sock', c) = Bereft(R \ {<<p, k, own[k]>>}, k) BY <1>5, <3>1, LostRoutes
    <3>3. \A r \in R : r[2] = k => r = <<p, k, own[k]>>
      <4>1. SUFFICES ASSUME NEW r \in R, r[2] = k PROVE r = <<p, k, own[k]>> OBVIOUS
      <4>2. r \in Uris \X Peers \X Owners /\ Listed(fib[r[1]], sock[k].face, r[3]) BY <4>1 DEF RoutesIn
      <4>3. r[3] = own[k] BY <1>4, <4>2
      <4>4. r[1] = p BY <2>2, <4>2 DEF Listed, Refers, At, FaceOf
      <4>5. QED BY <4>1, <4>2, <4>3, <4>4
    <3>4. <<p, k, own[k]>>[2] = k OBVIOUS
    <3> HIDE DEF R
    <3>5. QED BY <3>2, <3>3, <3>4 DEF Bereft
  <2>3. QED BY <2>1, <2>2 DEF RouteDel
<1>9. QED BY <1>3, <1>7, <1>8 DEF Shows

LEMMA OperationShows ==
  ASSUME NEW own, OwnHosts(own), RInv(own), NoStale, OneNameEach, todo # <<>>, RouteOperation
  PROVE  RInv(own)' /\ Shows(own)
<1> DEFINE r == Head(todo)
<1>1. IInv /\ todo \in Seq(Operations) /\ Socks(sock) /\ Fibs(fib) /\ Lists(fib) BY IInvParts DEF RInv
<1>2. r \in Operations /\ r = todo[1] /\ 1 \in DOMAIN todo BY <1>1
<1>3. r.uri \in Uris /\ r.host \in Peers /\ r.owner = own[r.host] BY <1>2 DEF Operations, RInv
<1>4. \A i \in DOMAIN todo' : todo'[i].owner = own[todo'[i].host]
  <2>1. todo' = Tail(todo) BY DEF RouteOperation
  <2>2. \A i \in DOMAIN Tail(todo) : i + 1 \in DOMAIN todo /\ Tail(todo)[i] = todo[i + 1] BY <1>1
  <2>3. QED BY <2>1, <2>2 DEF RInv
<1> HIDE DEF r
<1>5. Shows(own) /\ Lists(fib')
  <2>1. CASE RouteAdd(r.uri, r.host, r.owner) BY <1>3, <2>1, AddShows
  <2>2. CASE RouteDel(r.uri, r.host, r.owner) BY <1>3, <2>2, DelShows
  <2>3. CASE NothingToDel(r.uri, r.host)
    <3>1. sock' = sock /\ fib' = AfterMessage(fib) BY <2>3 DEF NothingToDel
    <3>2. RoutesIn(sock', fib') = RoutesIn(sock', fib) /\ Lists(fib') BY <1>1, <3>1, AfterMessageRoutes
    <3>3. QED BY <3>1, <3>2 DEF Shows
  <2>4. QED BY <2>1, <2>2, <2>3 DEF RouteOperation, r
<1>6. IInv' BY <1>1, OperationIInv
<1>7. QED BY <1>4, <1>5, <1>6, ShownOwners DEF RInv

LEMMA EventShows ==
  ASSUME NEW own, OwnHosts(own), RInv(own), NoStale, OneNameEach, todo = <<>>, Event
  PROVE  RInv(own)' /\ Shows(own)
<1>1. IInv /\ Socks(sock) /\ Fibs(fib) /\ Lists(fib) BY IInvParts DEF RInv
<1>2. IInv' BY <1>1, EventIInv
<1>3. \A i \in DOMAIN todo' : todo'[i].owner = own[todo'[i].host]
  <2>1. CASE todo' = todo BY <2>1 DEF RInv
  <2>2. ASSUME NEW m \in Messages, RouteMessage(m) PROVE \A i \in DOMAIN todo' : todo'[i].owner = own[todo'[i].host]
    BY <2>2 DEF RouteMessage, OwnHosts
  <2>3. QED BY <2>1, <2>2
     DEF Event, Arrival, Accept, TcpDown, TcpError, AppConnect, AppClose, FacesCleanup
<1>4. Shows(own) /\ Lists(fib')
  <2>1. CASE sock' = sock /\ fib' = fib BY <1>1, <2>1 DEF Shows
  <2>2. ASSUME NEW l, Keeps(sock, sock', Peers \ {l}), ~NamedIn(sock', l), l \in TcpPeers, fib' = fib
        PROVE  Shows(own) /\ Lists(fib')
    BY <1>1, <2>2, LostRoutes DEF Shows
  <2>3. CASE Keeps(sock, sock', Peers) /\ fib' = fib BY <1>1, <2>3, KeptRoutes DEF Shows
  <2>4. ASSUME NEW k \in Peers \cup Apps, NEW f, Given(k, f), fib' = fib PROVE Shows(own) /\ Lists(fib')
    <3>1. CASE FreshFace(k, f)
      <4>1. RoutesIn(sock', fib) = RoutesIn(sock, fib) BY <1>1, <3>1, FreshRoutes
      <4>2. QED BY <1>1, <2>4, <4>1 DEF Shows
    <3>2. CASE TakenFace(f)
      <4>1. PICK l \in TcpPeers : Keeps(sock, sock', Peers \ {l}) /\ ~NamedIn(sock', l) BY <3>2 DEF TakenFace
      <4>2. QED BY <2>2, <2>4, <4>1
    <3>3. QED BY <1>1, <2>1, <2>4, <3>1, <3>2, GivenNames
  <2>5. ASSUME NEW m \in Messages, RouteMessage(m) PROVE Shows(own) /\ Lists(fib')
    BY <2>1, <2>5 DEF RouteMessage
  <2>6. ASSUME NEW h \in UdpPeers, Arrival(h) PROVE Shows(own) /\ Lists(fib')
    <3>1. PICK f \in FaceIds \cup {NoFace} : LookupFaceid(h, f) /\ fib' = fib BY <2>6 DEF Arrival
    <3>2. h \in Peers BY DEF Peers
    <3>3. \/ RoutesIn(sock', fib) = RoutesIn(sock, fib)
          \/ \E l \in TcpPeers : RoutesIn(sock', fib) = Bereft(RoutesIn(sock, fib), l)
      BY <1>1, <3>1, <3>2, LookupRoutes
    <3>4. QED BY <1>1, <3>1, <3>3 DEF Shows
  <2>7. ASSUME NEW h \in TcpPeers, Accept(h) PROVE Shows(own) /\ Lists(fib')
    <3>1. PICK f \in FaceIds \cup {NoFace} : (Again(h, f) \/ Given(h, f)) /\ fib' = fib BY <2>7 DEF Accept
    <3>2. CASE Again(h, f) BY <2>3, <3>1, <3>2, AgainNames
    <3>3. QED BY <2>4, <3>1, <3>2 DEF Peers
  <2>8. ASSUME NEW h \in TcpPeers, TcpDown(h) PROVE Shows(own) /\ Lists(fib')
    <3>1. h \in DOMAIN sock /\ sock' = [sock EXCEPT ![h].open = FALSE] /\ fib' = fib BY <2>8 DEF TcpDown, Open
    <3>2. \A l \in DOMAIN sock : sock[l] \in [face : FaceIds, open : BOOLEAN] BY <1>1 DEF Socks
    <3>3. DOMAIN sock' = DOMAIN sock /\ \A l \in DOMAIN sock : sock'[l].face = sock[l].face BY <3>1, <3>2
    <3>4. Keeps(sock, sock', Peers) BY <3>3 DEF Keeps, NamedIn
    <3>5. QED BY <2>3, <3>1, <3>4
  <2>9. ASSUME NEW h \in TcpPeers, TcpError(h) PROVE Shows(own) /\ Lists(fib')
    <3>1. h \in DOMAIN sock /\ sock' = Closed(sock, FaceOf(h)) /\ fib' = Cleaned(fib, sock')
      BY <2>9 DEF TcpError, Open
    <3>2. Keeps(sock, sock', Peers \ {h}) /\ ~NamedIn(sock', h) BY <3>1, ClosedNames
    <3>3. RoutesIn(sock', fib) = Bereft(RoutesIn(sock, fib), h) BY <3>2, LostRoutes
    <3>4. RoutesIn(sock', fib') = RoutesIn(sock', fib) /\ Lists(fib') BY <1>1, <3>1, CleanedRoutes
    <3>5. QED BY <3>3, <3>4 DEF Shows
  <2>10. ASSUME NEW a \in Apps, AppConnect(a) PROVE Shows(own) /\ Lists(fib')
    BY <2>4, <2>10 DEF AppConnect
  <2>11. ASSUME NEW a \in Apps, AppClose(a) PROVE Shows(own) /\ Lists(fib')
    <3>1. a \in DOMAIN sock /\ sock' = Closed(sock, FaceOf(a)) /\ fib' = fib BY <2>11 DEF AppClose, Open
    <3>2. Keeps(sock, sock', Peers \ {a}) BY <3>1, ClosedNames
    <3>3. a \notin Peers BY RoutesAssumption
    <3>4. Keeps(sock, sock', Peers) BY <3>2, <3>3 DEF Keeps
    <3>5. QED BY <2>3, <3>1, <3>4
  <2>12. CASE FacesCleanup
    <3>1. PICK old \in SUBSET Idle : sock' = Restrict(sock, {k \in DOMAIN sock : FaceOf(k) \notin old}) /\ fib' = fib
      BY <2>12 DEF FacesCleanup
    <3>2. /\ DOMAIN sock' = {k \in DOMAIN sock : sock[k].face \notin old}
          /\ \A k \in DOMAIN sock' : sock'[k] = sock[k]
      BY <3>1 DEF Restrict, FaceOf
    <3>3. \A k \in DOMAIN sock : NamedIn(sock, k) /\ sock[k].face \in FaceIds BY <1>1, OneNames DEF Socks
    <3>4. \A k \in DOMAIN sock' : NamedIn(sock', k) BY <3>2, <3>3 DEF NamedIn
    <3>5. \A p \in Uris, k \in DOMAIN sock : sock[k].face \in old => ~Names(fib[p], sock[k].face)
      BY <3>1, <3>3 DEF Idle, InFib, Refers, At, Names
    <3>6. \A r \in Uris \X Peers \X Owners : r \in RoutesIn(sock', fib) <=> r \in RoutesIn(sock, fib)
      <4>1. SUFFICES ASSUME NEW r \in Uris \X Peers \X Owners
                     PROVE  r \in RoutesIn(sock', fib) <=> r \in RoutesIn(sock, fib)
        OBVIOUS
      <4>2. /\ r \in RoutesIn(sock', fib) <=> NamedIn(sock', r[2]) /\ Listed(fib[r[1]], sock'[r[2]].face, r[3])
            /\ r \in RoutesIn(sock, fib) <=> NamedIn(sock, r[2]) /\ Listed(fib[r[1]], sock[r[2]].face, r[3])
        BY DEF RoutesIn
      <4>3. CASE r[2] \in DOMAIN sock' BY <3>2, <3>3, <3>4, <4>2, <4>3
      <4>4. CASE r[2] \in DOMAIN sock \ DOMAIN sock'
        <5>1. ~Names(fib[r[1]], sock[r[2]].face) BY <3>2, <3>5, <4>4
        <5>2. QED BY <4>2, <4>4, <5>1 DEF Names, Listed, NamedIn
      <4>5. CASE r[2] \notin DOMAIN sock BY <3>2, <4>2, <4>5 DEF NamedIn
      <4>6. QED BY <4>3, <4>4, <4>5
    <3>7. RoutesIn(sock', fib) = RoutesIn(sock, fib) BY <3>6 DEF RoutesIn
    <3>8. QED BY <1>1, <3>1, <3>7 DEF Shows
  <2>13. QED BY <2>5, <2>6, <2>7, <2>8, <2>9, <2>10, <2>11, <2>12 DEF Event
<1>5. QED BY <1>2, <1>3, <1>4, ShownOwners DEF RInv

LEMMA InitRoutes == ASSUME NEW own, OwnHosts(own), Init PROVE RInv(own) /\ routesBar = {}
<1>1. Fibs(fib) BY DEF Init, Fibs
<1>2. \A p \in Uris : fib[p] = <<>> BY DEF Init
<1>3. Lists(fib) BY <1>1, <1>2 DEF Lists, Once
<1>4. RoutesIn(sock, fib) = {} BY <1>2 DEF RoutesIn, Listed
<1>5. \A i \in DOMAIN todo : todo[i].owner = own[todo[i].host] BY DEF Init, OwnHosts
<1>6. QED BY <1>3, <1>4, <1>5, InitIInv, BarsAre DEF RInv

LEMMA RestartShows == ASSUME NEW own, OwnHosts(own), Restart PROVE RInv(own)' /\ Shows(own)
<1>1. Fibs(fib') BY DEF Restart, Fibs
<1>2. \A p \in Uris : fib'[p] = <<>> BY DEF Restart
<1>3. Lists(fib') BY <1>1, <1>2 DEF Lists, Once
<1>4. RoutesIn(sock', fib') = {} BY <1>2 DEF RoutesIn, Listed
<1>5. \A i \in DOMAIN todo' : todo'[i].owner = own[todo'[i].host] BY DEF Restart, OwnHosts
<1>6. QED BY <1>3, <1>4, <1>5, RestartIInv DEF RInv, Shows

LEMMA RouteStep ==
  ASSUME NEW own, OwnHosts(own), RInv(own), OneNameEach => NoStale, [Next]_vars
  PROVE  RInv(own)' /\ [Table!TableNext]_routesBar
<1>1. CASE OneNameEach /\ todo # <<>> /\ RouteOperation BY <1>1, OperationShows, ShownSteps
<1>2. CASE OneNameEach /\ todo = <<>> /\ Event BY <1>2, EventShows, ShownSteps
<1>3. CASE Restart BY <1>3, RestartShows, ShownSteps
<1>4. CASE UNCHANGED vars
  <2>1. sock' = sock /\ fib' = fib /\ todo' = todo BY <1>4 DEF vars
  <2>2. IInv' BY StepIInv DEF RInv
  <2>3. routesBar' = routesBar BY <2>1, BarsAre
  <2>4. QED BY <2>1, <2>2, <2>3 DEF RInv
<1>5. QED BY <1>1, <1>2, <1>3, <1>4 DEF Next

\* cef_fib.c and cef_face.c: where every host is next hop for one owner's
\* routes, a step adds one route or deletes one, and only the loss of a TCP
\* connection or a restart takes more; as long as the FIB is left with no
\* Face-ID that has no peer any more, as it is after a refused connection
\* (cef_face.c:1870).
THEOREM RoutesKept ==
  ASSUME NEW CONSTANT own, OwnHosts(own)
  PROVE  Spec /\ [](OneNameEach => NoStale) => IsRouteTable
<1>1. Init => RInv(own) /\ routesBar = {} BY InitRoutes
<1>2. RInv(own) /\ (OneNameEach => NoStale) /\ [Next]_vars => RInv(own)' /\ [Table!TableNext]_routesBar
  BY RouteStep
<1>3. routesBar = {} => Table!TableInit BY DEF Table!TableInit
<1>4. QED BY <1>1, <1>2, <1>3, PTL DEF Spec, IsRouteTable, Table!TableSpec

-----------------------------------------------------------------------------
(* Where every next hop is reached over UDP, no Face-ID goes stale.        *)

\* Each face that the FIB b names is that of a peer in the socket table s.
Backed(s, b) == \A q \in Uris : \A g : Names(b[q], g) => \E h \in DOMAIN s \cap Peers : s[h].face = g

\* From s to t the entries of peers stay.
Stays(s, t) == \A h \in DOMAIN s \cap Peers : h \in DOMAIN t /\ t[h].face = s[h].face

LEMMA BackedIs ==
  /\ Fibs(fib) => (NoStale <=> Backed(sock, fib))
  /\ Fibs(fib') => (NoStale' <=> Backed(sock', fib'))
<1>1. ASSUME NEW b, Fibs(b), NEW q \in Uris, NEW i \in DOMAIN b[q] PROVE b[q][i].face \in FaceIds
  <2>1. b[q] \in Seq(Elements) BY <1>1 DEF Fibs
  <2>2. b[q][i] \in Elements BY <2>1
  <2>3. QED BY <2>2 DEF Elements
<1>2. Fibs(fib) => (NoStale <=> Backed(sock, fib))
  BY <1>1 DEF NoStale, Backed, InFib, Refers, At, Names, FaceOf
<1>3. Fibs(fib') => (NoStale' <=> Backed(sock', fib'))
  BY <1>1 DEF NoStale, Backed, InFib, Refers, At, Names, FaceOf
<1>4. QED BY <1>2, <1>3

LEMMA StaysBacked == ASSUME NEW s, NEW t, Stays(s, t), NEW b, Backed(s, b) PROVE Backed(t, b)
BY DEF Stays, Backed

LEMMA AfterMessageBacked ==
  ASSUME NEW s, NEW b, Lists(b), Backed(s, b)
  PROVE  Backed(s, AfterMessage(b))
<1>1. \A t : \A q \in Uris : \A g : Names(Cleaned(b, t)[q], g) => Names(b[q], g) BY CleanedLists DEF Lists
<1>2. QED BY <1>1 DEF Backed, AfterMessage

LEMMA AllOpen ==
  ASSUME Socks(sock), TcpPeers = {}
  PROVE  OneNameEach /\ \A k \in DOMAIN sock : k \in Open
BY DEF Socks, OneNameEach, Open, FaceOf

LEMMA GivenStays == ASSUME NEW k, NEW f, Given(k, f) PROVE Stays(sock, sock') /\ (sock' # sock => k \in DOMAIN sock' /\ sock'[k].face = f)
<1>1. CASE sock' = With(k, f) BY <1>1 DEF Given, With, Stays
<1>2. CASE sock' = sock BY <1>2 DEF Stays
<1>3. QED BY <1>1, <1>2 DEF Given

LEMMA LookupStays ==
  ASSUME Socks(sock), TcpPeers = {}, NEW k \in Peers, NEW f, LookupFaceid(k, f)
  PROVE  Stays(sock, sock') /\ (f \in FaceIds => k \in DOMAIN sock' /\ sock'[k].face = f)
<1>1. CASE k \in Open /\ f = FaceOf(k) /\ UNCHANGED <<sock, next>>
  <2>1. k \in DOMAIN sock /\ sock' = sock /\ sock[k].face = f BY <1>1 DEF Open, FaceOf
  <2>2. QED BY <2>1 DEF Stays
<1>2. CASE k \notin Open /\ Again(k, f) BY <1>2, AllOpen DEF Again
<1>3. CASE Given(k, f)
  <2>1. CASE f = NextFace /\ sock' = With(k, f)
    <3>1. k \in DOMAIN sock' /\ sock'[k].face = f BY <2>1 DEF With
    <3>2. QED BY <1>3, <3>1, GivenStays
  <2>2. CASE f = NoFace BY <1>3, <2>2, GivenStays, RoutesAssumption DEF NoFace, FaceIds
  <2>3. QED BY <1>3, <2>1, <2>2 DEF Given
<1>4. CASE Refused(k, f) BY <1>4 DEF Refused
<1>5. QED BY <1>1, <1>2, <1>3, <1>4 DEF LookupFaceid

LEMMA AddBacked ==
  ASSUME NEW own, OwnHosts(own), RInv(own), NoStale, TcpPeers = {},
         NEW p \in Uris, NEW k \in Peers, RouteAdd(p, k, own[k])
  PROVE  Backed(sock', fib')
<1>1. Socks(sock) /\ Lists(fib) /\ Backed(sock, fib) BY IInvParts, BackedIs DEF RInv, Lists
<1>2. own[k] \in Owners BY DEF OwnHosts
<1>3. PICK f \in FaceIds \cup {NoFace} :
        /\ LookupFaceid(k, f)
        /\ fib' = AfterMessage(IF f = NoFace \/ (fib[p] = <<>> /\ FibFull) THEN fib
                               ELSE [fib EXCEPT ![p] = SetFaceid(@, f, own[k])])
  BY DEF RouteAdd
<1>4. Stays(sock, sock') /\ (f \in FaceIds => k \in DOMAIN sock' /\ sock'[k].face = f) BY <1>1, <1>3, LookupStays
<1>5. Backed(sock', fib) BY <1>1, <1>4, StaysBacked
<1>6. CASE fib' = AfterMessage(fib) BY <1>1, <1>5, <1>6, AfterMessageBacked
<1>7. CASE f # NoFace /\ fib' = AfterMessage([fib EXCEPT ![p] = SetFaceid(@, f, own[k])])
  <2>1. f \in FaceIds BY <1>7
  <2>2. PICK o : o = own[k] OBVIOUS
  <2>3. PICK c : c = [fib EXCEPT ![p] = SetFaceid(@, f, o)] OBVIOUS
  <2>4. Lists(c) BY <1>1, <1>2, <2>1, <2>2, <2>3, SetRoutes
  <2>5. fib[p] \in Seq(Elements) /\ Once(fib[p]) /\ fib \in [Uris -> Seq(Elements)] BY <1>1 DEF Lists, Fibs
  <2>6. c[p] = SetFaceid(fib[p], f, o) /\ \A q \in Uris \ {p} : c[q] = fib[q] BY <2>3, <2>5
  <2>7. \A g : Names(c[p], g) <=> Names(fib[p], g) \/ g = f BY <1>2, <2>1, <2>2, <2>5, <2>6, SetFaceidLists
  <2>8. Backed(sock', c) BY <1>4, <1>5, <2>1, <2>6, <2>7 DEF Backed
  <2>9. fib' = AfterMessage(c) BY <1>7, <2>2, <2>3
  <2>10. QED BY <2>4, <2>8, <2>9, AfterMessageBacked
<1>8. QED BY <1>3, <1>6, <1>7

LEMMA DelBacked ==
  ASSUME NEW own, OwnHosts(own), RInv(own), NoStale, TcpPeers = {},
         NEW p \in Uris, NEW k \in Peers, RouteDel(p, k, own[k])
  PROVE  Backed(sock', fib')
<1>1. Socks(sock) /\ Lists(fib) /\ Backed(sock, fib) /\ OneNameEach BY IInvParts, BackedIs, AllOpen DEF RInv, Lists
<1>2. k \in DOMAIN sock /\ NamedIn(sock, k) BY <1>1, OneNames DEF RouteDel
<1>3. PICK f, o : f = sock[k].face /\ o = own[k] OBVIOUS
<1>4. Sole(fib[p], f, o) BY <1>2, <1>3, RouteOwners DEF Sole
<1>5. PICK c : c = [fib EXCEPT ![p] = RemoveFaceid(@, f, o)] OBVIOUS
<1>6. Lists(c) BY <1>1, <1>2, <1>3, <1>4, <1>5, RemoveRoutes
<1>7. fib[p] \in Seq(Elements) /\ Once(fib[p]) /\ fib \in [Uris -> Seq(Elements)] BY <1>1 DEF Lists, Fibs
<1>8. c[p] = RemoveFaceid(fib[p], f, o) /\ \A q \in Uris \ {p} : c[q] = fib[q] BY <1>5, <1>7
<1>9. \A g : Names(c[p], g) <=> Names(fib[p], g) /\ g # f BY <1>4, <1>7, <1>8, RemoveFaceidLists DEF Sole
<1>10. Backed(sock, c) BY <1>1, <1>8, <1>9 DEF Backed
<1>11. fib' = AfterMessage(c) BY <1>3, <1>5 DEF RouteDel, FaceOf
<1>12. Backed(sock', c)
  <2>1. CASE sock' = sock BY <1>10, <2>1
  <2>2. CASE sock' = Closed(sock, FaceOf(k)) /\ \A q \in Uris \ {p} : ~Refers(q, FaceOf(k))
    <3>1. Keeps(sock, sock', Peers \ {k}) /\ DOMAIN sock' = DOMAIN sock \ {k} BY <1>1, <1>2, <2>2, ClosedNames
    <3>2. \A h \in DOMAIN sock' \cap Peers : sock'[h].face = sock[h].face
      BY <2>2 DEF Closed, Restrict
    <3>3. \A q \in Uris : ~Names(c[q], f) BY <1>3, <1>8, <1>9, <2>2 DEF Refers, At, Names, FaceOf
    <3>4. QED BY <1>3, <1>10, <3>1, <3>2, <3>3 DEF Backed
  <2>3. QED BY <2>1, <2>2 DEF RouteDel
<1>13. QED BY <1>6, <1>11, <1>12, AfterMessageBacked

LEMMA OperationBacked ==
  ASSUME NEW own, OwnHosts(own), RInv(own), NoStale, TcpPeers = {}, todo # <<>>, RouteOperation
  PROVE  Backed(sock', fib')
<1> DEFINE r == Head(todo)
<1>1. todo \in Seq(Operations) /\ Lists(fib) /\ Backed(sock, fib) BY IInvParts, BackedIs DEF RInv, Lists
<1>2. r \in Operations /\ r = todo[1] /\ 1 \in DOMAIN todo BY <1>1
<1>3. r.uri \in Uris /\ r.host \in Peers /\ r.owner = own[r.host] BY <1>2 DEF Operations, RInv
<1> HIDE DEF r
<1>4. CASE RouteAdd(r.uri, r.host, r.owner) BY <1>3, <1>4, AddBacked
<1>5. CASE RouteDel(r.uri, r.host, r.owner) BY <1>3, <1>5, DelBacked
<1>6. CASE NothingToDel(r.uri, r.host) BY <1>1, <1>6, AfterMessageBacked DEF NothingToDel
<1>7. QED BY <1>4, <1>5, <1>6 DEF RouteOperation, r

LEMMA EventBacked ==
  ASSUME NEW own, RInv(own), NoStale, TcpPeers = {}, Event
  PROVE  Backed(sock', fib')
<1>1. Socks(sock) /\ Backed(sock, fib) /\ OneNameEach BY IInvParts, BackedIs, AllOpen DEF RInv, Lists
<1>2. CASE sock' = sock /\ fib' = fib BY <1>1, <1>2
<1>3. CASE Stays(sock, sock') /\ fib' = fib BY <1>1, <1>3, StaysBacked
<1>4. ASSUME NEW m \in Messages, RouteMessage(m) PROVE Backed(sock', fib') BY <1>2, <1>4 DEF RouteMessage
<1>5. ASSUME NEW h \in UdpPeers, Arrival(h) PROVE Backed(sock', fib')
  BY <1>1, <1>3, <1>5, LookupStays DEF Arrival, Peers
<1>6. ASSUME NEW a \in Apps, AppConnect(a) PROVE Backed(sock', fib') BY <1>3, <1>6, GivenStays DEF AppConnect
<1>7. ASSUME NEW a \in Apps, AppClose(a) PROVE Backed(sock', fib')
  <2>1. a \in DOMAIN sock /\ sock' = Closed(sock, FaceOf(a)) /\ fib' = fib BY <1>7 DEF AppClose, Open
  <2>2. DOMAIN sock' = DOMAIN sock \ {a} BY <1>1, <2>1, ClosedNames
  <2>3. a \notin Peers BY RoutesAssumption
  <2>4. Stays(sock, sock') BY <2>1, <2>2, <2>3 DEF Stays, Closed, Restrict
  <2>5. QED BY <1>3, <2>1, <2>4
<1>8. CASE FacesCleanup
  <2>1. PICK old \in SUBSET Idle : sock' = Restrict(sock, {k \in DOMAIN sock : FaceOf(k) \notin old}) /\ fib' = fib
    BY <1>8 DEF FacesCleanup
  <2>2. /\ DOMAIN sock' = {k \in DOMAIN sock : sock[k].face \notin old}
        /\ \A k \in DOMAIN sock' : sock'[k] = sock[k]
    BY <2>1 DEF Restrict, FaceOf
  <2>3. \A q \in Uris, k \in DOMAIN sock : Names(fib[q], sock[k].face) => sock[k].face \notin old
    <3>1. \A k \in DOMAIN sock : sock[k].face \in FaceIds BY <1>1 DEF Socks
    <3>2. QED BY <2>1, <3>1 DEF Idle, InFib, Refers, At, Names
  <2>4. QED BY <1>1, <2>1, <2>2, <2>3 DEF Backed
<1>9. QED BY <1>4, <1>5, <1>6, <1>7, <1>8 DEF Event

LEMMA UdpStep ==
  ASSUME NEW own, OwnHosts(own), TcpPeers = {}, RInv(own), NoStale, [Next]_vars
  PROVE  RInv(own)' /\ NoStale'
<1>1. RInv(own)' BY RouteStep
<1>2. Fibs(fib') BY <1>1 DEF RInv, Lists
<1>3. CASE OneNameEach /\ todo # <<>> /\ RouteOperation BY <1>1, <1>2, <1>3, OperationBacked, BackedIs
<1>4. CASE OneNameEach /\ todo = <<>> /\ Event BY <1>1, <1>2, <1>4, EventBacked, BackedIs
<1>5. CASE Restart
  <2>1. Backed(sock', fib') BY <1>5 DEF Restart, Backed, Names
  <2>2. QED BY <1>1, <1>2, <2>1, BackedIs
<1>6. CASE UNCHANGED vars
  <2>1. sock' = sock /\ fib' = fib BY <1>6 DEF vars
  <2>2. Fibs(fib) BY DEF RInv, Lists
  <2>3. QED BY <1>1, <1>2, <2>1, <2>2, BackedIs
<1>7. QED BY <1>1, <1>3, <1>4, <1>5, <1>6 DEF Next

\* cef_fib.c and cef_face.c: over UDP, and where every host is next hop for
\* one owner's routes, Face-IDs never show: the table of routes by host is all
\* there is to the FIB, through every clean-up and close until a restart.
THEOREM RoutesKeptOverUdp ==
  ASSUME NEW CONSTANT own, OwnHosts(own), TcpPeers = {}
  PROVE  Spec => IsRouteTable
<1>1. Init => RInv(own) /\ NoStale
  <2>1. SUFFICES ASSUME Init PROVE NoStale BY InitRoutes
  <2>2. \A p \in Uris : fib[p] = <<>> BY <2>1 DEF Init
  <2>3. InFib = {} BY <2>2 DEF InFib, Refers, At
  <2>4. QED BY <2>3 DEF NoStale
<1>2. RInv(own) /\ NoStale /\ [Next]_vars => RInv(own)' /\ NoStale' BY UdpStep
<1>3. Spec => [](OneNameEach => NoStale) BY <1>1, <1>2, PTL DEF Spec
<1>4. QED BY <1>3, RoutesKept, PTL
=============================================================================
