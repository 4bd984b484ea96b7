------------------------------ MODULE HashTable -----------------------------
(***************************************************************************)
(* The open-addressing table of src/src/lib/cef_hash.c, which holds the    *)
(* FIB, the sockets of the faces and the applications' names.  A slot is   *)
(* used, free (klen = 0: a search that comes by ends there) or gone        *)
(* (klen = -1: its key was removed, searches pass on).                     *)
(*                                                                         *)
(* A search goes from the home slot of the key upwards and around.  The    *)
(* hash function is MD5, here any function; it is fixed when the table is  *)
(* created.                                                                *)
(***************************************************************************)
EXTENDS Integers, FiniteSets

CONSTANTS
  Keys, Elems,
  NoElem,      \* NULL
  Free, Gone,  \* what a slot without key holds
  ElemMax,     \* elem_max: the number of slots
  DefElemMax   \* def_elem_max: the size the user asked for

ASSUME HashTableAssumption ==
  /\ ElemMax \in Nat \ {0} /\ DefElemMax \in Nat /\ DefElemMax <= ElemMax
  /\ Free # Gone /\ Free \notin Keys /\ Gone \notin Keys /\ NoElem \notin Elems
  /\ Elems # {}

Slots == 0 .. ElemMax - 1

VARIABLES
  home,   \* hash % elem_max of each key
  key,    \* what each slot holds: a key, Free or Gone
  elem    \* the element of each slot

hashVars == <<home, key, elem>>

HashOK ==
  /\ home \in [Keys -> Slots]
  /\ key \in [Slots -> Keys \cup {Free, Gone}]
  /\ elem \in [Slots -> Elems \cup {NoElem}]

HashInit ==
  /\ home \in [Keys -> Slots]
  /\ key = [s \in Slots |-> Free]
  /\ elem = [s \in Slots |-> NoElem]

\* How many steps a search from slot h makes before it looks at slot s.
Steps(h, s) == IF s >= h THEN s - h ELSE s + ElemMax - h

\* s comes before t in a search from slot h.
Sooner(h, s, t) == Steps(h, s) < Steps(h, t)

-----------------------------------------------------------------------------
(* Searches.  Each returns the set of the slots it ends at: one, or none.  *)

\* cef_hash_tbl_item_get: a free slot ends the search, but the home slot is
\* not asked whether it is free.
Found(k) ==
  {s \in Slots :
     /\ key[s] = k
     /\ \A t \in Slots : Sooner(home[k], t, s) =>
          key[t] # k /\ (t # home[k] => key[t] # Free)}

Stored == {k \in Keys : Found(k) # {}}

\* The slot of S that a search from h looks at first.
FirstOf(h, S) == {s \in S : \A t \in S : t # s => Sooner(h, s, t)}
FreeSlots == {s \in Slots : key[s] = Free}
GoneSlots == {s \in Slots : key[s] = Gone}

\* Mutant: gone slots are not used again.
PlaceFree(k) == FirstOf(home[k], FreeSlots)

\* Where cef_hash_tbl_item_set puts a key it has not got: the home slot if it
\* is free, else the first free slot; if the table has no free slot left, the
\* first gone one that is not the home slot.
Place(k) ==
  IF FreeSlots # {} THEN FirstOf(home[k], FreeSlots)
  ELSE FirstOf(home[k], GoneSlots \ {home[k]})

\* elem_num
ElemNum == Cardinality({s \in Slots : key[s] \in Keys})

-----------------------------------------------------------------------------
(* Operations.                                                             *)

\* cef_hash_tbl_item_set; its callers in cef_fib.c and cef_netd.c search for
\* the key, and compare elem_num with def_elem_max, before they store it.
ItemSet(k, e) ==
  /\ Found(k) = {} /\ ElemNum < DefElemMax
  /\ \/ Place(k) = {} /\ UNCHANGED <<key, elem>>
     \/ \E s \in Place(k) :
          key' = [key EXCEPT ![s] = k] /\ elem' = [elem EXCEPT ![s] = e]
  /\ UNCHANGED home

\* Mutant: a run of gone slots is given free without a look at the slot that
\* follows it.
ReclaimedBlindly(held, r) ==
  [s \in Slots |-> IF s <= r /\ \A t \in s .. r : held[t] = Gone THEN Free ELSE held[s]]

\* cef_hash_tbl_item_remove, from ENDFUNC on: once the slot after r is free,
\* r is free too, and so are the gone slots right below it; if slot 0 is free
\* then, so are the gone slots at the upper end.
Follow(s) == IF s = ElemMax - 1 THEN 0 ELSE s + 1
Reclaimed(held, r) ==
  LET below(s) == s <= r /\ \A t \in s .. r : held[t] = Gone
      top(s)   == s > r /\ \A t \in s .. ElemMax - 1 : held[t] = Gone
  IN  IF held[Follow(r)] # Free THEN held
      ELSE [s \in Slots |->
              IF below(s) \/ (top(s) /\ (below(0) \/ held[0] = Free)) THEN Free ELSE held[s]]

ItemRemove(k) ==
  /\ \E s \in Found(k) :
       /\ key' = Reclaimed([key EXCEPT ![s] = Gone], s)
       /\ elem' = [elem EXCEPT ![s] = NoElem]
  /\ UNCHANGED home

\* cef_hash_tbl_item_remove_from_index, on a slot that is used
ItemRemoveFromIndex(s) ==
  /\ key[s] \in Keys
  /\ key' = [key EXCEPT ![s] = Gone]
  /\ elem' = [elem EXCEPT ![s] = NoElem]
  /\ UNCHANGED home

HashNext ==
  \/ \E k \in Keys, e \in Elems : ItemSet(k, e)
  \/ \E k \in Keys : ItemRemove(k)
  \/ \E s \in Slots : ItemRemoveFromIndex(s)

HashSpec == HashInit /\ [][HashNext]_hashVars

-----------------------------------------------------------------------------
(* Properties.                                                             *)

\* What the users see: the keys a search finds, with their elements.
dictBar == [k \in Stored |-> elem[CHOOSE s \in Found(k) : TRUE]]

Dict == INSTANCE Dictionary WITH dict <- dictBar, Room <- DefElemMax

\* The table is a map: no removal hides a key that collided with the removed
\* one, no key is found twice or with another key's element, whatever the
\* order in which slots were used, given up and reclaimed.
IsDictionary == Dict!DictSpec

\* elem_num, which the callers compare with def_elem_max, counts the keys that
\* searches find.
CountsStored == ElemNum = Cardinality(Stored)

\* A key that a caller may store finds a slot, although the table is full of
\* slots that were given up: the callers do not look at what
\* cef_hash_tbl_item_set returns, and would lose the entry.
SetFindsRoom == ElemNum < DefElemMax => \A k \in Keys : k \in Stored \/ Place(k) # {}
=============================================================================
