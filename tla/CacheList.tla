------------------------------ MODULE CacheList ------------------------------
(***************************************************************************)
(* The list of src/src/csmgrd/plugin/lib/lru/lru.c and fifo/fifo.c, which  *)
(* differ in what a hit does: entries of an array, linked from the newest  *)
(* (mru_index, fifo_head_index) to the oldest (lru_index,                  *)
(* fifo_tail_index), a stack of the entries that are empty, and the lookup *)
(* table that leads from a key to its entry.                               *)
(***************************************************************************)
LOCAL INSTANCE Integers

CONSTANTS Keys, Capacity

Nil == -1
Cells == 0 .. Capacity - 1

\* init
NewList ==
  [next |-> [i \in Cells |-> Nil], prev |-> [i \in Cells |-> Nil],
   newest |-> Nil, oldest |-> Nil, empty |-> [n \in Cells |-> n], count |-> 0,
   at |-> [k \in Keys |-> Nil]]

\* lru_relink_neighbors_of
Unlinked(l, i) ==
  LET p == l.prev[i]  n == l.next[i] IN
  [l EXCEPT !.newest = IF i = @ THEN n ELSE @,
            !.oldest = IF i = @ THEN p ELSE @,
            !.next = IF i = l.newest THEN @ ELSE [@ EXCEPT ![p] = n],
            !.prev = IF i = l.oldest THEN @ ELSE [@ EXCEPT ![n] = p]]

\* lru_set_mru
Linked(l, i) ==
  [l EXCEPT !.newest = i,
            !.oldest = IF l.newest = Nil THEN i ELSE @,
            !.next[i] = l.newest,
            !.prev = [j \in Cells |-> IF j = i THEN Nil ELSE IF j = l.newest THEN i ELSE @[j]]]

\* lru_store_entry
Stored(l, k) ==
  LET i == l.empty[l.count] IN [Linked(l, i) EXCEPT !.at[k] = i, !.count = @ + 1]

\* lru_remove_entry, which clears the entry
Removed(l, i) ==
  LET u == Unlinked(l, i) IN
  [u EXCEPT !.at = [k \in Keys |-> IF l.at[k] = i THEN Nil ELSE l.at[k]],
            !.next = [u.next EXCEPT ![i] = 0], !.prev = [u.prev EXCEPT ![i] = 0],
            !.count = l.count - 1, !.empty = [l.empty EXCEPT ![l.count - 1] = i]]

\* insert: the key of an entry that must give way, and the list after it
Victims(l) == IF l.count < Capacity THEN {} ELSE {k \in Keys : l.at[k] = l.oldest}
Inserted(l, k) == Stored(IF l.count >= Capacity THEN Removed(l, l.oldest) ELSE l, k)

\* erase
Erased(l, k) == IF l.at[k] = Nil THEN l ELSE Removed(l, l.at[k])

\* Mutant: it is linked as the newest without leaving its place.
TouchedTwice(l, k) == IF l.at[k] = Nil THEN l ELSE Linked(l, l.at[k])
\* hit, of LRU
Touched(l, k) == IF l.at[k] = Nil THEN l ELSE Linked(Unlinked(l, l.at[k]), l.at[k])

\* hit, of FIFO
Ignored(l, k) == l

\* What the links stand for: the entries from the oldest to the newest, ...
Walk(l) ==
  LET w[n \in 1 .. l.count] == IF n = 1 THEN l.oldest ELSE l.prev[w[n - 1]] IN w
\* ... the keys that have them, ...
Lined(l) == {k \in Keys : \E n \in 1 .. l.count : Walk(l)[n] = l.at[k]}
\* ... and which of two is the older.
Older(l) ==
  {p \in Keys \X Keys : \E m, n \in 1 .. l.count :
     m < n /\ Walk(l)[m] = l.at[p[1]] /\ Walk(l)[n] = l.at[p[2]]}
=============================================================================
