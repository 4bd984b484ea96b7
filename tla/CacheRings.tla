----------------------------- MODULE CacheRings -----------------------------
(***************************************************************************)
(* The state of src/src/csmgrd/plugin/lib/lfu/lfu.c: a ring queue for each *)
(* frequency and the number of entries that have it.  An entry that is hit *)
(* moves to the next ring, and one that is erased only loses its           *)
(* frequency: what they leave behind in a ring is skipped when it is       *)
(* popped (a ring is a queue here: RingQueue shows that it is one).  track *)
(* counts the rings an entry is in, and its block goes back to the pool    *)
(* when the last has let go of it.                                         *)
(***************************************************************************)
EXTENDS Integers, Sequences, FiniteSetsExt

CONSTANTS
  Keys,
  Capacity,
  TopFreq,  \* LfuC_Max_Frequency - 1
  Room,     \* what a ring takes
  Blocks    \* blocks that the pool can give

Freqs == 0 .. TopFreq
NoEntry == 0
Gone == -1

\* init
NewRings ==
  [ring |-> [f \in Freqs |-> <<>>], counts |-> [f \in Freqs |-> 0],
   max |-> 0, count |-> 0, at |-> [k \in Keys |-> NoEntry],
   freq |-> [b \in Blocks |-> Gone], track |-> [b \in Blocks |-> 0]]

KeyOf(l, b) == CHOOSE k \in Keys : l.at[k] = b

\* cef_rngque_push, whose result nobody looks at
PushedTo(l, f, b) == IF Len(l.ring[f]) = Room THEN l.ring ELSE [l.ring EXCEPT ![f] = Append(@, b)]

FreeBlocks(l) == {b \in Blocks : l.track[b] <= 0}

\* lfu_store_entry
Stored(l, k) ==
  LET b == Min(FreeBlocks(l)) IN
  [l EXCEPT !.ring = PushedTo(l, 0, b), !.counts[0] = @ + 1, !.count = @ + 1,
            !.at[k] = b, !.freq[b] = 0, !.track[b] = 1]

\* lfu_remove_entry
Removed(l, b) ==
  [l EXCEPT !.at[KeyOf(l, b)] = NoEntry, !.counts[l.freq[b]] = @ - 1,
            !.count = @ - 1, !.freq[b] = Gone]

\* erase
Erased(l, k) == IF l.at[k] = NoEntry THEN l ELSE Removed(l, l.at[k])

\* Mutant: the new ring is not counted.
TouchedUntracked(l, k) ==
  LET b == l.at[k]  f == l.freq[b] IN
  IF b = NoEntry \/ f >= TopFreq THEN l
  ELSE [l EXCEPT !.ring = PushedTo(l, f + 1, b), !.freq[b] = f + 1,
                 !.counts[f] = @ - 1, !.counts[f + 1] = @ + 1,
                 !.max = IF f + 1 > @ THEN f + 1 ELSE @]
\* hit
Touched(l, k) ==
  LET b == l.at[k]  f == l.freq[b] IN
  IF b = NoEntry \/ f >= TopFreq THEN l
  ELSE [l EXCEPT !.ring = PushedTo(l, f + 1, b), !.freq[b] = f + 1, !.track[b] = @ + 1,
                 !.counts[f] = @ - 1, !.counts[f + 1] = @ + 1,
                 !.max = IF f + 1 > @ THEN f + 1 ELSE @]

\* lfu_get_min_freq_ring_having_entry
MinFreq(l) == Min({f \in 0 .. l.max : l.counts[f] # 0})

\* The loop of insert: the ring it pops, whether there is something to pop,
\* what it pops, and what is left.
LastRing(l) == l.ring[MinFreq(l)]
FoundNone(l) == LastRing(l) = <<>>
Popped(l) == Head(LastRing(l))
IsVictim(l) == l.freq[Popped(l)] = MinFreq(l)
AfterPop(l) == [l EXCEPT !.ring[MinFreq(l)] = Tail(@), !.track[Popped(l)] = @ - 1]

\* What the rings stand for: the keys that have a frequency and are in its ring, ...
Live(l, f) ==
  {k \in Keys : /\ l.at[k] # NoEntry /\ l.freq[l.at[k]] = f
                /\ \E i \in DOMAIN l.ring[f] : l.ring[f][i] = l.at[k]}
\* ... and which of two goes first.
Older(l) ==
  {p \in Keys \X Keys : \E f \in Freqs :
     /\ p[1] \in Live(l, f) /\ p[2] \in Live(l, f)
     /\ \E i, n \in DOMAIN l.ring[f] : i < n /\ l.ring[f][i] = l.at[p[1]] /\ l.ring[f][n] = l.at[p[2]]}
=============================================================================
