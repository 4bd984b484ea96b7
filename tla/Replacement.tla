----------------------------- MODULE Replacement -----------------------------
(***************************************************************************)
(* The replacement libraries of csmgrd (src/src/csmgrd/plugin/lib) under   *)
(* the calls of a cache plugin: insert for a key its table has not, erase  *)
(* after it removed a key, and hit, which may come late, for a key that is *)
(* no longer there.  The plugin holds a mutex in every call.  LFU's insert *)
(* pops in a loop, an iteration of which is a step.                        *)
(***************************************************************************)
EXTENDS Integers, Sequences, FiniteSetsExt

CONSTANTS
  Keys, Capacity, TopFreq, Room,
  Blocks    \* bound: the blocks of LFU's pool that the model tells apart

NoKey == "none"

ASSUME ReplacementAssumption ==
  /\ NoKey \notin Keys /\ IsFiniteSet(Keys)
  /\ Capacity \in Nat \ {0} /\ TopFreq \in Nat \ {0}
  /\ Room \in Nat \ {0} /\ Blocks \subseteq Nat \ {0} /\ IsFiniteSet(Blocks)

VARIABLES
  alg,      \* the library that CACHE_ALGORITHM names
  list,     \* the state of LRU and of FIFO
  rings,    \* the state of LFU
  pending,  \* the key that an insert of LFU is making room for
  table,    \* what the plugin's table has, by store_api and remove_api
  failed    \* the loop read through a null pointer: the program is gone

vars == <<alg, list, rings, pending, table, failed>>

L == INSTANCE CacheList
F == INSTANCE CacheRings

Init ==
  /\ alg \in {"lru", "fifo", "lfu"}
  /\ list = L!NewList /\ rings = F!NewRings
  /\ pending = NoKey /\ table = {} /\ failed = FALSE

Free == pending = NoKey /\ ~failed

ListInsert(k) ==
  /\ Free /\ alg # "lfu" /\ k \notin table
  /\ list' = L!Inserted(list, k)
  /\ table' = (table \ L!Victims(list)) \cup {k}
  /\ UNCHANGED <<alg, rings, pending, failed>>

\* insert of LFU: nothing for a key it has
RingInsert(k) ==
  /\ Free /\ alg = "lfu" /\ k \notin table /\ rings.at[k] = F!NoEntry
  /\ IF rings.count >= Capacity
     THEN pending' = k /\ UNCHANGED <<rings, table>>
     ELSE /\ F!FreeBlocks(rings) # {}
          /\ rings' = F!Stored(rings, k) /\ table' = table \cup {k} /\ UNCHANGED pending
  /\ UNCHANGED <<alg, list, failed>>

\* An iteration of its loop: nothing is left in the ring, ...
PopNothing ==
  /\ pending # NoKey /\ ~failed /\ F!FoundNone(rings)
  /\ failed' = TRUE
  /\ UNCHANGED <<alg, list, rings, pending, table>>

\* ... something that is not at this frequency any more, ...
PopStale ==
  /\ pending # NoKey /\ ~failed /\ ~F!FoundNone(rings) /\ ~F!IsVictim(rings)
  /\ rings' = F!AfterPop(rings)
  /\ UNCHANGED <<alg, list, pending, table, failed>>

\* ... or the victim.
PopVictim ==
  /\ pending # NoKey /\ ~failed /\ ~F!FoundNone(rings) /\ F!IsVictim(rings)
  /\ LET b == F!Popped(rings)
         left == F!Removed(F!AfterPop(rings), b) IN
     /\ F!FreeBlocks(left) # {}
     /\ rings' = F!Stored(left, pending)
     /\ table' = (table \ {F!KeyOf(rings, b)}) \cup {pending}
  /\ pending' = NoKey
  /\ UNCHANGED <<alg, list, failed>>

\* The plugin took the key out of its table and tells the library.
Erase(k) ==
  /\ Free
  /\ table' = table \ {k}
  /\ IF alg = "lfu" THEN rings' = F!Erased(rings, k) /\ UNCHANGED list
     ELSE list' = L!Erased(list, k) /\ UNCHANGED rings
  /\ UNCHANGED <<alg, pending, failed>>

Hit(k) ==
  /\ Free
  /\ list' = CASE alg = "lru" -> L!Touched(list, k) [] alg = "fifo" -> L!Ignored(list, k) [] OTHER -> list
  /\ rings' = IF alg = "lfu" THEN F!Touched(rings, k) ELSE rings
  /\ UNCHANGED <<alg, pending, table, failed>>

Next ==
  \/ PopNothing \/ PopStale \/ PopVictim
  \/ \E k \in Keys : ListInsert(k) \/ RingInsert(k) \/ Erase(k) \/ Hit(k)

Spec == Init /\ [][Next]_vars

-----------------------------------------------------------------------------
TypeOK ==
  /\ alg \in {"lru", "fifo", "lfu"} /\ pending \in Keys \cup {NoKey} /\ table \subseteq Keys
  /\ list.count \in 0 .. Capacity /\ rings.count \in 0 .. Capacity
  /\ list.at \in [Keys -> L!Cells \cup {L!Nil}] /\ rings.at \in [Keys -> Blocks \cup {F!NoEntry}]
  /\ rings.freq \in [Blocks -> F!Freqs \cup {F!Gone}] /\ rings.track \in [Blocks -> Nat]
  /\ failed \in BOOLEAN

\* The library and the plugin's table have the same keys, no more than the capacity, and
\* the library's counts are right: an eviction never names a key that the plugin has not,
\* and no cached Object is out of its reach.  Entries and blocks are not shared.
SameKeys ==
  LET at == IF alg = "lfu" THEN rings.at ELSE list.at
      held == {k \in Keys : at[k] # IF alg = "lfu" THEN F!NoEntry ELSE L!Nil} IN
  /\ held = table /\ Cardinality(held) <= Capacity
  /\ Cardinality(held) = (IF alg = "lfu" THEN rings.count ELSE list.count)
  /\ \A k \in held, j \in held : at[k] = at[j] => k = j
  /\ alg = "lfu" => \A f \in F!Freqs :
       rings.counts[f] = Cardinality({k \in held : rings.freq[at[k]] = f})

\* A block of LFU that a ring still leads to is not given out for another entry.
RingsOwn ==
  \A b \in Blocks : rings.track[b] >=
     Cardinality({f \in F!Freqs : \E i \in DOMAIN rings.ring[f] : rings.ring[f][i] = b})

\* The keys that wait for an eviction, by frequency, those that no eviction of LFU will
\* find, and the order in which they go
Waiting ==
  [f \in F!Freqs |-> IF alg = "lfu" THEN F!Live(rings, f) ELSE IF f = 0 THEN L!Lined(list) ELSE {}]
Passed ==
  [f \in F!Freqs |->
     IF alg # "lfu" THEN {}
     ELSE {k \in Keys : rings.at[k] # F!NoEntry /\ rings.freq[rings.at[k]] = f} \ F!Live(rings, f)]
Order == IF alg = "lfu" THEN F!Older(rings) ELSE L!Older(list)

\* LFU passes a key over only if the ring of its frequency was full when it came to it, and
\* then until it is hit again or erased.
PassedIfFull ==
  [][\A f \in F!Freqs : \A k \in Passed'[f] \ Passed[f] : Len(rings.ring[f]) >= Room]_vars

\* The libraries keep what Eviction promises: LRU evicts the key that was inserted or hit
\* longest ago, FIFO the one inserted longest ago, and LFU, among those hit least often,
\* the one that is so for the longest time; save for keys whose push found a ring full.
Promise == INSTANCE Eviction WITH waiting <- Waiting, passed <- Passed, older <- Order
KeepsPromise == Promise!Spec

\* Victims are the promised ones, and only full rings let LFU pass over a key (fifo.c:263-279,
\* lru.c:173-181, lfu.c:166-193).
Promised == KeepsPromise /\ PassedIfFull

\* The library's table, its list or rings and the keys of the plugin agree
\* (lru.c, fifo.c, lfu.c).
Consistent == TypeOK /\ SameKeys /\ RingsOwn
=============================================================================
