------------------------------ MODULE Eviction ------------------------------
(***************************************************************************)
(* What a replacement library promises the cache plugin that loads it      *)
(* (the interface of csmgrd_plugin.h: insert, erase, hit).  Keys wait for  *)
(* their eviction, at the frequency of their hits; LRU and FIFO use the    *)
(* first only.  The victim has the lowest frequency in use and is the      *)
(* oldest there.  LFU may pass a key over: it is held, but no eviction     *)
(* finds it, and when every key of the lowest frequency is passed over the *)
(* program fails.                                                          *)
(***************************************************************************)
EXTENDS Integers, FiniteSetsExt

CONSTANTS Keys, Capacity, TopFreq

VARIABLES
  alg,
  waiting,  \* the keys that wait, by frequency
  passed,   \* the keys that are passed over, by frequency
  older,    \* pairs of keys that wait at a frequency, the older first
  failed

Freqs == 0 .. TopFreq
AtFreq(f) == waiting[f] \cup passed[f]
Held == UNION {AtFreq(f) : f \in Freqs}
Lowest == Min({f \in Freqs : AtFreq(f) # {}})
FreqOf(k) == CHOOSE f \in Freqs : k \in AtFreq(f)
Oldest(f) == {v \in waiting[f] : \A j \in waiting[f] : <<j, v>> \notin older}

Init ==
  /\ alg \in {"lru", "fifo", "lfu"}
  /\ waiting = [f \in Freqs |-> {}] /\ passed = [f \in Freqs |-> {}] /\ older = {}
  /\ failed = FALSE

\* What is left without k
Out(s, k) == [f \in Freqs |-> s[f] \ {k}]
Without(k) == {p \in older : p[1] # k /\ p[2] # k}

\* k comes last of those that wait at f, or is passed over, when w, p and o are left of the others.
EnterOrPass(w, p, o, k, f) ==
  \/ /\ waiting' = [w EXCEPT ![f] = @ \cup {k}] /\ passed' = p
     /\ older' = o \cup (w[f] \X {k})
  \/ alg = "lfu" /\ waiting' = w /\ passed' = [p EXCEPT ![f] = @ \cup {k}] /\ older' = o

Insert(k) ==
  /\ ~failed /\ k \notin Held
  /\ \/ Cardinality(Held) < Capacity /\ EnterOrPass(waiting, passed, older, k, 0)
     \/ /\ Cardinality(Held) = Capacity
        /\ \E v \in Oldest(Lowest) : EnterOrPass(Out(waiting, v), passed, Without(v), k, 0)
  /\ UNCHANGED <<alg, failed>>

Fail ==
  /\ ~failed /\ alg = "lfu" /\ Cardinality(Held) = Capacity /\ waiting[Lowest] = {}
  /\ failed' = TRUE
  /\ UNCHANGED <<alg, waiting, passed, older>>

Erase(k) ==
  /\ ~failed /\ k \in Held
  /\ waiting' = Out(waiting, k) /\ passed' = Out(passed, k) /\ older' = Without(k)
  /\ UNCHANGED <<alg, failed>>

Hit(k) ==
  /\ ~failed /\ k \in Held
  /\ \E f \in Freqs :
       /\ (alg = "lru" /\ f = 0) \/ (alg = "lfu" /\ f = FreqOf(k) + 1)
       /\ EnterOrPass(Out(waiting, k), Out(passed, k), Without(k), k, f)
  /\ UNCHANGED <<alg, failed>>

Next == Fail \/ \E k \in Keys : Insert(k) \/ Erase(k) \/ Hit(k)

Spec == Init /\ [][Next]_<<alg, waiting, passed, older, failed>>
=============================================================================
