----------------------------- MODULE ContentStore -----------------------------
(***************************************************************************)
(* The content store of cefnetd as its main task uses it, by the value of  *)
(* CS_MODE (cef_csmgr_stat_create): the cache inside cefnetd (LocalCache)  *)
(* or csmgrd (CsmgrLink).  The two share the clock, the main task and the  *)
(* pipe to the thread that cef_csmgr_stat_create starts.                   *)
(***************************************************************************)
EXTENDS Integers, SequencesExt, FiniteSetsExt

CONSTANTS Names, Chunks, Place, Row, Capacity, AtOnce, Feeds, LookupMax, SweepMax,
          Slot, Access, BufferTime, BatchRoom, SockRoom, ReadMax, SendTries, Scripts, CrashMax,
          PipeRoom, WriteTries, TimeMax

ASSUME ContentStoreAssumption ==
  /\ Chunks \subseteq Nat /\ Access \in {"RW", "RO"} /\ BufferTime \in Nat
  /\ {Capacity, AtOnce, PipeRoom, WriteTries, BatchRoom, SockRoom, ReadMax, SendTries, TimeMax} \subseteq Nat \ {0}
  /\ Feeds \subseteq Seq([name : Names, chunk : Chunks, ver : Nat, rct : Nat, expiry : Nat])
  /\ \A s \in Scripts : \A i \in DOMAIN s : s[i].name \in DOMAIN Slot

VARIABLES mode, now, main, pipe,
          feed, table, list, stat, delPipe, deleter, sweep, due, checking, lookups, sweeps, upgraded, broken,
          script, temp, batch, sender, link, sock, peer, back, got, lost, cut, made, crashes, wild

local == <<feed, table, list, stat, delPipe, deleter, sweep, due, checking, lookups, sweeps, upgraded, broken>>
remote == <<script, temp, batch, sender, link, sock, peer, back, got, lost, cut, made, crashes, wild>>
vars == <<mode, now, main, pipe, local, remote>>

L == INSTANCE LocalCache
C == INSTANCE CsmgrLink

Init ==
  /\ mode \in {"Localcache", "Excache"} /\ L!InitLocal /\ C!InitLink
  /\ IF mode = "Localcache" THEN script = CHOOSE s \in Scripts : TRUE ELSE feed = CHOOSE f \in Feeds : TRUE

\* The program ends where it reads what is freed, or never set.
Inside(A) == mode = "Localcache" /\ ~broken /\ A /\ UNCHANGED <<mode, remote>>
Outside(A) == mode = "Excache" /\ ~wild /\ A /\ UNCHANGED <<mode, local>>

LocalMain == Inside(L!Come \/ L!WritePipe \/ L!Count \/ L!CompareEntry)
LocalLookup == Inside((\E k \in L!Keys : L!Lookup(k)) \/ \E n \in Names : L!Info(n))
LocalPut == Inside(L!PutOne)
LocalDelete == Inside(L!DeleterTake \/ L!DeleterStep)
LocalSweep(s) == Inside(L!CheckFlag(s) \/ L!SetFlag(s) \/ L!SweepRow(s))
LocalWake == Inside(L!Wake)
LocalTick == Inside(L!Tick)

LinkCome == Outside(C!Come)
LinkPush == Outside(C!Push)
LinkMain == Outside(C!WritePipe \/ C!Connect \/ C!Answer)
LinkInput == Outside(C!InputObject \/ C!InputEnd)
LinkSend == Outside(C!TakeFromPipe \/ C!Reconnect \/ C!SendFirst \/ C!SendMore)
LinkPeer == Outside(C!PeerRead)
LinkRest == Outside(\/ C!PeerCrash \/ C!PeerStart \/ C!Tick
                    \/ \E n \in DOMAIN Slot, v \in {1, 2} : C!PeerSend(n, v))

Next ==
  \/ LocalMain \/ LocalLookup \/ LocalPut \/ LocalDelete \/ (\E s \in L!Sweepers : LocalSweep(s))
  \/ LocalWake \/ LocalTick
  \/ LinkCome \/ LinkPush \/ LinkMain \/ LinkInput \/ LinkSend \/ LinkPeer \/ LinkRest

\* Time passes, the sweepers run, the main task pushes and writes on, the thread sends, and
\* csmgrd reads what comes.
FairSpec ==
  /\ Init /\ [][Next]_vars
  /\ WF_vars(LocalTick) /\ WF_vars(LocalWake) /\ \A s \in L!Sweepers : WF_vars(LocalSweep(s))
  /\ WF_vars(LinkPush) /\ WF_vars(LinkMain) /\ WF_vars(LinkSend) /\ WF_vars(LinkPeer)

-----------------------------------------------------------------------------
(* What holds of the cache inside cefnetd.                                 *)

\* Variables keep to their kinds of values.
TypeOK ==
  /\ mode \in {"Localcache", "Excache"} /\ now \in 1 .. TimeMax /\ broken \in BOOLEAN /\ wild \in BOOLEAN
  /\ DOMAIN table = L!Keys /\ DOMAIN stat = L!Places /\ DOMAIN temp = C!Slots
  /\ Len(pipe) <= PipeRoom /\ Len(delPipe) <= PipeRoom /\ Len(sock) <= SockRoom /\ Len(batch) <= BatchRoom
  /\ checking \in BOOLEAN /\ due \in BOOLEAN /\ link \in {"up", "lost", "closed"}
  /\ upgraded \subseteq Names /\ lost \subseteq DOMAIN made /\ cut \subseteq lost

\* Whatever the put thread, the delete thread and the sweeps do in whatever order: the
\* lookup table leads to a node for exactly the keys of the table, to one each, so that
\* every cached Object can still be evicted; and the nodes, those that the delete thread
\* left behind among them, are no more than the cache has room for.
Linked ==
  /\ \A k \in L!Keys : Cardinality(L!Owns(list, k)) = IF L!Held(k) THEN 1 ELSE 0
  /\ Len(list) <= Capacity

\* The record of a content counts its cached chunks and spans them, as long as no version
\* of it was replaced and no other content shares its chain.
Counted ==
  \A n \in Names \ upgraded :
    (\A m \in Names \ {n} : Place[m] # Place[n]) /\ ~broken =>
      LET held == {c \in Chunks : L!Held(<<n, c>>)}
          records == {i \in DOMAIN stat[Place[n]] : stat[Place[n]][i].name = n} IN
      IF held = {} THEN records = {}
      ELSE \E i \in records : /\ records = {i} /\ stat[Place[n]][i].cobs = Cardinality(held)
                              /\ stat[Place[n]][i].min <= Min(held) /\ Max(held) <= stat[Place[n]][i].max

\* A cached chunk gives way to a newer version of it, never to an older one, through
\* eviction and the thread that deletes by version; so does what the main task buffers.
NeverOlder ==
  [][/\ \A k \in L!Keys : L!Held(k) /\ L!Held(k)' => L!Compare(table[k].ver, table'[k].ver) \in {"same", "second"}
     /\ \A s \in C!Slots : temp[s].name = temp'[s].name /\ temp[s].name # "none"
                           => C!Compare(temp[s].ver, temp'[s].ver) \in {"same", "second"}]_vars

\* What is overdue at the end of time is swept: a sweep that finds another one at work
\* may give up, the flag that says so is tested and set in two steps, and yet no overdue
\* Object stays for ever.
Swept ==
  (mode = "Localcache" /\ \E k \in L!Keys : L!Held(k) /\ L!Overdue(table[k], now))
    ~> (broken \/ \A k \in L!Keys : ~(L!Held(k) /\ L!Overdue(table[k], now)))

-----------------------------------------------------------------------------
(* What holds of the way to csmgrd.                                        *)

\* csmgrd receives no frame twice, Objects in the order in which they came to cefnetd, and
\* so what it is asked; only a question may pass Objects that are still collected.
InOrder ==
  \A i, j \in DOMAIN got :
    i < j => /\ got[i][1] # got[j][1]
             /\ (made[got[i][1]] = "UpReq") = (made[got[j][1]] = "UpReq") => got[i][1] < got[j][1]

\* csmgrd takes a frame for the end of another only if cefnetd gave up the end of a frame
\* whose head it had sent, or csmgrd itself had ended.
Whole == (\E i \in DOMAIN got : got[i][1] # got[i][2]) => cut # {} \/ crashes > 0

\* Every frame that was made comes to csmgrd or is given up: none stays in the batch, in
\* the pipe or with the thread, however slow csmgrd is and though it may end and come back.
Settles ==
  (mode = "Excache") ~> (wild \/ DOMAIN made = lost \cup {got[i][1] : i \in DOMAIN got})

\* The local cache: lookup table, list and records agree (cef_mem_cache.c).
Consistent == TypeOK /\ Linked /\ Counted

\* What csmgrd gets are frames in order, whole but for the cuts named above
\* (cef_csmgr_send_to_csmgrd_thread).
Received == InOrder /\ Whole

\* Overdue Objects are swept and made frames leave (cef_mem_cache.c:541-561, 656-670;
\* cef_csmgr.c:2234-2412).
Progress == Swept /\ Settles
=============================================================================
