----------------------------- MODULE MemoryCache -----------------------------
(***************************************************************************)
(* The memory cache of csmgrd (src/src/csmgrd/plugin/mem_cache): its       *)
(* table, the records of cef_csmgr_stat.c, the replacement library (as     *)
(* module Eviction promises it) and its threads.  The daemon's message     *)
(* thread fills buffers (mem_cache_item_puts); the writer empties them     *)
(* (mem_cob_process_thread); the threads that answer requests read the     *)
(* table before they take mem_cs_mutex (mem_cache_item_get); the sweep     *)
(* removes what is overdue; and the deleter removes the chunks of a        *)
(* version that a newer one replaced.                                      *)
(*                                                                         *)
(* An Object is a record of content, chunk, version, and the end of its    *)
(* life; id tells the allocations apart.  Where a thread reads through a   *)
(* pointer that is null or freed, the model goes no further (broken).      *)
(***************************************************************************)
EXTENDS Integers, SequencesExt, FiniteSetsExt

CONSTANTS
  Contents, Chunks,
  Batches,     \* what a message to csmgrd can bring: sequences of new Objects
  Wanted,      \* versions that a request can ask for
  Algorithms,  \* values of CACHE_ALGORITHM to consider
  Capacity,
  Buffers,     \* MemC_Max_Buff
  BufferSize,  \* what a buffer takes: CsmgrC_Buff_Num - 1
  TimeMax,     \* bound: the clock
  PutMax       \* bound: messages

Keys == Contents \X Chunks
Nothing == [id |-> 0]
BufferIds == 1 .. Buffers

ASSUME MemoryCacheAssumption ==
  /\ Chunks \subseteq Nat /\ IsFiniteSet(Contents) /\ IsFiniteSet(Chunks)
  /\ Algorithms \subseteq {"None", "lru", "fifo", "lfu"} /\ Wanted \subseteq Nat
  /\ Capacity \in Nat \ {0} /\ Buffers \in Nat \ {0} /\ BufferSize \in Nat \ {0}
  /\ Batches \subseteq Seq([content : Contents, chunk : Chunks, version : Nat, expiry : Nat, id : {0}])
  /\ TimeMax \in Nat

VARIABLES
  alg,       \* CACHE_ALGORITHM
  now,       \* the clock
  table,     \* mem_hash_tbl
  stat,      \* the records of cef_csmgr_stat.c
  order,     \* the replacement library: keys, the next victim first
  cobs,      \* hdl->cache_cobs
  buff,      \* mem_proc_cob_buff
  sem,       \* mem_comn_buff_sem
  running,   \* mem_thread_f
  put,       \* mem_cache_item_puts: the Objects left of the message, the buffer, write_f
  writer,    \* mem_cob_process_thread
  getter,    \* a thread in mem_cache_item_get
  pipe,      \* delete_pipe_fd: records of replaced versions
  upgraded,  \* history: contents of which a version was replaced
  puts, ids, \* bound and history: messages put, allocations made
  broken     \* a thread read through a null or a freed pointer

vars == <<alg, now, table, stat, order, cobs, buff, sem, running, put, writer, getter, pipe,
          upgraded, puts, ids, broken>>
cache == <<table, stat, order, cobs>>

S == INSTANCE ContentStat

Key(o) == <<o.content, o.chunk>>
Stored(k) == table[k] # Nothing
Unlocked == writer.at # "write"

Init ==
  /\ alg \in Algorithms /\ now = 0
  /\ table = [k \in Keys |-> Nothing] /\ stat = S!NewStat /\ order = <<>> /\ cobs = 0
  /\ buff = [b \in BufferIds |-> <<>>] /\ sem = 0 /\ running = FALSE
  /\ put = [at |-> "idle", left |-> <<>>, b |-> 1, write |-> FALSE]
  /\ writer = [at |-> "start", b |-> 1, left |-> <<>>]
  /\ getter = [at |-> "idle"]
  /\ pipe = <<>> /\ upgraded = {} /\ puts = 0 /\ ids = 0 /\ broken = FALSE

\* mem_cs_create starts the writer, then sets the flag that the writer tests first.
SetFlag == ~running /\ running' = TRUE /\ UNCHANGED <<alg, now, cache, buff, sem, put, writer, getter, pipe, upgraded, puts, ids, broken>>

Tick ==
  /\ now < TimeMax /\ now' = now + 1
  /\ UNCHANGED <<alg, cache, buff, sem, running, put, writer, getter, pipe, upgraded, puts, ids, broken>>

-----------------------------------------------------------------------------
(* The buffers.                                                            *)

\* mem_cache_item_puts.  It tries the buffers in their order and passes over
\* those the writer has locked; what no buffer takes is lost.
Put(batch) ==
  /\ running /\ put.at = "idle" /\ puts < PutMax /\ puts' = puts + 1
  /\ put' = [at |-> "fill", b |-> 1, write |-> FALSE,
             left |-> [i \in DOMAIN batch |-> [batch[i] EXCEPT !.id = ids + i]]]
  /\ ids' = ids + Len(batch)
  /\ UNCHANGED <<alg, now, cache, buff, sem, running, writer, getter, pipe, upgraded, broken>>

\* What a buffer takes
Takes == Min({BufferSize, Len(put.left)})

\* Mutant: the last buffer alone decides whether the writer is told.
FlagOfLast(write, filled) == filled
\* write_f
Flag(write, filled) == write \/ filled

\* A turn of its loop, under the mutex of one buffer, and after the last the semaphore.
Fill ==
  /\ put.at = "fill"
  /\ LET b == put.b
         free == ~(writer.at \in {"write", "done"} /\ writer.b = b)
         n == IF free /\ buff[b] = <<>> THEN Takes ELSE 0
         left == SubSeq(put.left, n + 1, Len(put.left))
         write == Flag(put.write, free /\ buff[b] \o SubSeq(put.left, 1, n) # <<>>) IN
     /\ buff' = [buff EXCEPT ![b] = @ \o SubSeq(put.left, 1, n)]
     /\ IF left = <<>> \/ b = Buffers
        THEN put' = [at |-> "idle", left |-> <<>>, b |-> 1, write |-> FALSE]
             /\ sem' = IF write THEN sem + 1 ELSE sem
        ELSE put' = [put EXCEPT !.b = b + 1, !.left = left, !.write = write] /\ UNCHANGED sem
  /\ UNCHANGED <<alg, now, cache, running, writer, getter, pipe, upgraded, puts, ids, broken>>

WriterStart ==
  /\ writer.at = "start"
  /\ writer' = [writer EXCEPT !.at = IF running THEN "wait" ELSE "gone"]
  /\ UNCHANGED <<alg, now, cache, buff, sem, running, put, getter, pipe, upgraded, puts, ids, broken>>

WriterWake ==
  /\ writer.at = "wait" /\ sem > 0 /\ sem' = sem - 1
  /\ writer' = [writer EXCEPT !.at = "try", !.b = 1]
  /\ UNCHANGED <<alg, now, cache, buff, running, put, getter, pipe, upgraded, puts, ids, broken>>

NextBuffer == [at |-> IF writer.b = Buffers THEN "wait" ELSE "try",
               b |-> IF writer.b = Buffers THEN 1 ELSE writer.b + 1, left |-> <<>>]

\* A buffer that is empty, or that is being filled at the moment, is passed over; else
\* the writer takes mem_cs_mutex for all that is in it.
WriterTry ==
  /\ writer.at = "try"
  /\ \/ writer' = NextBuffer /\ (buff[writer.b] = <<>> \/ (put.at = "fill" /\ put.b = writer.b))
     \/ buff[writer.b] # <<>> /\ writer' = [writer EXCEPT !.at = "write", !.left = buff[writer.b]]
  /\ UNCHANGED <<alg, now, cache, buff, sem, running, put, getter, pipe, upgraded, puts, ids, broken>>

\* The buffer is empty again and unlocked.
WriterDone ==
  /\ writer.at = "done"
  /\ buff' = [buff EXCEPT ![writer.b] = <<>>] /\ writer' = NextBuffer
  /\ UNCHANGED <<alg, now, cache, sem, running, put, getter, pipe, upgraded, puts, ids, broken>>

-----------------------------------------------------------------------------
(* The table.                                                              *)

\* The list q without the keys that are gone
Kept(q, gone) ==
  LET places == {i \in DOMAIN q : q[i] \notin gone}
      nth(n) == CHOOSE i \in places : Cardinality({j \in places : j <= i}) = n IN
  [n \in 1 .. Cardinality(places) |-> q[nth(n)]]
Without(q, k) == Kept(q, {k})
Victims(q) == IF alg = "lfu" THEN Range(q) ELSE {Head(q)}

\* cef_mem_hash_tbl_item_set, cef_mem_hash_tbl_item_remove
With(t, o) == [t EXCEPT ![Key(o)] = o]
Lacking(t, k) == [t EXCEPT ![k] = Nothing]

\* Mutant: the replacement library is not told.
LeavesUntold(c, k, counted) ==
  [table |-> Lacking(c.table, k), order |-> c.order, cobs |-> c.cobs - 1,
   stat |-> IF counted THEN S!Removed(c.stat, k[1], k[2]) ELSE c.stat]
\* The four parts of the cache when an entry leaves: out of the table and of the library,
\* and counted down; with its record (mem_cs_remove) or without.
Leaves(c, k, counted) ==
  [table |-> Lacking(c.table, k), order |-> Without(c.order, k), cobs |-> c.cobs - 1,
   stat |-> IF counted THEN S!Removed(c.stat, k[1], k[2]) ELSE c.stat]

\* mem_cs_store
Enters(c, o) ==
  [table |-> With(c.table, o),
   order |-> IF alg = "None" THEN <<>> ELSE Append(Without(c.order, Key(o)), Key(o)),
   cobs |-> c.cobs + (IF c.table[Key(o)] = Nothing THEN 1 ELSE 0),
   stat |-> S!Versioned(S!Updated(c.stat, o.content, o.chunk, o.expiry), o.content, o.version)]

Here == [table |-> table, order |-> order, cobs |-> cobs, stat |-> stat]
Becomes(c) == table' = c.table /\ order' = c.order /\ cobs' = c.cobs /\ stat' = c.stat

\* A newer version of a chunk came.  If the record is of an older version too, it is
\* deleted, and its copy goes to the deleter.
Replaced(c, o) ==
  IF S!Newer(o.version, c.stat.rcd[o.content].version)
  THEN Enters([c EXCEPT !.stat = S!Deleted(@, o.content)], o) ELSE Enters(c, o)
Told(c, o) ==
  IF S!Newer(o.version, c.stat.rcd[o.content].version)
  THEN /\ pipe' = Append(pipe, [content |-> o.content, version |-> c.stat.rcd[o.content].version,
                                first |-> S!FirstChunk(c.stat, o.content),
                                last |-> S!LastChunk(c.stat, o.content)])
       /\ upgraded' = upgraded \cup {o.content}
  ELSE UNCHANGED <<pipe, upgraded>>

Break == broken' = TRUE /\ UNCHANGED <<cache, pipe, upgraded>>

\* An Object of mem_cache_cob_write with a replacement library.
WriteWithLibrary(o) ==
  LET k == Key(o) IN
  \/ /\ ~Stored(k) /\ UNCHANGED <<pipe, upgraded, broken>>
     /\ \/ cobs < Capacity /\ Becomes(Enters(Here, o))
        \/ cobs >= Capacity /\ \E v \in Victims(order) : Becomes(Enters(Leaves(Here, v, TRUE), o))
  \/ /\ Stored(k) /\ S!Newer(o.version, table[k].version)
     /\ IF S!Current(stat, o.content, now)
        THEN /\ Becomes(Replaced(Leaves(Here, k, FALSE), o)) /\ Told(Here, o)
             /\ UNCHANGED broken
        ELSE Break
  \/ /\ Stored(k) /\ ~S!Newer(o.version, table[k].version)
     /\ UNCHANGED <<cache, pipe, upgraded, broken>>

\* And without one: an Object of the same version takes the place of the old.
WriteWithout(o) ==
  LET k == Key(o)  same == Stored(k) /\ o.version = table[k].version IN
  \/ (cobs >= Capacity \/ (Stored(k) /\ ~same /\ ~S!Newer(o.version, table[k].version)))
     /\ UNCHANGED <<cache, pipe, upgraded, broken>>
  \/ /\ cobs < Capacity /\ ~Stored(k)
     /\ Becomes(Enters(Here, o)) /\ UNCHANGED <<pipe, upgraded, broken>>
  \/ /\ cobs < Capacity /\ same
     /\ Becomes([Here EXCEPT !.table = With(@, o), !.stat = S!Extended(@, o.content, o.expiry)])
     /\ UNCHANGED <<pipe, upgraded, broken>>
  \/ /\ cobs < Capacity /\ Stored(k) /\ S!Newer(o.version, table[k].version)
     /\ IF S!Current(stat, o.content, now)
        THEN Becomes(Replaced(Here, o)) /\ Told(Here, o) /\ UNCHANGED broken
        ELSE Break

Write ==
  /\ writer.at = "write"
  /\ IF writer.left = <<>>
     THEN writer' = [writer EXCEPT !.at = "done"] /\ UNCHANGED <<cache, pipe, upgraded, broken>>
     ELSE LET o == Head(writer.left) IN
          /\ writer' = [writer EXCEPT !.left = Tail(@)]
          /\ IF o.expiry < now THEN UNCHANGED <<cache, pipe, upgraded, broken>>
             ELSE IF alg = "None" THEN WriteWithout(o) ELSE WriteWithLibrary(o)
  /\ UNCHANGED <<alg, now, buff, sem, running, put, getter, puts, ids>>

-----------------------------------------------------------------------------
(* The other threads.                                                      *)

Overdue(o) == o.expiry < now

\* An overdue entry is removed: by mem_cs_expire_check, which finds the mutex
\* free or gives up, or by the get that meets it.
Expire(k) ==
  /\ Unlocked /\ Stored(k) /\ Overdue(table[k])
  /\ Becomes(Leaves(Here, k, TRUE))
  /\ UNCHANGED <<alg, now, buff, sem, running, put, writer, getter, pipe, upgraded, puts, ids, broken>>

\* mem_cache_item_get up to the mutex: the entry, its life and its version.  A request
\* without a version takes any.
GetLook(k, v) ==
  /\ getter.at = "idle" /\ Stored(k) /\ now < table[k].expiry /\ v \in {S!NoVersion, table[k].version}
  /\ getter' = [at |-> "look", key |-> k, id |-> table[k].id]
  /\ UNCHANGED <<alg, now, cache, buff, sem, running, put, writer, pipe, upgraded, puts, ids, broken>>

\* And under it: the hit is noted and the entry is sent, if it is still there to be read.
GetSend ==
  /\ getter.at = "look" /\ Unlocked
  /\ IF Stored(getter.key) /\ table[getter.key].id = getter.id
     THEN /\ order' = IF alg = "lru" THEN Append(Without(order, getter.key), getter.key) ELSE order
          /\ UNCHANGED broken
     ELSE broken' = TRUE /\ UNCHANGED order
  /\ getter' = [at |-> "idle"]
  /\ UNCHANGED <<alg, now, table, stat, cobs, buff, sem, running, put, writer, pipe, upgraded, puts, ids>>

\* mem_cache_delete_thread: the chunks from the first up to, and without, the last that
\* have the old version go.  It reads the version of each, also of one that is missing.
\* The record it gets holds pointers to memory that the writer has freed: what they lead
\* to may be gone.
DeleteOld ==
  /\ pipe # <<>> /\ Unlocked /\ pipe' = Tail(pipe)
  /\ LET d == Head(pipe)
         range == {<<d.content, n>> : n \in d.first .. d.last - 1}
         old == {k \in range \cap Keys : Stored(k) /\ table[k].version = d.version} IN
     \/ /\ \E k \in range : k \notin Keys \/ ~Stored(k)
        /\ broken' = TRUE /\ UNCHANGED cache
     \/ /\ \A k \in range : k \in Keys /\ Stored(k)
        /\ table' = [k \in Keys |-> IF k \in old THEN Nothing ELSE table[k]]
        /\ order' = Kept(order, old)
        /\ cobs' = cobs - Cardinality(old)
        /\ UNCHANGED <<stat, broken>>
     \/ broken' = TRUE /\ UNCHANGED cache
  /\ UNCHANGED <<alg, now, buff, sem, running, put, writer, getter, upgraded, puts, ids>>

WriterStep == WriterStart \/ WriterWake \/ WriterTry \/ Write \/ WriterDone
Next ==
  /\ ~broken
  /\ \/ SetFlag \/ Tick \/ Fill \/ WriterStep \/ GetSend \/ DeleteOld
     \/ \E b \in Batches : Put(b)
     \/ \E k \in Keys : Expire(k) \/ \E v \in Wanted : GetLook(k, v)

Spec == Init /\ [][Next]_vars

\* The threads run; the rest is what others do.
FairSpec == Spec /\ WF_vars(~broken /\ Fill) /\ WF_vars(~broken /\ WriterStep)

-----------------------------------------------------------------------------
TypeOK ==
  /\ alg \in Algorithms /\ now \in 0 .. TimeMax /\ cobs \in 0 .. Capacity
  /\ order \in Seq(Keys) /\ sem \in Nat /\ running \in BOOLEAN /\ broken \in BOOLEAN
  /\ writer.at \in {"start", "gone", "wait", "try", "write", "done"} /\ writer.b \in BufferIds
  /\ put.at \in {"idle", "fill"} /\ put.b \in BufferIds
  /\ \A b \in BufferIds : Len(buff[b]) <= BufferSize
  /\ stat.con \in Nat /\ stat.cob \in Nat

\* Whatever threads wrote, swept and replaced, the count of the cache, its table and the
\* replacement library agree, and there is never more than the capacity.
Agree ==
  LET held == {k \in Keys : Stored(k)} IN
  /\ cobs = Cardinality(held) /\ cobs <= Capacity
  /\ alg # "None" => Range(order) = held /\ Len(order) = Cardinality(held)

\* Until a version of a content is replaced, its record marks the chunks that are cached
\* and no others, and none is forgotten when the last chunk has gone.
Recorded ==
  /\ \A c \in Contents \ upgraded :
       /\ stat.rcd[c].map = {n \in Chunks : Stored(<<c, n>>)}
       /\ stat.rcd[c].is = (stat.rcd[c].map # {})
  /\ stat.con = Cardinality({c \in Contents : stat.rcd[c].is})
  /\ stat.cob >= Cardinality(S!Units(stat)) /\ (upgraded = {} => stat.cob = Cardinality(S!Units(stat)))

\* While an entry is cached, another takes its place only if its version is not older;
\* across the sweep, the deleter and both ways to write.
NeverOlder ==
  [][\A k \in Keys : Stored(k) /\ table'[k] # Nothing /\ table'[k] # table[k]
        => table'[k].version >= table[k].version /\ table'[k].id # table[k].id]_vars

\* What was put into a buffer is written, however puts and the writer's turns fall
\* together: if the writer saw its flag when it started.
Written ==
  (\E b \in BufferIds : buff[b] # <<>>) ~>
     ((\A b \in BufferIds : buff[b] = <<>>) \/ writer.at = "gone" \/ broken)

\* Table, library, count and records agree whenever the mutex is free (mem_cache.c).
Consistent == TypeOK /\ Agree /\ Recorded
=============================================================================
