------------------------------ MODULE LocalCache ------------------------------
(***************************************************************************)
(* The cache inside cefnetd (src/src/lib/cef_mem_cache.c, CS_MODE=1): its  *)
(* table, the FIFO list with its lookup table, the records of contents     *)
(* (mstat), and the threads that share them.  The main task writes Objects *)
(* to a pipe (cef_csmgr_cache_insert) and looks up the names of Interests  *)
(* (cef_csmgr_cache_lookup); the put thread fills the cache; the delete    *)
(* thread removes what a newer version replaced; the clear thread, and     *)
(* threads started on demand, sweep what is overdue.                       *)
(*                                                                         *)
(* cef_mem_cs_mutex makes the steps under it one action each.  Of a node   *)
(* of the list, own says that the lookup table leads to it.  A record of a *)
(* content that was freed but not unlinked stays in its chain, dead; where *)
(* a thread reads what is freed, the model goes no further (broken).       *)
(***************************************************************************)
EXTENDS Integers, SequencesExt, FiniteSetsExt

CONSTANTS
  Names, Chunks,
  Place,     \* the hash of a name in mstat_tbl
  Row,       \* the hash of a key in mem_hash_tbl
  Capacity,  \* cache_cap
  AtOnce,    \* Cef_Mstat_Delete_Cob_AtOnce
  PipeRoom,  \* bound: datagrams that the socket pairs hold
  WriteTries,  \* CefC_PipeWrite_WriteTries
  Feeds,     \* bound: the Objects that come, in their order
  LookupMax, SweepMax, TimeMax  \* bounds: lookups, threads on demand, the clock

Keys == Names \X Chunks
Rows == {Row[k] : k \in Keys}
Places == {Place[n] : n \in Names}
Sweepers == {"clear", "demand"}
NoEntry == [ver |-> -1]
Idle == [at |-> "idle"]

VARIABLES
  now,       \* the clock
  feed,      \* bound: the Objects still to come
  table,     \* mem_hash_tbl
  list,      \* the FIFO list and lookup_table
  stat,      \* mstat_tbl: chains of records
  pipe,      \* cs_stat->pipe_fd
  delPipe,   \* delete_pipe_fd
  main,      \* the main task
  deleter,   \* cef_mem_cache_delete_thread
  sweep,     \* the sweepers: the clear thread and a thread on demand
  due,       \* now > expire_check_time
  checking,  \* cache_cs_expire_check_stat
  lookups, sweeps,  \* bounds: what was done of them
  upgraded,  \* history: names of which a version was replaced
  broken     \* a thread read through a freed pointer

cache == <<table, list, stat>>
lvars == <<now, feed, cache, pipe, delPipe, main, deleter, sweep, due, checking, lookups, sweeps,
           upgraded, broken>>

InitLocal ==
  /\ now = 1 /\ feed \in Feeds
  /\ table = [k \in Keys |-> NoEntry] /\ list = <<>> /\ stat = [p \in Places |-> <<>>]
  /\ pipe = <<>> /\ delPipe = <<>> /\ main = Idle
  /\ deleter = [at |-> "poll", n |-> 0]
  /\ sweep = [s \in Sweepers |-> IF s = "clear" THEN [at |-> "sleep"] ELSE [at |-> "none"]]
  /\ due = FALSE /\ checking = FALSE /\ lookups = 0 /\ sweeps = 0
  /\ upgraded = {} /\ broken = FALSE

Key(o) == <<o.name, o.chunk>>
Held(k) == table[k] # NoEntry
Without(t, keys) == [k \in Keys |-> IF k \in keys THEN NoEntry ELSE t[k]]
\* What the main task holds of the cache outside of the mutex is gone with these keys.
Gone(m, keys) == IF m.at \in {"count", "compare"} /\ m.key \in keys THEN [m EXCEPT !.gone = TRUE] ELSE m

-----------------------------------------------------------------------------
(* The list and the lookup table.                                          *)

Owns(l, k) == {i \in DOMAIN l : l[i].key = k /\ l[i].own}
Unowned(l, k) == [i \in DOMAIN l |-> IF l[i].key = k THEN [l[i] EXCEPT !.own = FALSE] ELSE l[i]]
\* cef_mem_cache_fifo_erase
Erased(l, k) == IF Owns(l, k) = {} THEN l ELSE RemoveAt(l, Min(Owns(l, k)))
\* cef_mem_cache_fifo_store_entry
Enqueued(l, k) == Append(Unowned(l, k), [key |-> k, own |-> TRUE])

(* The records of contents: scans of a chain.                              *)

\* How far a scan of the chain c goes that looks for such a record
Hits(c, name, ver) == {i \in DOMAIN c : c[i].name = name /\ (ver = -1 \/ c[i].ver = ver)}
Reached(c, hits) == IF hits = {} THEN Len(c) ELSE Min(hits)
\* The scan reads a record that is freed.
Trips(c, hits) == \E i \in 1 .. Reached(c, hits) : c[i].dead

OneMore(r, chunk) == [r EXCEPT !.cobs = @ + 1, !.min = Min({@, chunk}), !.max = Max({@, chunk})]

\* cef_mem_cache_mstat_insert: by name, whatever the version
StatInserted(c, o, access) ==
  LET hits == Hits(c, o.name, -1) IN
  IF hits = {} THEN Append(c, [name |-> o.name, ver |-> o.ver, cobs |-> 1, access |-> access,
                               min |-> o.chunk, max |-> o.chunk, dead |-> FALSE])
  ELSE [c EXCEPT ![Min(hits)] = OneMore(@, o.chunk)]

\* What becomes of the chain when its record i goes: behind the head it stays linked,
\* and with the head goes the rest.
Dropped(c, i) == IF i = 1 THEN <<>> ELSE [c EXCEPT ![i].dead = TRUE]

\* cef_mem_cache_mstat_remove
StatRemoved(c, name) ==
  LET hits == Hits(c, name, -1) IN
  IF hits = {} THEN c
  ELSE LET i == Min(hits) IN
       IF c[i].cobs = 1 THEN Dropped(c, i) ELSE [c EXCEPT ![i].cobs = @ - 1]

-----------------------------------------------------------------------------
(* The cache as the steps under the mutex change it: a record of table,    *)
(* list, stat and whether something freed was read.                        *)

Cache == [table |-> table, list |-> list, stat |-> stat, bad |-> FALSE]
Become(c, keys) ==
  /\ table' = c.table /\ list' = c.list /\ stat' = c.stat /\ broken' = c.bad
  /\ main' = Gone(main, keys)

\* A chunk leaves the record of its content ...
RecordCut(c, k) ==
  LET p == Place[k[1]] IN
  [c EXCEPT !.stat[p] = StatRemoved(@, k[1]),
            !.bad = @ \/ Trips(c.stat[p], Hits(c.stat[p], k[1], -1))]

\* ... and its entry the table.
EntryRemoved(c, k) ==
  IF c.table[k] = NoEntry THEN c ELSE [RecordCut(c, k) EXCEPT !.table[k] = NoEntry]

\* cef_mem_cache_fifo_remove_entry of the head: what the lookup table and the table hold
\* under its key goes, whether it is this node's or a newer one's.
Evicted(c) ==
  LET k == c.list[1].key  r == EntryRemoved(c, k) IN [r EXCEPT !.list = Tail(Unowned(@, k))]

IsFull(c) == Len(c.list) = Capacity

\* cef_mem_cache_fifo_insert, then cef_mem_cache_mstat_insert
Inserted(c, o, access) ==
  LET e == IF IsFull(c) THEN Evicted(c) ELSE c
      p == Place[o.name] IN
  [e EXCEPT !.table[Key(o)] = [ver |-> o.ver, rct |-> o.rct, expiry |-> o.expiry],
            !.list = Enqueued(@, Key(o)),
            !.stat[p] = StatInserted(@, o, access),
            !.bad = @ \/ Trips(e.stat[p], Hits(e.stat[p], o.name, -1))]

\* cef_mem_cache_version_compare
Compare(v1, v2) ==
  IF (v1 = 0) # (v2 = 0) THEN "inconsistent"
  ELSE IF v1 = v2 THEN "same" ELSE IF v1 > v2 THEN "first" ELSE "second"

Overdue(e, t) == e.rct < t \/ (e.expiry # 0 /\ e.expiry < t)
\* cef_mem_cache_item_get: at the very end of its life an entry is neither served nor swept.
Fresh(e, t) == (e.expiry = 0 \/ t < e.expiry) /\ t < e.rct

-----------------------------------------------------------------------------
(* The main task.                                                          *)

\* cef_csmgr_excache_item_put for the next Object: without a life left it is not cached.
Come ==
  /\ main = Idle /\ feed # <<>> /\ feed' = Tail(feed)
  /\ main' = IF Head(feed).expiry > 0 THEN [at |-> "write", o |-> Head(feed), tries |-> 0] ELSE Idle
  /\ UNCHANGED <<now, cache, pipe, delPipe, deleter, sweep, due, checking, lookups, sweeps, upgraded, broken>>

\* cef_csmgr_cache_insert: the whole message, or nothing and a wait before the next try
WritePipe ==
  /\ main.at = "write"
  /\ IF Len(pipe) < PipeRoom THEN pipe' = Append(pipe, main.o) /\ main' = Idle
     ELSE /\ UNCHANGED pipe
          /\ main' = IF main.tries + 1 = WriteTries THEN Idle ELSE [main EXCEPT !.tries = @ + 1]
  /\ UNCHANGED <<now, feed, cache, delPipe, deleter, sweep, due, checking, lookups, sweeps, upgraded, broken>>

\* cef_csmgr_cache_lookup: cef_mem_cache_item_get gives an entry and leaves the mutex; one
\* that is overdue starts a thread that sweeps.
Lookup(k) ==
  /\ main = Idle /\ lookups < LookupMax /\ lookups' = lookups + 1
  /\ IF Held(k) /\ Fresh(table[k], now)
     THEN /\ main' = [at |-> "count", key |-> k, ver |-> table[k].ver, gone |-> FALSE]
          /\ UNCHANGED <<sweep, sweeps>>
     ELSE /\ UNCHANGED main
          /\ IF Held(k) /\ sweep["demand"].at = "none" /\ sweeps < SweepMax
             THEN sweep' = [sweep EXCEPT !["demand"] = [at |-> "check"]] /\ sweeps' = sweeps + 1
             ELSE UNCHANGED <<sweep, sweeps>>
  /\ UNCHANGED <<now, feed, cache, pipe, delPipe, deleter, due, checking, upgraded, broken>>

\* cef_mem_cache_mstat_ac_cnt_inc, without the mutex
Count ==
  /\ main.at = "count"
  /\ LET p == Place[main.key[1]]  hits == Hits(stat[p], main.key[1], main.ver) IN
     /\ broken' = (main.gone \/ Trips(stat[p], hits))
     /\ stat' = IF broken' \/ hits = {} THEN stat ELSE [stat EXCEPT ![p][Min(hits)].access = @ + 1]
  /\ main' = [main EXCEPT !.at = "compare"]
  /\ UNCHANGED <<now, feed, table, list, pipe, delPipe, deleter, sweep, due, checking, lookups, sweeps, upgraded>>

\* The caller compares the times and the version of the entry it was given.
CompareEntry ==
  /\ main.at = "compare" /\ broken' = main.gone /\ main' = Idle
  /\ UNCHANGED <<now, feed, cache, pipe, delPipe, deleter, sweep, due, checking, lookups, sweeps, upgraded>>

\* cef_csmgr_locache_info_get for a name without a chunk: cef_mem_cache_mstat_get, without
\* the mutex
Info(n) ==
  /\ main = Idle /\ lookups < LookupMax /\ lookups' = lookups + 1
  /\ broken' = Trips(stat[Place[n]], Hits(stat[Place[n]], n, -1))
  /\ UNCHANGED <<now, feed, cache, pipe, delPipe, main, deleter, sweep, sweeps, due, checking, upgraded>>

-----------------------------------------------------------------------------
(* The put thread and the delete thread.                                   *)

\* What cef_mem_cache_cob_write makes of an Object whose key is cached
Verdict(e, o) ==
  CASE Compare(e.ver, o.ver) = "inconsistent" -> "inconsistent"
    [] Compare(e.ver, o.ver) = "first" -> "old"
    [] Compare(e.ver, o.ver) = "same" -> "same"
    [] OTHER -> "newer"

\* The cache without the entry of a key, and without the record of its version, if any
Vacated(k, p, hits) ==
  [Cache EXCEPT !.table[k] = NoEntry, !.list = Erased(@, k),
                !.stat[p] = IF hits = {} THEN @ ELSE IF Min(hits) = 1 THEN <<>>
                            ELSE [@ EXCEPT ![Min(hits)].dead = TRUE],
                !.bad = Trips(stat[p], hits)]

\* A newer version takes the place of an entry: the record of its version is taken out of
\* the chain and sent to the delete thread, unless the pipe is full.
Replace(o) ==
  LET k == Key(o)  p == Place[o.name]  old == table[k]
      hits == Hits(stat[p], o.name, old.ver)
      taken == hits # {}
      r == stat[p][Min(hits)]
      new == Inserted(Vacated(k, p, hits), o, IF taken THEN r.access ELSE 0) IN
  /\ Become(new, {k} \cup {j \in Keys : Held(j) /\ new.table[j] = NoEntry})
  /\ delPipe' = IF taken /\ Len(delPipe) < PipeRoom
                THEN Append(delPipe, [name |-> o.name, ver |-> r.ver, min |-> r.min, max |-> r.max])
                ELSE delPipe
  /\ upgraded' = upgraded \cup {o.name}

\* cef_mem_cache_put_thread: the next Object, cef_mem_cache_cob_write
PutOne ==
  /\ pipe # <<>> /\ pipe' = Tail(pipe)
  /\ LET o == Head(pipe)  k == Key(o) IN
     IF o.expiry < now THEN UNCHANGED <<cache, main, delPipe, upgraded, broken>>
     ELSE IF ~Held(k)
     THEN LET new == Inserted(Cache, o, 0) IN
          /\ Become(new, {j \in Keys : Held(j) /\ new.table[j] = NoEntry})
          /\ UNCHANGED <<delPipe, upgraded>>
     ELSE CASE Verdict(table[k], o) = "same" ->
                 /\ table' = [table EXCEPT ![k].rct = o.rct, ![k].expiry = o.expiry]
                 /\ UNCHANGED <<list, stat, main, delPipe, upgraded, broken>>
            [] Verdict(table[k], o) = "newer" -> Replace(o)
            [] OTHER -> UNCHANGED <<cache, main, delPipe, upgraded, broken>>
  /\ UNCHANGED <<now, feed, deleter, sweep, due, checking, lookups, sweeps>>

DeleterTake ==
  /\ deleter.at = "poll" /\ delPipe # <<>> /\ delPipe' = Tail(delPipe)
  /\ deleter' = [at |-> "delete", n |-> deleter.n, seq |-> Head(delPipe).min, of |-> Head(delPipe)]
  /\ UNCHANGED <<now, feed, cache, pipe, main, sweep, due, checking, lookups, sweeps, upgraded, broken>>

\* Mutant: the lookup table keeps what the delete thread removed.
LeavesLookup(l, keys) == l
\* cef_lhash_tbl_item_remove for each; the nodes stay in the list.
Unlooked(l, keys) == [i \in DOMAIN l |-> IF l[i].key \in keys THEN [l[i] EXCEPT !.own = FALSE] ELSE l[i]]

\* The chunks up to the one at which the thread gives the mutex away; max_seq is deleted
\* too, and del_count runs on from record to record.
DeleterStep ==
  /\ deleter.at = "delete"
  /\ LET of == deleter.of
         n == IF deleter.n >= AtOnce THEN 0 ELSE deleter.n
         last == Min({of.max, deleter.seq + AtOnce - n - 1})
         keys == {k \in Keys : k[1] = of.name /\ k[2] \in deleter.seq .. last
                               /\ Held(k) /\ table[k].ver = of.ver} IN
     /\ table' = Without(table, keys)
     /\ list' = Unlooked(list, keys) /\ main' = Gone(main, keys)
     /\ deleter' = LET done == n + last - deleter.seq + 1 IN
                   IF last = of.max THEN [at |-> "poll", n |-> done]
                   ELSE [deleter EXCEPT !.n = done, !.seq = last + 1]
  /\ UNCHANGED <<now, feed, stat, pipe, delPipe, sweep, due, checking, lookups, sweeps, upgraded, broken>>

-----------------------------------------------------------------------------
(* The sweeps.                                                             *)

\* Time passes, on and on for the clear thread
Tick ==
  /\ now < TimeMax \/ ~due
  /\ now' = Min({TimeMax, now + 1}) /\ due' = TRUE
  /\ UNCHANGED <<feed, cache, pipe, delPipe, main, deleter, sweep, checking, lookups, sweeps, upgraded, broken>>

\* The clear thread wakes up: its interval is over or not.
Wake ==
  /\ due /\ sweep["clear"].at = "sleep"
  /\ due' = FALSE /\ sweep' = [sweep EXCEPT !["clear"] = [at |-> "check"]]
  /\ UNCHANGED <<now, feed, cache, pipe, delPipe, main, deleter, checking, lookups, sweeps, upgraded, broken>>

Rest(s) == IF s = "clear" THEN [at |-> "sleep"] ELSE [at |-> "none"]

\* The flag is tested, and set in a step of its own.
CheckFlag(s) ==
  /\ sweep[s].at = "check"
  /\ sweep' = [sweep EXCEPT ![s] = IF checking THEN Rest(s) ELSE [at |-> "set"]]
  /\ UNCHANGED <<now, feed, cache, pipe, delPipe, main, deleter, due, checking, lookups, sweeps, upgraded, broken>>

SetFlag(s) ==
  /\ sweep[s].at = "set" /\ checking' = TRUE
  /\ sweep' = [sweep EXCEPT ![s] = [at |-> "row", row |-> Min(Rows), t |-> now]]
  /\ UNCHANGED <<now, feed, cache, pipe, delPipe, main, deleter, due, lookups, sweeps, upgraded, broken>>

\* What the sweep removes besides the entry, from the list and the record
Swept(c, k) == [RecordCut(c, k) EXCEPT !.list = Erased(@, k)]
AllSwept(keys) == FoldSet(LAMBDA k, c : Swept(c, k), Cache, keys)

\* Mutant: the flag is left set.
LeftSet == TRUE
\* cache_cs_expire_check_stat when a sweep is over
AfterSweep == FALSE

\* One bucket of the table under the mutex
SweepRow(s) ==
  /\ sweep[s].at = "row"
  /\ LET r == sweep[s].row
         old == {k \in Keys : Row[k] = r /\ Held(k) /\ Overdue(table[k], sweep[s].t)} IN
     /\ table' = Without(table, old) /\ main' = Gone(main, old)
     /\ LET rest == AllSwept(old) IN
        list' = rest.list /\ stat' = rest.stat /\ broken' = rest.bad
     /\ IF r = Max(Rows)
        THEN sweep' = [sweep EXCEPT ![s] = Rest(s)] /\ checking' = AfterSweep
        ELSE sweep' = [sweep EXCEPT ![s].row = Min({q \in Rows : q > r})] /\ UNCHANGED checking
  /\ UNCHANGED <<now, feed, pipe, delPipe, deleter, due, lookups, sweeps, upgraded>>
=============================================================================
