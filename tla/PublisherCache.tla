---------------------------- MODULE PublisherCache ----------------------------
(***************************************************************************)
(* The cache plugins of conpubd (src/src/conpubd/plugin): memory, a table  *)
(* of Objects by name and chunk, and filesystem, a directory per content   *)
(* with the Objects in pages.  A directory is called after the number of   *)
(* the content's record, which is given again once the record is deleted;  *)
(* the page that was read last stays in memory.  Both keep the records of  *)
(* cef_csmgr_stat.c (ContentStat).                                         *)
(*                                                                         *)
(* Contents are numbered; the memory plugin keeps the Objects of content n *)
(* at place n, the filesystem plugin in the directory where[n].  An Object *)
(* names the content (name), its chunk, and the entry of conpubd's list    *)
(* that it was made for (id).  Time is in seconds: the caches count in     *)
(* microseconds, so that an Object is late in the second of its expiry.    *)
(***************************************************************************)
LOCAL INSTANCE Integers
LOCAL INSTANCE SequencesExt
LOCAL INSTANCE FiniteSetsExt

CONSTANTS
  Names, Chunks,
  Capacity,  \* CONTENTS_CAPACITY
  BuffNum,   \* ConpubC_Buff_Num
  PageCobs,  \* FscC_Page_Cob_Num
  TxCobs     \* FscC_Tx_Cob_Num

Stat == INSTANCE ContentStat WITH Contents <- Names

NoObject == [name |-> 0, chunk |-> 0, ver |-> <<>>, exp |-> 0, id |-> 0]
Nowhere == 0
Places == 1 .. Cardinality(Names)
NoPage == [dir |-> Nowhere, block |-> 0, objects |-> [k \in Chunks |-> NoObject], ver |-> <<>>, old |-> FALSE]
NoWindow == [from |-> 0, num |-> -1]
Empty == [k \in Chunks |-> NoObject]

\* mem_cs_create, fsc_cs_create
NewCache(plugin) ==
  [plugin |-> plugin, objects |-> [p \in Places |-> Empty], stat |-> Stat!NewStat, cobs |-> 0,
   where |-> [n \in Names |-> IF plugin = "memory" THEN n ELSE Nowhere],
   buff |-> <<>>, page |-> NoPage, window |-> [n \in Names |-> NoWindow]]

Late(expiry, now) == now >= expiry
In(c, n, k) == IF c.where[n] = Nowhere THEN NoObject ELSE c.objects[c.where[n]][k]
Held(c) == {<<p, k>> \in Places \X Chunks : c.objects[p][k] # NoObject}

-----------------------------------------------------------------------------
(* The memory plugin.                                                      *)

Sure(c) == [c |-> c, code |-> 0]

\* mem_cache_cob_write, cef_mem_hash_tbl_item_set: a full table refuses even
\* an Object that it has; a late Object is passed over without a word.
MemPut(c, o, now) ==
  IF Late(o.exp, now) THEN Sure(c)
  ELSE IF Cardinality(Held(c)) = Capacity THEN [c |-> c, code |-> -99]
  ELSE Sure([c EXCEPT !.objects[o.name][o.chunk] = o,
                      !.stat = Stat!Updated(@, o.name, o.chunk, o.exp),
                      !.cobs = IF In(c, o.name, o.chunk) = NoObject THEN @ + 1 ELSE @])

\* cef_mem_hash_tbl_item_remove with conpubd_stat_cob_remove
MemRemove(c, n, k) ==
  IF In(c, n, k) = NoObject THEN c
  ELSE [c EXCEPT !.objects[n][k] = NoObject, !.stat = Stat!Removed(@, n, k), !.cobs = @ - 1]

\* mem_content_del: ends at the first chunk that is missing.
MemDelete(c, n, size) ==
  LET missing == {k \in 0 .. size - 1 : In(c, n, k) = NoObject}
      found == IF missing = {} THEN size ELSE Min(missing) IN
  IF ~c.stat.rcd[n].is THEN [c |-> c, code |-> -1]
  ELSE [c |-> FoldLeft(LAMBDA d, i : MemRemove(d, n, i - 1), c, [i \in 1 .. found |-> i]),
        code |-> IF missing = {} THEN 0 ELSE -1]

-----------------------------------------------------------------------------
(* The filesystem plugin.                                                  *)

\* csmgr_stat_content_lookup: the lowest number that no record has
FreePlace(c) == Min(Places \ {c.where[n] : n \in Names})

\* fsc_recursive_dir_clear, conpubd_stat_content_info_delete; the page stays.
FscForget(c, n, counted) ==
  [c EXCEPT !.objects[c.where[n]] = Empty, !.where[n] = Nowhere, !.window[n] = NoWindow,
            !.stat = Stat!Deleted(@, n), !.cobs = @ - counted,
            !.page.old = @ \/ c.page.dir = c.where[n]]

\* fsc_cache_cob_write, one Object: every write counts.
FscWrite(c, o, now) ==
  LET d == IF c.where[o.name] # Nowhere THEN c ELSE [c EXCEPT !.where[o.name] = FreePlace(c)] IN
  IF Late(o.exp, now) \/ c.cobs >= Capacity THEN c
  ELSE [d EXCEPT !.objects[d.where[o.name]][o.chunk] = o, !.cobs = @ + 1,
                 !.stat = Stat!Updated(@, o.name, o.chunk, o.exp)]

FscFlush(c, now) ==
  [FoldLeft(LAMBDA d, o : FscWrite(d, o, now), c, c.buff) EXCEPT !.buff = <<>>]

\* Mutant: the Object that fills the buffer is lost.
FscPutLosing(c, o, now) ==
  Sure(IF Len(c.buff) + 1 = BuffNum THEN FscFlush(c, now) ELSE [c EXCEPT !.buff = Append(@, o)])
\* fsc_cache_item_puts
FscPut(c, o, now) ==
  LET d == [c EXCEPT !.buff = Append(@, o)] IN
  Sure(IF Len(d.buff) = BuffNum THEN FscFlush(d, now) ELSE d)

\* fsc_content_del
FscDelete(c, n, size) ==
  IF ~c.stat.rcd[n].is THEN [c |-> c, code |-> -1] ELSE Sure(FscForget(c, n, size))

Block(k) == k \div PageCobs
\* Mutant: the directory of the page is not looked at.
PagedAnywhere(c, n, k, ver) ==
  IF c.page.dir # Nowhere /\ c.page.block = Block(k) /\ (ver = <<>> \/ ver = c.page.ver) THEN c
  ELSE [c EXCEPT !.page =
          [dir |-> c.where[n], block |-> Block(k), ver |-> ver, old |-> FALSE,
           objects |-> [j \in Chunks |-> IF Block(j) = Block(k) THEN c.objects[c.where[n]][j] ELSE NoObject]]]
\* fsc_cache_item_get: the page that was read last serves, unless it is of
\* another directory or block, or the request names another version than it did.
Paged(c, n, k, ver) ==
  LET p == c.page
      place == c.where[n] IN
  IF p.dir = place /\ p.block = Block(k) /\ (ver = <<>> \/ ver = p.ver) THEN c
  ELSE [c EXCEPT !.page =
          [dir |-> place, block |-> Block(k), ver |-> ver, old |-> FALSE,
           objects |-> [j \in Chunks |-> IF Block(j) = Block(k) THEN c.objects[place][j] ELSE NoObject]]]

Window(c, n, over) == IF over THEN NoWindow ELSE c.window[n]
Resend(w, k) == w.num # -1 /\ k >= w.from /\ k < w.from + w.num

\* What leaves for chunk k: the chunk, and unless it is asked for again within
\* its window, those of its page that follow.
Following(c, n, k) ==
  LET more == {j \in c.stat.rcd[n].map : j > k /\ Block(j) = Block(k)}
      order == SetToSortSeq(more, LAMBDA a, b : a < b) IN
  SubSeq(order, 1, Min({Len(order), TxCobs - 1}))
Burst(c, n, k, again) ==
  SelectSeq(<<k>> \o (IF again THEN <<>> ELSE Following(c, n, k)),
            LAMBDA j : c.page.objects[j] # NoObject)

\* fsc_cache_item_get; over: more than FscC_Sent_Reset_Time has passed
FscGet(c, n, k, ver, now, over) ==
  LET r == c.stat.rcd[n]
      w == Window(c, n, over)
      again == Resend(w, k)
      d == Paged([c EXCEPT !.window[n] = IF again THEN w ELSE [from |-> k, num |-> TxCobs]], n, k, ver)
      sent == Burst(d, n, k, again) IN
  IF ~r.is THEN [c |-> c, sent |-> <<>>]
  ELSE IF r.num = 0 \/ Late(r.expiry, now) THEN [c |-> FscForget(c, n, r.num), sent |-> <<>>]
  ELSE [c |-> d, sent |-> [i \in DOMAIN sent |-> d.page.objects[sent[i]]]]

-----------------------------------------------------------------------------
(* The interface of the plugins.                                           *)

ItemPut(c, o, now) == IF c.plugin = "memory" THEN MemPut(c, o, now) ELSE FscPut(c, o, now)
Flush(c, now) == IF c.plugin = "memory" THEN c ELSE FscFlush(c, now)
ContentDel(c, n, size) == IF c.plugin = "memory" THEN MemDelete(c, n, size) ELSE FscDelete(c, n, size)
=============================================================================
