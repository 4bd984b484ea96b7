------------------------------- MODULE Conpubd -------------------------------
(***************************************************************************)
(* The content publisher conpubd (src/src/conpubd/conpubd/conpubd.c).  A   *)
(* load thread reads the definitions, drops what changed and publishes     *)
(* what is new: it fills the cache, registers the name at cefnetd, and     *)
(* then puts the content in the list.  The expiry thread drops what is     *)
(* overdue.  The main task connects to cefnetd and registers the list,     *)
(* takes orders from tools, and answers the Interests that cefnetd sends.  *)
(* conpub_cnt_mutex is taken by the threads, and by the main task only to  *)
(* drop a content that it finds overdue: it walks the list without it.     *)
(*                                                                         *)
(* A content is an entry with a number (id); an entry that was freed stays *)
(* known as such.  Where a task reads through a pointer to it, or a thread *)
(* goes on after the daemon ended, the model goes no further (broken).  An *)
(* Interest is two pieces of the stream from cefnetd.  cefnetd itself is   *)
(* what conpubd sees of it: app_reg, by the number of the connection.      *)
(***************************************************************************)
EXTENDS Integers, SequencesExt, FiniteSetsExt

CONSTANTS
  Names, Chunks, Capacity, BuffNum, PageCobs, TxCobs,  \* of PublisherCache
  LastDay, MaxPending,                                 \* of Definitions
  ContentsNum,  \* CONTENTS_NUM
  MaxSlot,      \* ConpubdC_Max_Sock_Num - 1
  Room,         \* CefC_CsPipeBuffSize, in pieces
  Scenarios,    \* bound: the definitions in their order, peers, Interests, faults, the clock
  MaxLoad, MaxId, MaxLink  \* bounds: loads, entries, connections to cefnetd

Cache == INSTANCE PublisherCache
Def == INSTANCE Definitions

Loads == 1 .. MaxLoad
Ids == 1 .. MaxId
NoItem == [name |-> 0, ver |-> <<>>, exp |-> 0, size |-> 0, path |-> "", at |-> "none", reg |-> 0]
NoAsk == [name |-> 0, chunk |-> 0, ver |-> <<>>]

ASSUME ConpubdAssumption ==
  /\ Names = 1 .. Cardinality(Names) /\ Chunks \subseteq Nat /\ TxCobs \in Nat \ {0}
  /\ {MaxSlot, Room, BuffNum, PageCobs, Capacity, ContentsNum} \subseteq Nat \ {0}
  /\ \A s \in Scenarios : s.plugin \in {"memory", "filesystem"} /\ s.files # <<>>
       /\ Cardinality({k \in DOMAIN s.tools : s.tools[k] = "reload"}) < MaxLoad

VARIABLES
  running,    \* conpubd_running_f
  now, left,  \* the clock; bound: what the scenario still allows
  files,      \* conpubcont.def, and what it will be
  item, list, \* the entries; Cpubcnthdl
  published,  \* published_contents_num
  cache,      \* the plugin
  lock,       \* conpub_cnt_mutex
  loading,    \* conpubd_cntent_load_stat
  load,       \* the load threads
  expiry,     \* the expiry thread
  main,       \* the main task
  link,       \* cefnetd_sock: number, state, whether a slot polls it, bytes kept in tcp_buff
  in,         \* the stream from cefnetd
  net,        \* cefnetd: up, app_reg
  tools,      \* the peers that bring orders
  heard,      \* the Interests that were answered
  top,        \* history: the version a name was last published with since it left the definitions
  odd,        \* history: "second", an Object was missed or lost in the second of its expiry;
              \* "leaked", entries were cut off the list
  slipped,    \* history: names whose registration missed, or outlived, the list
  broken      \* why the model goes no further

contents == <<item, list, published, cache>>
threads == <<lock, loading, load, expiry>>
wire == <<link, in>>
others == <<now, left, files, tools, heard>>
world == <<others, net>>
notes == <<top, odd, slipped>>
vars == <<running, contents, threads, main, wire, world, notes, broken>>

Idle == [pc |-> "none", cut |-> <<>>, new |-> <<>>, chunk |-> 0]
Poll == [pc |-> "poll", at |-> 0, before |-> 0, req |-> NoAsk, again |-> FALSE,
         object |-> Cache!NoObject, sent |-> <<>>]

Init ==
  \E s \in Scenarios :
    /\ running = TRUE /\ now = 0
    /\ left = [time |-> s.time, restarts |-> s.restarts, splits |-> s.splits, busy |-> s.busy,
               asks |-> s.asks, target |-> s.target]
    /\ files = s.files /\ item = [i \in Ids |-> NoItem] /\ list = <<>> /\ published = 0
    /\ cache = Cache!NewCache(s.plugin) /\ lock = "free" /\ loading = FALSE
    /\ load = [i \in Loads |-> IF i = 1 THEN [Idle EXCEPT !.pc = "wait"] ELSE Idle]
    /\ expiry = [pc |-> "sleep", due |-> FALSE] /\ main = Poll
    /\ link = [num |-> 0, at |-> "none", slot |-> FALSE, rest |-> <<>>] /\ in = <<>>
    /\ net = [up |-> TRUE, reg |-> {}]
    /\ tools = [k \in DOMAIN s.tools |-> [asks |-> s.tools[k], at |-> "off", says |-> <<>>]]
    /\ heard = {} /\ top = [n \in Names |-> <<>>] /\ odd = {} /\ slipped = {} /\ broken = "no"

-----------------------------------------------------------------------------
(* Entries, their Objects and their registration.                          *)

Sock == link.at # "none"
Up == link.at = "up"
\* cef_client_prefix_reg on cefnetd_sock, whatever became of the connection
Register(names) == net' = [net EXCEPT !.reg = IF Up THEN @ \cup names ELSE @]
Deregister(names) == net' = [net EXCEPT !.reg = IF Up THEN @ \ names ELSE @]
ObjectOf(i, k) == [name |-> item[i].name, chunk |-> k, ver |-> item[i].ver, exp |-> item[i].exp, id |-> i]

\* conpubd_publish_content_delete and free: what the cache cannot delete stops
\* the daemon.
Delete(i) ==
  LET del == Cache!ContentDel(cache, item[i].name, item[i].size) IN
  /\ published' = published - 1 /\ cache' = del.c /\ Deregister({item[i].name})
  /\ running' = (running /\ del.code >= 0)
  /\ item' = [item EXCEPT ![i].at = "freed"]
  /\ slipped' = IF Up THEN slipped ELSE slipped \cup {item[i].name}

Place(seq, i) == SelectInSeq(seq, LAMBDA j : j = i)
From(seq, i) == SubSeq(seq, Place(seq, i) + 1, Len(seq))
\* What an entry's next pointer leads to: an entry that a load cut off the list
\* leads to what it cut next.
NextId(i) ==
  LET rests == {From(s, i) : s \in {q \in {list} \cup {load[t].cut : t \in Loads} : Contains(q, i)}}
      rest == IF rests = {} THEN <<>> ELSE CHOOSE r \in rests : TRUE IN
  IF rest = <<>> THEN 0 ELSE Head(rest)
FirstId == IF list = <<>> THEN 0 ELSE list[1]

-----------------------------------------------------------------------------
(* The load threads: conpubd_content_load_thread.                          *)

At(t, pc) == load[t].pc = pc /\ broken = "no"
\* A load that goes on after the daemon ended uses what was freed.
Late(t) ==
  /\ load[t].pc \notin {"none", "done"} /\ main.pc = "ended" /\ broken = "no"
  /\ broken' = "load" /\ UNCHANGED <<running, contents, threads, main, wire, world, notes>>

Definition == Head(files)
\* Nothing is read when the file is missing, or the daemon is to stop.
ReadNow == IF running /\ Definition.there THEN Def!Read(Definition.lines, now) ELSE <<>>
FreeIds == {i \in Ids : item[i].at = "none"}
\* Of the list, what stays; the rest is cut off, and of the definitions what is new gets entries.
Take(t) ==
  LET read == ReadNow
      stay(i) == Def!Kept(item[i], read)
      new == SelectSeq(read, LAMBDA e : Def!Fresh(e, {item[i] : i \in ToSet(list)}))
      id(k) == Min(FreeIds) + k - 1
      ids == [k \in DOMAIN new |-> id(k)] IN
  /\ At(t, "wait") /\ lock = "free" /\ main.pc # "ended" /\ Cardinality(FreeIds) >= Len(new)
  /\ lock' = "load" /\ loading' = TRUE
  /\ load' = [load EXCEPT ![t] = [Idle EXCEPT !.pc = "drop", !.new = ids,
                                              !.cut = SelectSeq(list, LAMBDA i : ~stay(i))]]
  /\ item' = [i \in Ids |->
                IF i \in Range(ids) THEN new[Place(ids, i)] @@ [at |-> "new", reg |-> 0]
                ELSE IF Contains(list, i) /\ ~stay(i) THEN [item[i] EXCEPT !.at = "cut"] ELSE item[i]]
  /\ list' = SelectSeq(list, stay)
  /\ top' = [n \in Names |-> IF Def!Defined(read, n) THEN top[n] ELSE <<>>]
  /\ UNCHANGED <<running, published, cache, expiry, main, wire, world, odd, slipped, broken>>

Drop(t) ==
  /\ At(t, "drop") /\ main.pc # "ended"
  /\ IF load[t].cut = <<>>
     THEN /\ load' = [load EXCEPT ![t].pc = "make"]
          /\ UNCHANGED <<running, item, published, cache, net, slipped>>
     ELSE /\ load' = [load EXCEPT ![t].cut = Tail(@)]
          /\ Delete(Head(load[t].cut))
  /\ UNCHANGED <<list, lock, loading, expiry, main, wire, others, top, odd, broken>>

\* conpubd_publish_content_create: what is looked at before the first Object.
\* The room that is left is counted without sign.
Fits(size) == cache.cobs > Capacity \/ Capacity - cache.cobs >= size
Refused(i) == published >= ContentsNum \/ ~Fits(item[i].size) \/ item[i].path = "gone"
Scarce(i) == item[i].path = "scarce" /\ item[i].size > 0

\* Mutant: the entry stays the next one.
SkipStays(t) ==
  /\ load' = [load EXCEPT ![t] = [@ EXCEPT !.pc = "make", !.chunk = 0]]
  /\ item' = [item EXCEPT ![Head(load[t].new)].at = "freed"]
Skip(t) ==
  /\ load' = [load EXCEPT ![t] = [@ EXCEPT !.pc = "make", !.new = Tail(@), !.chunk = 0]]
  /\ item' = [item EXCEPT ![Head(load[t].new)].at = "freed"]

\* The next new entry, or the end.  A daemon that is to stop publishes nothing
\* more, yet puts the entries in the list.
Make(t) ==
  /\ At(t, "make") /\ main.pc # "ended"
  /\ IF load[t].new = <<>>
     THEN /\ load' = [load EXCEPT ![t].pc = "done"] /\ loading' = FALSE /\ lock' = "free"
          /\ UNCHANGED <<item, list>>
     ELSE LET i == Head(load[t].new) IN
          /\ UNCHANGED <<loading, lock>>
          /\ IF ~running THEN
                /\ load' = [load EXCEPT ![t].new = Tail(@)]
                /\ item' = [item EXCEPT ![i].at = "listed"] /\ list' = <<i>> \o list
             ELSE IF Refused(i) THEN Skip(t) /\ UNCHANGED list
             ELSE load' = [load EXCEPT ![t].pc = "put", ![t].chunk = 0] /\ UNCHANGED <<item, list>>
  /\ UNCHANGED <<running, published, cache, expiry, main, wire, world, notes, broken>>

\* One Object: a failure to read or to keep it stops the daemon; what was put stays.
Put(t) ==
  LET i == Head(load[t].new)
      k == load[t].chunk
      put == Cache!ItemPut(cache, ObjectOf(i, k), now)
      fails == running /\ (item[i].path = "bad" \/ (k < item[i].size /\ put.code < 0)) IN
  /\ At(t, "put") /\ main.pc # "ended"
  /\ IF ~running \/ (k = item[i].size /\ ~fails) THEN
        /\ load' = [load EXCEPT ![t].pc = "register"] /\ cache' = Cache!Flush(cache, now)
        /\ UNCHANGED <<running, item>>
     ELSE IF Scarce(i) THEN Skip(t) /\ UNCHANGED <<running, cache>>
     ELSE IF fails THEN
        /\ running' = FALSE /\ cache' = Cache!Flush(cache, now) /\ Skip(t)
     ELSE /\ cache' = put.c /\ load' = [load EXCEPT ![t].chunk = @ + 1] /\ UNCHANGED <<running, item>>
  /\ odd' = IF item[i].exp <= now THEN odd \cup {"second"} ELSE odd
  /\ UNCHANGED <<list, published, lock, loading, expiry, main, wire, world, top, slipped, broken>>

Announce(t) ==
  LET i == Head(load[t].new) IN
  /\ At(t, "register") /\ main.pc # "ended"
  /\ Register({item[i].name}) /\ published' = published + 1
  /\ item' = [item EXCEPT ![i].reg = IF Up THEN link.num ELSE 0]
  /\ load' = [load EXCEPT ![t].pc = "link"]
  /\ UNCHANGED <<running, list, cache, lock, loading, expiry, main, wire, others, notes, broken>>

Link(t) ==
  LET i == Head(load[t].new) IN
  /\ At(t, "link") /\ main.pc # "ended"
  /\ list' = <<i>> \o list
  /\ item' = [item EXCEPT ![i].at = "listed"]
  /\ load' = [load EXCEPT ![t] = [@ EXCEPT !.pc = "make", !.new = Tail(@)]]
  /\ top' = [top EXCEPT ![item[i].name] = item[i].ver]
  /\ slipped' = IF Sock /\ item[i].reg # link.num THEN slipped \cup {item[i].name} ELSE slipped
  /\ UNCHANGED <<running, published, cache, lock, loading, expiry, main, wire, world, odd, broken>>

LoadStep(t) == Take(t) \/ Drop(t) \/ Make(t) \/ Put(t) \/ Announce(t) \/ Link(t) \/ Late(t)

-----------------------------------------------------------------------------
(* The expiry thread: conpubd_expire_check_thread.                         *)

Overdue(i) == item[i].exp < now
ExpiryTakes ==
  /\ expiry.pc = "sleep" /\ expiry.due /\ running /\ lock = "free" /\ broken = "no"
  /\ lock' = "expiry" /\ expiry' = [pc |-> "scan", due |-> FALSE]
  /\ UNCHANGED <<running, contents, loading, load, main, wire, world, notes, broken>>

ExpiryScans ==
  /\ expiry.pc = "scan" /\ broken = "no"
  /\ IF \E i \in ToSet(list) : Overdue(i)
     THEN LET i == list[SelectInSeq(list, Overdue)] IN
          /\ Delete(i) /\ list' = Remove(list, i) /\ UNCHANGED <<lock, expiry>>
     ELSE /\ lock' = "free" /\ expiry' = [expiry EXCEPT !.pc = "sleep"]
          /\ UNCHANGED <<running, item, list, published, cache, net, slipped>>
  /\ UNCHANGED <<loading, load, main, wire, others, top, odd, broken>>

ExpiryEnds ==
  /\ expiry.pc = "sleep" /\ ~running /\ broken = "no"
  /\ expiry' = [expiry EXCEPT !.pc = "done"]
  /\ UNCHANGED <<running, contents, lock, loading, load, main, wire, world, notes, broken>>

ExpiryStep == ExpiryTakes \/ ExpiryScans \/ ExpiryEnds
-----------------------------------------------------------------------------
(* The main task: the connection to cefnetd.                               *)

Main(pc) == main.pc = pc /\ broken = "no"
Ready == Main("poll") /\ running
SlotsUsed == left.busy + Cardinality({k \in DOMAIN tools : tools[k].at \in {"up", "told"}})
             + (IF Sock /\ link.slot THEN 1 ELSE 0)
FreeSlot == SlotsUsed < MaxSlot

\* conpubd_connect_conpubd_and_regApp: without a free slot the connection is
\* made all the same, and nobody polls it.
Connect ==
  /\ Ready /\ ~Sock /\ net.up /\ link.num < MaxLink
  /\ link' = [num |-> link.num + 1, at |-> "up", slot |-> FreeSlot, rest |-> <<>>]
  /\ main' = [main EXCEPT !.pc = "register", !.at = FirstId]
  /\ UNCHANGED <<running, contents, threads, in, world, notes, broken>>

\* The list is walked along its pointers without the mutex.
Registering ==
  /\ Main("register")
  /\ IF main.at = 0 THEN
        main' = [main EXCEPT !.pc = "poll"] /\ UNCHANGED <<item, net, slipped, broken>>
     ELSE IF item[main.at].at = "freed" THEN
        broken' = "register" /\ UNCHANGED <<item, main, net, slipped>>
     ELSE /\ Register({item[main.at].name})
          /\ item' = [item EXCEPT ![main.at].reg = link.num]
          /\ slipped' = IF Contains(list, main.at) THEN slipped ELSE slipped \cup {item[main.at].name}
          /\ main' = [main EXCEPT !.at = NextId(main.at)] /\ UNCHANGED broken
  /\ UNCHANGED <<running, list, published, cache, threads, wire, others, top, odd>>

\* What arrives is appended to the bytes that are kept; where no room is left,
\* recv has the same answer as for a connection that was closed.
RoomLeft == Room - Len(link.rest)
Pieces(n) == n \in 0 .. Len(in) /\ n <= RoomLeft
All(n) == n = Len(in) \/ n = RoomLeft
Receive(n) ==
  /\ Ready /\ Up /\ link.slot /\ in # <<>> /\ RoomLeft > 0
  /\ n > 0 /\ Pieces(n) /\ (All(n) \/ left.splits > 0)
  /\ left' = IF All(n) THEN left ELSE [left EXCEPT !.splits = @ - 1]
  /\ link' = [link EXCEPT !.rest = @ \o SubSeq(in, 1, n)]
  /\ in' = SubSeq(in, n + 1, Len(in))
  /\ main' = [main EXCEPT !.pc = "handle", !.again = FALSE]
  /\ UNCHANGED <<running, contents, threads, now, files, net, tools, heard, notes, broken>>

\* recv gives 0, or poll an error: the connection, or the room, has come to its
\* end.  cefnetd keeps the names, for a face that a new connection revives.
CloseLink ==
  /\ Ready /\ link.slot /\ (link.at = "broken" \/ (Up /\ in # <<>> /\ RoomLeft = 0))
  /\ link' = [link EXCEPT !.at = "none", !.slot = FALSE, !.rest = <<>>]
  /\ in' = <<>>
  /\ UNCHANGED <<running, contents, threads, main, world, notes, broken>>

-----------------------------------------------------------------------------
(* The main task: Interests.                                               *)

\* cef_client_request_get_with_info: an Interest that is whole, what stands before
\* it counted as its own.
Begin(rest) == SelectInSeq(rest, LAMBDA p : p.part = 1)
Whole(rest) == Begin(rest) # 0 /\ Len(rest) > Begin(rest)
Parsed(rest) == rest[Begin(rest)].ask
\* When nothing whole is found the bytes are dropped, and what the last one left
\* behind is taken for the request: for sure if it came with the same bytes.
Requests == IF Whole(link.rest) THEN {Parsed(link.rest)}
            ELSE IF main.again THEN {main.req} ELSE {main.req, NoAsk}
Remaining == IF Whole(link.rest) THEN SubSeq(link.rest, 3, Len(link.rest)) ELSE <<>>

\* an Interest with the version field, and nothing in it
Discovery(req) == req.ver = <<0>>
Entries(name) == SelectSeq(list, LAMBDA i : item[i].name = name)
Before(i) == IF Place(list, i) = 1 THEN 0 ELSE list[Place(list, i) - 1]
Matches(i, req) == req.ver = <<>> \/ req.ver = item[i].ver
VersionOf(i) == [name |-> item[i].name, ver |-> item[i].ver]
\* What is sent answers an Interest for the chunk and its version, or for any.
Answers(o, a) == o.name = a.name /\ o.chunk = a.chunk /\ (a.ver = <<>> \/ a.ver = o.ver)
Hears(os) == heard' = IF Up THEN heard \cup {a \in left.asks : \E o \in ToSet(os) : Answers(o, a)} ELSE heard
HearsVersion(i) == heard' = IF Up THEN heard \cup {a \in left.asks : Discovery(a) /\ a.name = item[i].name}
                            ELSE heard

\* A request, and the entry of the list that it finds.  Where there is no answer
\* the bytes that are kept wait until others come.
Handle ==
  \E req \in Requests :
    LET found == IF req = NoAsk THEN <<>> ELSE Entries(req.name)
        i == IF found = <<>> THEN 0 ELSE found[1]
        overdue == i # 0 /\ now > item[i].exp
        next == IF i = 0 THEN "poll" ELSE IF overdue THEN "purge"
                ELSE IF Discovery(req) \/ ~Matches(i, req) THEN "poll" ELSE "get" IN
    /\ Main("handle")
    /\ link' = [link EXCEPT !.rest = Remaining]
    /\ IF i # 0 /\ ~overdue /\ Discovery(req) THEN HearsVersion(i) ELSE UNCHANGED heard
    /\ main' = [main EXCEPT !.pc = next, !.req = IF req = NoAsk THEN @ ELSE req, !.again = TRUE, !.sent = <<>>,
                            !.at = IF next = "poll" THEN 0 ELSE i,
                            !.before = IF next = "purge" THEN Before(i) ELSE 0]
    /\ UNCHANGED <<running, contents, threads, in, now, left, files, tools, net, notes, broken>>

\* conpubd_content_reg_check drops what is overdue: the entry and the one before it
\* were found without the mutex.
Purge ==
  /\ Main("purge") /\ lock = "free"
  /\ IF item[main.at].at = "freed" \/ (main.before # 0 /\ item[main.before].at = "freed") THEN
        broken' = "purge" /\ UNCHANGED <<running, contents, main, net, odd, slipped>>
     ELSE LET kept == SubSeq(list, 1, IF main.before = 0 THEN 0 ELSE Place(list, main.before)) IN
          /\ Delete(main.at) /\ list' = kept \o From(list, main.at)
          /\ odd' = IF Len(list') < Len(list) - 1 THEN odd \cup {"leaked"} ELSE odd
          /\ main' = [main EXCEPT !.pc = "poll"] /\ UNCHANGED broken
  /\ UNCHANGED <<threads, wire, others, top>>

\* do ... while: the next request, if bytes are left.
Onward == IF link.rest = <<>> THEN "poll" ELSE "handle"

\* mem_cache_item_get: found without the mutex, sent without it as well.
MemGet ==
  LET o == Cache!In(cache, main.req.name, main.req.chunk) IN
  /\ Main("get") /\ cache.plugin = "memory"
  /\ IF o # Cache!NoObject /\ ~Cache!Late(o.exp, now)
     THEN main' = [main EXCEPT !.pc = "send", !.object = o] /\ UNCHANGED <<cache, odd>>
     ELSE /\ main' = [main EXCEPT !.pc = Onward]
          /\ cache' = Cache!MemRemove(cache, main.req.name, main.req.chunk)
          /\ odd' = IF o = Cache!NoObject THEN odd ELSE odd \cup {"second"}
  /\ UNCHANGED <<running, item, list, published, threads, wire, world, top, slipped, broken>>

Send ==
  LET o == main.object IN
  /\ Main("send")
  /\ IF Cache!In(cache, o.name, o.chunk).id # o.id
     THEN broken' = "send" /\ UNCHANGED <<main, heard>>
     ELSE /\ Hears(<<o>>)
          /\ main' = [main EXCEPT !.pc = Onward, !.sent = <<o>>, !.object = Cache!NoObject] /\ UNCHANGED broken
  /\ UNCHANGED <<running, contents, threads, wire, now, left, files, tools, net, notes>>

FscGet ==
  \E over \in BOOLEAN :
    LET got == Cache!FscGet(cache, main.req.name, main.req.chunk, main.req.ver, now, over) IN
    /\ Main("get") /\ cache.plugin = "filesystem"
    /\ cache' = got.c /\ Hears(got.sent)
    /\ odd' = IF cache.stat.rcd[main.req.name].is /\ ~got.c.stat.rcd[main.req.name].is
              THEN odd \cup {"second"} ELSE odd
    /\ main' = [main EXCEPT !.pc = Onward, !.sent = got.sent]
    /\ UNCHANGED <<running, item, list, published, threads, wire, now, left, files, tools, net,
                   top, slipped, broken>>

Answer == Handle \/ Purge \/ MemGet \/ Send \/ FscGet

-----------------------------------------------------------------------------
(* The main task: tools, and the end.                                      *)

Told(k, says) == tools' = [tools EXCEPT ![k].at = "told", ![k].says = says]

\* conpubd_tcp_connect_accept
Accept(k) ==
  /\ Ready /\ tools[k].at = "off"
  /\ tools' = [tools EXCEPT ![k].at = IF FreeSlot THEN "up" ELSE "refused"]
  /\ UNCHANGED <<running, contents, threads, main, wire, now, left, files, net, heard, notes, broken>>

Asking(k, what) == Ready /\ tools[k].at = "up" /\ tools[k].asks = what

\* conpubd_incoming_cnpbrload_msg: the flag that it looks at is set by the thread
\* that it starts.
Reload(k) ==
  /\ Asking(k, "reload")
  /\ IF loading THEN Told(k, <<"loading">>) /\ UNCHANGED load
     ELSE /\ Told(k, <<"accepted">>)
          /\ load' = [load EXCEPT ![Min({t \in Loads : load[t].pc = "none"})].pc = "wait"]
  /\ UNCHANGED <<running, contents, lock, loading, expiry, main, wire, now, left, files, net,
                 heard, notes, broken>>

\* conpubd_incoming_cnpbstatus_msg: what is overdue is passed over.
Status(k) ==
  LET live == SelectSeq(list, LAMBDA i : ~Overdue(i)) IN
  /\ Asking(k, "status")
  /\ Told(k, [j \in DOMAIN live |-> VersionOf(live[j])])
  /\ UNCHANGED <<running, contents, threads, main, wire, now, left, files, net, heard, notes, broken>>

Kill(k) ==
  /\ Asking(k, "kill") /\ running' = FALSE /\ Told(k, <<>>)
  /\ UNCHANGED <<contents, threads, main, wire, now, left, files, net, heard, notes, broken>>

Leave(k) ==
  /\ Ready /\ tools[k].at = "told" /\ tools' = [tools EXCEPT ![k].at = "gone"]
  /\ UNCHANGED <<running, contents, threads, main, wire, now, left, files, net, heard, notes, broken>>

Tools == \E k \in DOMAIN tools : Accept(k) \/ Reload(k) \/ Status(k) \/ Kill(k) \/ Leave(k)

\* conpubd_event_dispatch joins the expiry thread, then conpubd_handle_destroy
\* drops all contents.  No load thread is waited for.
End ==
  /\ Main("poll") /\ ~running /\ expiry.pc = "done"
  /\ main' = [main EXCEPT !.pc = "ended"]
  /\ list' = <<>> /\ published' = published - Len(list)
  /\ cache' = Cache!NewCache(cache.plugin)
  /\ item' = [i \in Ids |-> IF Contains(list, i) THEN [item[i] EXCEPT !.at = "freed"] ELSE item[i]]
  /\ link' = [link EXCEPT !.at = "none", !.slot = FALSE, !.rest = <<>>] /\ in' = <<>>
  /\ Deregister({item[i].name : i \in ToSet(list)})
  /\ UNCHANGED <<running, threads, others, notes, broken>>

Serve == Connect \/ Registering \/ (\E n \in 1 .. Room : Receive(n)) \/ CloseLink
MainStep == Serve \/ Answer \/ Tools \/ End

-----------------------------------------------------------------------------
(* The world: time, the operator's edits, cefnetd.                         *)

Tick ==
  /\ left.time > 0 /\ broken = "no" /\ main.pc # "ended"
  /\ now' = now + 1 /\ left' = [left EXCEPT !.time = @ - 1]
  /\ expiry' = [expiry EXCEPT !.due = TRUE]
  /\ UNCHANGED <<running, contents, lock, loading, load, main, wire, files, net, tools, heard, notes, broken>>

Edit ==
  /\ Len(files) > 1 /\ files' = Tail(files) /\ broken = "no" /\ main.pc # "ended"
  /\ UNCHANGED <<running, contents, threads, main, wire, now, left, net, tools, heard, notes, broken>>

NetDown ==
  /\ net.up /\ left.restarts > 0 /\ broken = "no" /\ main.pc # "ended"
  /\ left' = [left EXCEPT !.restarts = @ - 1]
  /\ net' = [up |-> FALSE, reg |-> {}]
  /\ link' = [link EXCEPT !.at = IF Up THEN "broken" ELSE @] /\ in' = <<>>
  /\ UNCHANGED <<running, contents, threads, main, now, files, tools, heard, notes, broken>>

NetUp ==
  /\ ~net.up /\ net' = [net EXCEPT !.up = TRUE]
  /\ UNCHANGED <<running, contents, threads, main, wire, now, left, files, tools, heard, notes, broken>>

\* An Interest is sent until it is answered.
Ask(a) ==
  /\ net.up /\ Up /\ a.name \in net.reg /\ a \notin heard /\ broken = "no"
  /\ \A j \in DOMAIN in : in[j].ask # a
  /\ in' = in \o <<[ask |-> a, part |-> 1], [ask |-> a, part |-> 2]>>
  /\ UNCHANGED <<running, contents, threads, main, link, world, notes, broken>>

World == Tick \/ Edit \/ NetDown \/ NetUp \/ (\E a \in left.asks : Ask(a))

Next == MainStep \/ (\E t \in Loads : LoadStep(t)) \/ ExpiryStep \/ World
Spec == Init /\ [][Next]_vars

\* Every task goes on; cefnetd comes back, and repeats the Interest in question.
\* What the main task can do without a tool excludes each other, and the threads
\* and cefnetd's return have only so much to do: one condition for each is enough.
Fairness ==
  /\ WF_vars(Serve \/ Answer \/ End)
  /\ WF_vars((\E t \in Loads : LoadStep(t)) \/ ExpiryStep \/ NetUp)
  /\ WF_vars(\E a \in left.asks : a = left.target /\ Ask(a))
FairSpec == Spec /\ Fairness

-----------------------------------------------------------------------------
(* Properties.                                                             *)

TypeOK ==
  /\ running \in BOOLEAN /\ now \in Nat /\ \A i \in Ids : item[i].at \in {"none", "new", "cut", "listed", "freed"}
  /\ ToSet(list) \subseteq Ids /\ IsInjective(list) /\ published \in Int
  /\ lock \in {"free", "load", "expiry"} /\ loading \in BOOLEAN
  /\ \A t \in Loads : load[t].pc \in {"none", "wait", "drop", "make", "put", "register", "link", "done"}
  /\ expiry.pc \in {"sleep", "scan", "done"}
  /\ main.pc \in {"poll", "register", "handle", "purge", "get", "send", "ended"}
  /\ link.at \in {"none", "up", "broken"} /\ Len(link.rest) <= Room /\ net.reg \subseteq Names

\* Between its uses of the mutex the daemon's counts agree: as many contents
\* are published as the list has, and the cache holds their Objects and no
\* others, though three tasks add and drop them, each in several steps
\* (published_contents_num, cache_cobs, Cpubcnthdl).
Sizes == FoldLeft(LAMBDA sum, i : sum + item[i].size, 0, list)
Calm == broken = "no" /\ running /\ lock = "free" /\ main.pc # "purge" /\ odd = {}
Counted == Calm => published = Len(list) /\ cache.cobs = Sizes /\ (cache.buff = <<>>)

\* No name is in the list twice, and every entry of the list has all its
\* Objects in the cache: an Interest never finds a content half published
\* (conpubd_publish_content_create ends before the entry is put in the list).
Complete ==
  Calm => \A i \in ToSet(list) :
            /\ \A j \in ToSet(list) : item[j].name = item[i].name => i = j
            /\ \A k \in 0 .. item[i].size - 1 : Cache!In(cache, item[i].name, k) = ObjectOf(i, k)

\* Cefnetd knows the names of the
\* list and no others, but for those that slipped: registered on another
\* connection than the list was, or dropped while there was none.
Registered ==
  LET names == {item[i].name : i \in ToSet(list)} IN
  Calm /\ Up /\ main.pc # "register" =>
    /\ names \subseteq net.reg \cup slipped
    /\ net.reg \subseteq names \cup slipped

\* An Object that is sent was made for the entry that the Interest found, unless
\* that entry has left the list meanwhile, or the page that was read last is of
\* a content that was deleted (cache_item_get looks for the name again).
Truthful ==
  [][main'.sent # main.sent => \A o \in ToSet(main'.sent) :
       o.id = main.at \/ item[main.at].at # "listed" \/ cache'.page.old]_vars

\* As long as a name stays defined, what is published under it never goes back
\* to an older version, whatever reloads follow each other
\* (conpubd_version_compare in conpubd_content_load_thread).
NeverOlder ==
  [][\A n \in Names : top[n] # <<>> /\ top'[n] # <<>> => ~Def!Newer(top[n], top'[n])]_vars

\* A load that was asked for comes to its end, though loads wait for each other
\* and for the expiry thread.
Over == main.pc = "ended" \/ broken # "no"
Loaded == (\E t \in Loads : load[t].pc = "wait") ~> ((\A t \in Loads : load[t].pc \in {"none", "done"}) \/ Over)

\* An Interest that stays answerable and is repeated is answered at last,
\* whatever requests without an answer, partial receptions and restarts of
\* cefnetd come in between.  It is not answerable while the page in memory is of
\* a deleted content: that page serves whichever content got its directory.
Answerable(a) ==
  /\ ~Over /\ running /\ odd = {} /\ a.name \notin slipped
  /\ \E i \in ToSet(list) : /\ item[i].name = a.name /\ (Discovery(a) \/ Matches(i, a))
                           /\ a.chunk < item[i].size /\ now < item[i].exp
  /\ ~cache.page.old /\ net.up /\ (IF Sock THEN link.slot ELSE link.num < MaxLink)
Served == <>[]Answerable(left.target) => <>(left.target \in heard)

\* conpubd stops when it is told to, or has failed.
Stops == ~running ~> Over

\* What is published is whole, counted and known to cefnetd, but for what is named above
\* (conpubd_content_load_thread, conpubd_connect_conpubd_and_regApp).
Consistent == TypeOK /\ Complete /\ Counted /\ Registered

\* What is sent is what is published, and that never goes back.
PublishedTrue == Truthful /\ NeverOlder

\* Loads end, a name that stays published is served, the daemon stops.
Progress == Loaded /\ Served /\ Stops
=============================================================================
