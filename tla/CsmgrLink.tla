------------------------------ MODULE CsmgrLink ------------------------------
(***************************************************************************)
(* cefnetd's side of csmgrd (src/src/lib/cef_csmgr.c, CS_MODE=2): the      *)
(* buffer of Objects seen lately (cob_table), the messages that are        *)
(* collected for csmgrd (cefnetd_msg_buff), the pipe to the thread that    *)
(* sends them, its socket, and the questions the main task asks csmgrd     *)
(* over a connection of their own and waits for.                           *)
(*                                                                         *)
(* A stream carries pieces: of each frame its head, which names the        *)
(* length, and its end.  csmgrd is modelled as it reads frames: the head   *)
(* of a frame takes the next piece for its end.  Frames are numbered as    *)
(* the main task makes them; what it asks passes the Objects collected.    *)
(***************************************************************************)
EXTENDS Integers, SequencesExt, FiniteSetsExt

CONSTANTS
  Slot,        \* the slot of a name in cob_table
  Access,      \* EX_CACHE_ACCESS: "RW" or "RO"
  BufferTime,  \* BUFFER_CACHE_TIME
  BatchRoom,   \* frames that CefC_CsPipeBuffSize holds
  PipeRoom, SockRoom,  \* bounds: pieces the pipe and the socket hold
  ReadMax,     \* pieces the thread reads at once
  WriteTries,  \* CefC_PipeWrite_RetryMax
  SendTries,   \* DEMO_RETRY_NUM
  Scripts,     \* bound: what comes in: Objects, Interests, questions
  TimeMax, CrashMax  \* bounds: the clock, restarts of csmgrd

Slots == {Slot[n] : n \in DOMAIN Slot}
NoObject == [name |-> "none"]
Idle == [at |-> "idle"]

VARIABLES
  now,      \* the clock
  script,   \* bound: what is still to come
  temp,     \* cob_table
  batch,    \* cefnetd_msg_buff
  main,     \* the main task: what it writes to the pipe, or the question it waits for
  pipe,     \* to_csmgrd_pipe_fd
  sender,   \* cef_csmgr_send_to_csmgrd_thread
  link,     \* local_sock and tcp_sock: "up", "lost" (csmgrd has closed it), "closed"
  sock,     \* bytes under way to csmgrd
  peer,     \* csmgrd: whether it runs, the frame of which it has read the head
  back,     \* Objects under way from csmgrd
  got,      \* history: frames csmgrd received, with the number of the piece taken for their end
  lost,     \* history: frames of which a piece did not come to csmgrd
  cut,      \* history: frames whose head went out and whose end did not
  made, crashes,  \* history: the kinds of the frames made; bound: restarts
  wild      \* a question ended with an answer that was never set

cvars == <<now, script, temp, batch, main, pipe, sender, link, sock, peer, back, got, lost, cut,
           made, crashes, wild>>

InitLink ==
  /\ now = 1 /\ script \in Scripts /\ temp = [s \in Slots |-> NoObject]
  /\ batch = <<>> /\ main = Idle /\ pipe = <<>> /\ sender = Idle /\ link = "up" /\ sock = <<>>
  /\ peer = [up |-> TRUE, head |-> 0] /\ back = <<>>
  /\ got = <<>> /\ lost = {} /\ cut = {} /\ made = <<>> /\ crashes = 0 /\ wild = FALSE

\* Head and end of one frame after the other
Pieces(frames) ==
  [i \in 1 .. 2 * Len(frames) |->
     [of |-> frames[(i + 1) \div 2], part |-> IF i % 2 = 1 THEN "head" ELSE "end"]]
Of(pieces) == {pieces[i].of : i \in DOMAIN pieces}
\* The rest of a message is given up: its first piece tells whether a frame is cut.
CutBy(rest) == IF rest # <<>> /\ rest[1].part = "end" THEN {rest[1].of} ELSE {}
Beyond(s, n) == SubSeq(s, n + 1, Len(s))

-----------------------------------------------------------------------------
(* The buffer of Objects.                                                  *)

Compare(v1, v2) ==
  IF (v1 = 0) # (v2 = 0) THEN "inconsistent"
  ELSE IF v1 = v2 THEN "same" ELSE IF v1 > v2 THEN "first" ELSE "second"

\* cef_hash_tbl_item_get_prg: what the slot of a name holds, if it is of that name
At(name) == IF temp[Slot[name]].name = name THEN temp[Slot[name]] ELSE NoObject

\* Mutant: the versions are not compared.
AnyVersion(old, o) == TRUE
\* What is buffered gives way to the same version and to a newer one.
GivesWay(old, o) == old = NoObject \/ Compare(old.ver, o.ver) \in {"same", "second"}

\* cef_csmgr_cache_insert
Buffered(o, rct, expiry) ==
  IF rct < now \/ expiry = 0 \/ ~GivesWay(At(o.name), o) THEN temp
  ELSE [temp EXCEPT ![Slot[o.name]] = [name |-> o.name, ver |-> o.ver, until |-> now + BufferTime]]

\* cef_csmgr_cache_lookup: an Interest without a version takes any.
Hit(i) == /\ At(i.name) # NoObject /\ now < At(i.name).until
          /\ \/ i.ver = 0 /\ At(i.name).ver # 0
             \/ Compare(At(i.name).ver, i.ver) = "same"

-----------------------------------------------------------------------------
(* The main task.                                                          *)

Write(frames, then) == [at |-> "write", rest |-> Pieces(frames), tries |-> 0, then |-> then]
\* What it writes next: two lists of frames, one write after the other, and none for no frames
Writing(first, second) ==
  IF first # <<>> THEN Write(first, second)
  ELSE IF second # <<>> THEN Write(second, <<>>) ELSE Idle

\* No room for one more
Flush(b) == Len(b) = BatchRoom

\* cef_csmgr_excache_item_put: an Object without a chunk number is buffered only; the last
\* chunk of a content sends what was collected.
ComeObject(o) ==
  /\ o.what = "Object" /\ o.expiry > 0
  /\ LET rct == IF o.rct < now THEN now + 1 ELSE o.rct IN
     temp' = Buffered(o, rct, Min({o.expiry, rct}))
  /\ IF Access = "RW" /\ o.chunk
     THEN LET f == Len(made) + 1
              b == IF Flush(batch) THEN <<f>> ELSE Append(batch, f)
              first == IF Flush(batch) THEN batch ELSE <<>> IN
          /\ made' = Append(made, "UpReq")
          /\ IF o.last THEN batch' = <<>> /\ main' = Writing(first, b)
             ELSE batch' = b /\ main' = Writing(first, <<>>)
     ELSE UNCHANGED <<batch, main, made>>

\* An Object whose life is over is passed on and not cached.
ComeDead(o) == o.what = "Object" /\ o.expiry = 0 /\ UNCHANGED <<temp, batch, main, made>>

\* cef_csmgr_excache_access_increment for a chunk that the buffer has, and an Interest for
\* what it does not have
FrameFor(i) == IF Hit(i) THEN "Increment" ELSE "Interest"

\* cef_csmgr_excache_lookup: a frame of its own, past what is collected.
ComeInterest(i) ==
  /\ i.what = "Interest" /\ UNCHANGED <<temp, batch>>
  /\ IF Hit(i) /\ ~i.chunk THEN UNCHANGED <<main, made>>
     ELSE /\ made' = Append(made, FrameFor(i))
          /\ main' = Writing(<<Len(made) + 1>>, <<>>)

\* cef_csmgr_excache_item_check_for_ccninfo, cef_csmgr_excache_info_get and
\* cef_csmgr_content_info_get: a connection of its own to csmgrd
ComeQuestion(q) ==
  /\ q.what \in {"PreCcninfo", "Ccninfo", "ContInfo"}
  /\ main' = [at |-> "connect", what |-> q.what] /\ UNCHANGED <<temp, batch, made>>

Come ==
  /\ main = Idle /\ script # <<>> /\ script' = Tail(script)
  /\ LET e == Head(script) IN ComeObject(e) \/ ComeDead(e) \/ ComeInterest(e) \/ ComeQuestion(e)
  /\ UNCHANGED <<now, pipe, sender, link, sock, peer, back, got, lost, cut, crashes, wild>>

\* Every half second: cef_csmgr_excache_item_push
Push ==
  /\ main = Idle /\ batch # <<>> /\ batch' = <<>> /\ main' = Writing(batch, <<>>)
  /\ UNCHANGED <<now, script, temp, pipe, sender, link, sock, peer, back, got, lost, cut, made, crashes, wild>>

\* What is left after k pieces were accepted
Left(rest, k) == Beyond(rest, k)

\* cef_csmgr_send_msg_to_csmgr: a try to write, as much as the pipe takes; after the last
\* one the rest is forgotten, and after one that wrote a part too when errno still has an
\* older error in it.
WritePipe ==
  /\ main.at = "write"
  /\ \E stale \in BOOLEAN :
       LET k == Min({PipeRoom - Len(pipe), Len(main.rest)})
           rest == IF k = Len(main.rest) THEN <<>> ELSE Left(main.rest, k)
           over == rest = <<>> \/ main.tries + 1 = WriteTries \/ (k > 0 /\ stale) IN
       /\ pipe' = pipe \o SubSeq(main.rest, 1, k)
       /\ main' = IF over THEN Writing(main.then, <<>>) ELSE [main EXCEPT !.rest = rest, !.tries = @ + 1]
       /\ lost' = IF over THEN lost \cup Of(rest) ELSE lost
       /\ cut' = IF over THEN cut \cup CutBy(rest) ELSE cut
  /\ UNCHANGED <<now, script, temp, batch, sender, link, sock, peer, back, got, made, crashes, wild>>

\* cef_csmgr_connect_tcp_to_csmgr for a question: no connection, or no greeting in 5 s
Connect ==
  /\ main.at = "connect"
  /\ \/ peer.up /\ main' = [main EXCEPT !.at = "await"]
     \/ ~peer.up /\ main' = Idle
  /\ UNCHANGED <<now, script, temp, batch, pipe, sender, link, sock, peer, back, got, lost, cut, made, crashes, wild>>

\* cef_csmgr_content_info_get returns the result of poll, as a length, for an answer of
\* which it got a part or nothing, and leaves the pointer unset.
Unset(how) == main.what = "ContInfo" /\ how \in {"closed", "part"}

\* The answer: none before the time is over, the connection closed, a whole frame, or a part
\* of one
Answer ==
  /\ main.at = "await" /\ main' = Idle
  /\ \E how \in {"late", "whole"} \cup (IF peer.up THEN {"part"} ELSE {"closed", "part"}) : wild' = Unset(how)
  /\ UNCHANGED <<now, script, temp, batch, pipe, sender, link, sock, peer, back, got, lost, cut, made, crashes>>

\* cefnetd_csm_input_process: an Object from csmgrd is buffered.
InputObject ==
  /\ main = Idle /\ link # "closed" /\ back # <<>> /\ back' = Tail(back)
  /\ temp' = Buffered(Head(back), Head(back).rct, Head(back).expiry)
  /\ UNCHANGED <<now, script, batch, main, pipe, sender, link, sock, peer, got, lost, cut, made, crashes, wild>>

\* Nothing more comes on a connection that csmgrd has closed: csmgr_sock_close.
InputEnd ==
  /\ main = Idle /\ link = "lost" /\ back = <<>> /\ link' = "closed"
  /\ UNCHANGED <<now, script, temp, batch, main, pipe, sender, sock, peer, back, got, lost, cut, made, crashes, wild>>

-----------------------------------------------------------------------------
(* The thread that sends.                                                  *)

TakeFromPipe ==
  /\ sender = Idle /\ pipe # <<>>
  /\ LET k == Min({ReadMax, Len(pipe)}) IN
     /\ sender' = [at |-> "first", rest |-> SubSeq(pipe, 1, k), count |-> 0]
     /\ pipe' = Beyond(pipe, k)
  /\ UNCHANGED <<now, script, temp, batch, main, link, sock, peer, back, got, lost, cut, made, crashes, wild>>

GiveUp ==
  /\ sender' = Idle /\ lost' = lost \cup Of(sender.rest) /\ cut' = cut \cup CutBy(sender.rest)

\* The socket is closed: a new connection, or the chunk is lost.
Reconnect ==
  /\ sender.at = "first" /\ link = "closed"
  /\ \/ peer.up /\ link' = "up" /\ UNCHANGED <<sender, lost, cut>>
     \/ ~peer.up /\ GiveUp /\ UNCHANGED link
  /\ UNCHANGED <<now, script, temp, batch, main, pipe, sock, peer, back, got, made, crashes, wild>>

\* send without waiting.  What the socket takes when csmgrd is gone is lost with it.
Accepted == IF link = "lost" THEN 0 ELSE Min({SockRoom - Len(sock), Len(sender.rest)})

\* Mutant: one piece more is taken for sent.
SkipsOne(rest, k) == Beyond(rest, k + 1)
\* What is left when the socket took k pieces
Unsent(rest, k) == Beyond(rest, k)

\* Nothing accepted at first: the chunk is lost.
SendFirst ==
  /\ sender.at = "first" /\ link # "closed"
  /\ IF Accepted = 0 THEN GiveUp /\ UNCHANGED sock
     ELSE /\ sock' = sock \o SubSeq(sender.rest, 1, Accepted) /\ UNCHANGED <<lost, cut>>
          /\ sender' = IF Accepted = Len(sender.rest) THEN Idle
                       ELSE [at |-> "more", rest |-> Unsent(sender.rest, Accepted), count |-> 1]
  /\ UNCHANGED <<now, script, temp, batch, main, pipe, link, peer, back, got, made, crashes, wild>>

\* send_count
CountUp(n) == n + 1

\* A further try, after waiting for room: up to DEMO_RETRY_NUM, whatever each brought
SendMore ==
  /\ sender.at = "more"
  /\ LET k == IF link = "closed" THEN 0 ELSE Accepted IN
     /\ sock' = sock \o SubSeq(sender.rest, 1, k)
     /\ LET rest == Unsent(sender.rest, k) IN
        IF rest = <<>> \/ CountUp(sender.count) > SendTries
        THEN sender' = Idle /\ lost' = lost \cup Of(rest) /\ cut' = cut \cup CutBy(rest)
        ELSE sender' = [sender EXCEPT !.rest = rest, !.count = CountUp(@)] /\ UNCHANGED <<lost, cut>>
  /\ UNCHANGED <<now, script, temp, batch, main, pipe, link, peer, back, got, made, crashes, wild>>

-----------------------------------------------------------------------------
(* csmgrd, as the other end of the stream.                                 *)

\* It reads a piece.  An end without its head is skipped.
PeerRead ==
  /\ peer.up /\ link = "up" /\ sock # <<>> /\ sock' = Tail(sock)
  /\ LET p == Head(sock) IN
     CASE peer.head # 0 ->
            /\ got' = Append(got, <<peer.head, p.of>>) /\ peer' = [peer EXCEPT !.head = 0]
            /\ lost' = IF p.of = peer.head THEN lost ELSE lost \cup {p.of, peer.head}
       [] peer.head = 0 /\ p.part = "head" -> peer' = [peer EXCEPT !.head = p.of] /\ UNCHANGED <<got, lost>>
       [] OTHER -> lost' = lost \cup {p.of} /\ UNCHANGED <<peer, got>>
  /\ UNCHANGED <<now, script, temp, batch, main, pipe, sender, link, back, cut, made, crashes, wild>>

\* It answers an Interest, or sends Objects of a content that it was asked for.
PeerSend(name, ver) ==
  /\ peer.up /\ link = "up" /\ back = <<>>
  /\ \E i \in DOMAIN got : made[got[i][1]] = "Interest"
  /\ back' = <<[name |-> name, ver |-> ver, rct |-> 1, expiry |-> 1]>>
  /\ UNCHANGED <<now, script, temp, batch, main, pipe, sender, link, sock, peer, got, lost, cut, made, crashes, wild>>

\* It ends, with the bytes that were under way.
PeerCrash ==
  /\ peer.up /\ crashes < CrashMax /\ crashes' = crashes + 1
  /\ peer' = [up |-> FALSE, head |-> 0]
  /\ link' = IF link = "up" THEN "lost" ELSE link
  /\ lost' = lost \cup Of(sock) \cup ({peer.head} \ {0}) /\ sock' = <<>>
  /\ UNCHANGED <<now, script, temp, batch, main, pipe, sender, back, got, cut, made, wild>>

PeerStart ==
  /\ ~peer.up /\ peer' = [peer EXCEPT !.up = TRUE]
  /\ UNCHANGED <<now, script, temp, batch, main, pipe, sender, link, sock, back, got, lost, cut, made, crashes, wild>>

Tick ==
  /\ now < TimeMax /\ now' = now + 1
  /\ UNCHANGED <<script, temp, batch, main, pipe, sender, link, sock, peer, back, got, lost, cut, made, crashes, wild>>

=============================================================================
