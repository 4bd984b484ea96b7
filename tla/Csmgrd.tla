-------------------------------- MODULE Csmgrd --------------------------------
(***************************************************************************)
(* The daemon csmgrd (src/src/csmgrd/csmgrd/csmgrd.c): the sockets of its  *)
(* main task, the two threads that answer requests (status and other), to  *)
(* which the main task forwards what a peer asks over local sockets, and   *)
(* the way of an Object from a peer to the cache: main buffer, common      *)
(* buffer, message thread.                                                 *)
(*                                                                         *)
(* File descriptors are numbers of one table, the lowest free one first,   *)
(* for a thread answers a peer by the number of the peer's socket.  A      *)
(* stream carries pieces: a request is one piece, an Object three (its     *)
(* header, its body, its end), and a peer may break off in the midst of    *)
(* an Object.  Frames are named by their connection and their number.      *)
(***************************************************************************)
EXTENDS Integers, SequencesExt, FiniteSetsExt

CONSTANTS
  Address,    \* Address[k]: where connection k comes from, "local" or a TCP address
  Scenarios,  \* bound: what the peers send, who of them leaves, signals, rounds of the monitor
  MaxSlot,    \* CsmgrdC_Max_Sock_Num - 1
  BuffSize,   \* CsmgrC_Buff_Size
  Plugin,     \* CS_MODE: "memory" or "filesystem"
  Findings,   \* what the resource monitor may find: memory, volume of Objects, file system
  MaxFd       \* how many descriptors the process may have for sockets

Conns == DOMAIN Address
Slots == 0 .. MaxSlot
Fds == 1 .. MaxFd
Threads == {"status", "other"}
Free == [is |-> "free", of |-> 0]
None == 0
NoSlot == -1
Kinds == {"Object", "Cut", "Interest", "Status", "Kill"}

ASSUME CsmgrdAssumption ==
  /\ Conns \subseteq Nat /\ MaxFd \in Nat
  /\ MaxSlot \in Nat \ {0} /\ BuffSize \in Nat \ {0} /\ Plugin \in {"memory", "filesystem"}
  /\ \A s \in Scenarios :
       /\ DOMAIN s.asks \subseteq Conns /\ \A k \in DOMAIN s.asks : s.asks[k] \in Seq(Kinds)
       /\ s.leave \subseteq Conns /\ s.rounds \in Nat /\ s.signal \in BOOLEAN
  /\ \A f \in Findings : {f.memory, f.cobs, f.file} \subseteq {"low", "between", "high"}

VARIABLES
  running,  \* csmgrd_running_f
  fds,      \* the table of descriptors: what each number is
  conn,     \* the peers' ends: state, frames not yet sent, bytes under way, how it ended
  slot,     \* local_peer_sock (slot 0) and tcp_fds
  peer,     \* peer_id_str and peer_sv_str
  rest,     \* tcp_buff up to tcp_index
  cutting,  \* the slot of which the main task cuts what it read into frames, or NoSlot
  th,       \* th_fds
  peers,    \* peer_num
  pipe,     \* local connections to the threads: open, frames under way
  thread,   \* the threads' handles: backlog, tcp_fds, snd_fds, frames being processed
  main, comn, proc,  \* csmgr_main_cob_buff, csmgr_comn_cob_buff, csmgr_proc_cob_buff
  msg,      \* csmgrd_msg_process_thread
  push,     \* push_bytes_process_thread
  lack,     \* Lack_of_M_resources, Lack_of_F_resources and what decides them
  exit,     \* the main task after its loop
  owed,     \* history: requests forwarded and not yet answered
  heir,     \* history: slots whose connection was replaced by one that arrived
  bound     \* what the scenario still allows: who leaves, rounds of the monitor, a signal

sockets == <<fds, slot, peer, rest, cutting, th, peers>>
buffers == <<main, comn, proc>>
vars == <<running, conn, sockets, pipe, thread, buffers, msg, push, lack, exit, owed, heir, bound>>

IsLocal(k) == Address[k] = "local"
FreeFds == {n \in Fds : fds[n] = Free}
LowestFree(table) == Min({n \in Fds : table[n] = Free})
FdOf(k) == {n \in Fds : fds[n] = [is |-> "peer", of |-> k]}
SlotOf(k) == {i \in Slots : slot[i] \in FdOf(k)}
\* The main task is at the head of its loop.
AtPoll == exit = "loop" /\ cutting = NoSlot

Init ==
  /\ running = TRUE /\ fds = [n \in Fds |-> Free]
  /\ \E s \in Scenarios :
       /\ bound = [leave |-> s.leave, rounds |-> s.rounds, signal |-> s.signal]
       /\ conn = [k \in Conns |->
                    IF k \in DOMAIN s.asks
                    THEN [at |-> "off", asks |-> s.asks[k], out |-> <<>>, end |-> "no"]
                    ELSE [at |-> "down", asks |-> <<>>, out |-> <<>>, end |-> "never"]]
  /\ slot = [i \in Slots |-> None] /\ peer = [i \in Slots |-> "none"]
  /\ rest = [i \in Slots |-> <<>>] /\ cutting = NoSlot /\ th = [i \in Slots |-> None] /\ peers = 0
  /\ pipe = <<>>
  /\ thread = [t \in Threads |-> [alive |-> TRUE, backlog |-> <<>>, at |-> [i \in Slots |-> None],
                                  snd |-> [i \in Slots |-> None], work |-> <<>>, i |-> 0]]
  /\ main = <<>> /\ comn = <<>> /\ proc = <<>> /\ msg = "test" /\ push = "loop"
  /\ lack = [m |-> FALSE, f |-> FALSE, limited |-> FALSE]
  /\ exit = "loop" /\ owed = {} /\ heir = {}

-----------------------------------------------------------------------------
(* The peers.                                                              *)

\* A TCP address opens a new connection when its old one has ended.
Connect(k) ==
  /\ exit = "loop" /\ conn[k].at = "off"
  /\ \A j \in Conns : j < k /\ ~IsLocal(k) /\ Address[j] = Address[k] => conn[j].end # "no"
  /\ conn' = [conn EXCEPT ![k].at = "arrived"]
  /\ UNCHANGED <<running, sockets, pipe, thread, buffers, msg, push, lack, exit, owed, heir, bound>>

Pieces(k, n, what) ==
  LET piece(p) == [of |-> <<k, n>>, what |-> what, part |-> p] IN
  CASE what = "Object" -> <<piece("header"), piece("body"), piece("end")>>
    [] what = "Cut" -> <<piece("header"), piece("body")>>
    [] OTHER -> <<piece("header")>>

Send(k) ==
  /\ conn[k].at = "up" /\ conn[k].end = "no" /\ conn[k].asks # <<>>
  /\ conn' = [conn EXCEPT ![k].asks = Tail(@),
                          ![k].out = @ \o Pieces(k, Len(conn[k].asks), Head(conn[k].asks))]
  /\ UNCHANGED <<running, sockets, pipe, thread, buffers, msg, push, lack, exit, owed, heir, bound>>

\* The peer closes its socket, or it is gone and the connection is reset.
Leave(k, how) ==
  /\ k \in bound.leave /\ conn[k].at = "up" /\ conn[k].end = "no"
  /\ conn' = [conn EXCEPT ![k].end = how, ![k].asks = <<>>, ![k].out = IF how = "reset" THEN <<>> ELSE @]
  /\ UNCHANGED <<running, sockets, pipe, thread, buffers, msg, push, lack, exit, owed, heir, bound>>

-----------------------------------------------------------------------------
(* Accepting and closing.                                                  *)

Closed(table, n) == IF n = None THEN table ELSE [table EXCEPT ![n] = Free]
\* The end of a peer whose socket, the number n, the daemon closes
Dropped(c, n) ==
  IF n = None \/ fds[n].is # "peer" THEN c
  ELSE [c EXCEPT ![fds[n].of].at = "down", ![fds[n].of].asks = <<>>, ![fds[n].of].out = <<>>]

\* csmgrd_local_sock_check: the new local peer takes the place of the old one.
AcceptLocal(k) ==
  /\ AtPoll /\ conn[k].at = "arrived" /\ FreeFds # {} /\ IsLocal(k)
  /\ LET n == LowestFree(fds) IN
     /\ fds' = Closed([fds EXCEPT ![n] = [is |-> "peer", of |-> k]], slot[0])
     /\ slot' = [slot EXCEPT ![0] = n]
     /\ conn' = [Dropped(conn, slot[0]) EXCEPT ![k].at = "up"]
     /\ heir' = IF slot[0] # None THEN heir \cup {0} ELSE heir
  /\ UNCHANGED <<running, peer, rest, cutting, th, peers, pipe, thread, buffers, msg, push, lack, exit, owed, bound>>

\* The slot of the same peer, as csmgrd_tcp_connect_accept looks for it
SameSlots(k) == {i \in Slots \ {0} : peer[i] = Address[k]}
FreeSlots(table) == {i \in Slots \ {0} : table[i] = None}

\* Mutant: the old connection of the peer is not taken off.
CountedTwice == peers + 1
\* peer_num when a connection takes the place of another
Counted == peers - 1 + 1

\* csmgrd_tcp_connect_accept: a peer known by its address and port that still has a
\* socket: the socket is closed and its slot taken.
AcceptAgain(k) ==
  /\ AtPoll /\ conn[k].at = "arrived" /\ FreeFds # {} /\ ~IsLocal(k) /\ SameSlots(k) # {}
  /\ LET i == Min(SameSlots(k))  n == LowestFree(fds) IN
     /\ slot[i] # None
     /\ fds' = Closed([fds EXCEPT ![n] = [is |-> "peer", of |-> k]], slot[i])
     /\ slot' = [slot EXCEPT ![i] = n] /\ rest' = [rest EXCEPT ![i] = <<>>]
     /\ peers' = Counted
     /\ conn' = [Dropped(conn, slot[i]) EXCEPT ![k].at = "up"]
     /\ heir' = heir \cup {i}
  /\ UNCHANGED <<running, peer, cutting, th, pipe, thread, buffers, msg, push, lack, exit, owed, bound>>

\* Another peer: it takes the first free slot, or is turned away.
AcceptNew(k) ==
  /\ AtPoll /\ conn[k].at = "arrived" /\ FreeFds # {} /\ ~IsLocal(k)
  /\ SameSlots(k) # {} => slot[Min(SameSlots(k))] = None
  /\ IF FreeSlots(slot) = {}
     THEN conn' = [conn EXCEPT ![k].at = "down", ![k].asks = <<>>]
          /\ UNCHANGED <<fds, slot, peer, rest, peers>>
     ELSE LET i == Min(FreeSlots(slot))  n == LowestFree(fds) IN
          /\ fds' = [fds EXCEPT ![n] = [is |-> "peer", of |-> k]]
          /\ slot' = [slot EXCEPT ![i] = n] /\ peer' = [peer EXCEPT ![i] = Address[k]]
          /\ rest' = [rest EXCEPT ![i] = <<>>] /\ peers' = peers + 1
          /\ conn' = [conn EXCEPT ![k].at = "up"]
  /\ UNCHANGED <<running, cutting, th, pipe, thread, buffers, msg, push, lack, exit, owed, heir, bound>>

\* Mutant: the main task keeps its connection to the thread.
HangsOn(i) == None
\* The connection to the thread that ends with the peer of a slot
HangsUp(i) == th[i]

\* csmgrd_event_main_loop, in the main task: a reset, an error or the end of the stream.
CloseSlot(i) ==
  /\ AtPoll /\ slot[i] # None
  /\ LET k == fds[slot[i]].of IN conn[k].end # "no" /\ conn[k].out = <<>>
  /\ conn' = Dropped(conn, slot[i])
  /\ LET n == HangsUp(i) IN
     /\ fds' = Closed(Closed(fds, slot[i]), n)
     /\ IF n = None THEN UNCHANGED <<th, pipe>>
        ELSE th' = [th EXCEPT ![i] = None] /\ pipe' = [pipe EXCEPT ![fds[n].of].open = FALSE]
  /\ slot' = [slot EXCEPT ![i] = None]
  /\ IF i = 0 THEN UNCHANGED <<rest, peers>>
     ELSE rest' = [rest EXCEPT ![i] = <<>>] /\ peers' = peers - 1
  /\ heir' = heir \ {i}
  /\ UNCHANGED <<running, peer, cutting, thread, buffers, msg, push, lack, exit, owed, bound>>

-----------------------------------------------------------------------------
(* The main task reads.                                                    *)

\* csmgr_input_bytes_process, the cutting into frames: what cannot begin a frame is
\* passed over, and a frame has the length its header says.
Size(p) == IF p.what \in {"Object", "Cut"} THEN 3 ELSE 1
FromHeader(b) ==
  LET heads == {j \in DOMAIN b : b[j].part = "header"} IN
  IF heads = {} THEN <<>> ELSE SubSeq(b, Min(heads), Len(b))
HoldsFrame(b) == b # <<>> /\ Size(b[1]) <= Len(b)

\* What is in the buffer of slot i is b: it is cut as long as there is a whole frame.
Cut(i, b) ==
  /\ rest' = [rest EXCEPT ![i] = FromHeader(b)]
  /\ cutting' = IF HoldsFrame(FromHeader(b)) THEN i ELSE NoSlot

MainRead(i) ==
  /\ AtPoll /\ slot[i] # None
  /\ LET k == fds[slot[i]].of IN
     /\ conn[k].out # <<>>
     /\ \E n \in 1 .. Len(conn[k].out) :
          /\ conn' = [conn EXCEPT ![k].out = SubSeq(@, n + 1, Len(@))]
          /\ Cut(i, rest[i] \o SubSeq(conn[k].out, 1, n))
  /\ UNCHANGED <<running, fds, slot, peer, th, peers, pipe, thread, buffers, msg, push, lack, exit, owed, heir, bound>>

\* The frame at the head of the buffer, and what is behind it
Frame == SubSeq(rest[cutting], 1, Size(rest[cutting][1]))
Behind == SubSeq(rest[cutting], Size(rest[cutting][1]) + 1, Len(rest[cutting]))
CutOn == Cut(cutting, Behind)
\* After an error the bytes behind the frame are given up.
GiveUp == rest' = [rest EXCEPT ![cutting] = <<>>] /\ cutting' = NoSlot

\* Mutant: the check stops at the header.
AnyFrame(f) == TRUE
\* cef_csmgr_frame_check: the mark at the end of the frame, and its fields in their place.
FrameCheck(f) == f[3].part = "end" /\ f[2].part = "body" /\ f[2].of = f[1].of

Signalled(m) == IF m = "wait" THEN "woken" ELSE m

\* The two buffers that the main task shares, and the message thread
Shared == [main |-> main, comn |-> comn, msg |-> msg]
Share(s) == main' = s.main /\ comn' = s.comn /\ msg' = s.msg

\* Mutant: what was copied stays in the main buffer.
Remaining(s) == s.main
\* The main buffer after its contents were copied
Emptied(s) == <<>>

\* csmgrd_cob_buff_main2comn
Main2Comn(s) ==
  IF s.main = <<>> THEN [s EXCEPT !.msg = Signalled(@)]
  ELSE IF BuffSize < Len(s.comn) + Len(s.main) THEN [s EXCEPT !.main = <<>>, !.msg = Signalled(@)]
  ELSE [s EXCEPT !.comn = @ \o s.main, !.main = Emptied(s), !.msg = Signalled(@)]

\* Whether a buffer takes another Object
Room(m) == Len(m) + 1 <= BuffSize

\* An Object: kept out while resources lack, else buffered if there is room.
TakeObject(s, f) ==
  IF ~FrameCheck(f) \/ lack.f \/ lack.m THEN s
  ELSE LET r == IF Room(s.main) THEN s ELSE Main2Comn(s) IN
       IF Room(r.main) THEN [r EXCEPT !.main = Append(@, f)] ELSE r

MainObject ==
  /\ cutting # NoSlot /\ Frame[1].what \in {"Object", "Cut"}
  /\ Share(TakeObject(Shared, Frame)) /\ CutOn
  /\ UNCHANGED <<running, conn, fds, slot, peer, th, peers, pipe, thread, proc, push, lack, exit, owed, heir, bound>>

MainKill ==
  /\ cutting # NoSlot /\ Frame[1].what = "Kill"
  /\ running' = FALSE /\ GiveUp
  /\ UNCHANGED <<conn, fds, slot, peer, th, peers, pipe, thread, buffers, msg, push, lack, exit, owed, heir, bound>>

\* csmgrd_input_message_transfer_process: what a peer asks first decides which thread
\* answers all it asks.
Asks == cutting # NoSlot /\ Frame[1].what \in {"Interest", "Status"}
ThreadFor(f) == IF f[1].what = "Status" THEN "status" ELSE "other"
CanConnect == thread[ThreadFor(Frame)].alive /\ FreeFds # {}

\* The peer's connection to its thread is there.
MainForward ==
  /\ Asks /\ th[cutting] # None
  /\ pipe' = [pipe EXCEPT ![fds[th[cutting]].of].q = Append(@, [ask |-> Frame[1].of])]
  /\ owed' = owed \cup {Frame[1].of} /\ CutOn
  /\ UNCHANGED <<running, conn, fds, slot, peer, th, peers, thread, buffers, msg, push, lack, exit, heir, bound>>

\* cef_csmgr_csmgr_connect_local, and the message that names the peer's socket
MainConnect ==
  /\ Asks /\ th[cutting] = None /\ CanConnect
  /\ LET n == LowestFree(fds)  p == Len(pipe) + 1 IN
     /\ fds' = [fds EXCEPT ![n] = [is |-> "main", of |-> p]] /\ th' = [th EXCEPT ![cutting] = n]
     /\ pipe' = Append(pipe, [open |-> TRUE, q |-> <<[sock |-> slot[cutting]], [ask |-> Frame[1].of]>>])
     /\ thread' = [thread EXCEPT ![ThreadFor(Frame)].backlog = Append(@, p)]
  /\ owed' = owed \cup {Frame[1].of} /\ CutOn
  /\ UNCHANGED <<running, conn, slot, peer, peers, buffers, msg, push, lack, exit, heir, bound>>

\* The thread is gone, or the process has no descriptor left.
MainFails ==
  /\ Asks /\ th[cutting] = None /\ ~CanConnect /\ GiveUp
  /\ UNCHANGED <<running, conn, fds, slot, peer, th, peers, pipe, thread, buffers, msg, push, lack, exit, owed, heir, bound>>

MainFrame == MainObject \/ MainKill \/ MainForward \/ MainConnect \/ MainFails

-----------------------------------------------------------------------------
(* The threads that answer.                                                *)

Working(t) == thread[t].work # <<>>

\* csmgrd_thread_local_sock_check
ThreadAccept(t) ==
  /\ thread[t].alive /\ ~Working(t) /\ thread[t].backlog # <<>> /\ FreeFds # {}
  /\ LET p == Head(thread[t].backlog)  free == FreeSlots(thread[t].at)  n == LowestFree(fds) IN
     IF free = {}
     THEN /\ thread' = [thread EXCEPT ![t].backlog = Tail(@)]
          /\ pipe' = [pipe EXCEPT ![p].open = FALSE] /\ UNCHANGED fds
     ELSE /\ thread' = [thread EXCEPT ![t].backlog = Tail(@), ![t].at[Min(free)] = n]
          /\ fds' = [fds EXCEPT ![n] = [is |-> "thread", of |-> p]] /\ UNCHANGED pipe
  /\ UNCHANGED <<running, conn, slot, peer, rest, cutting, th, peers, buffers, msg, push, lack, exit, owed, heir, bound>>

\* csmgrd_event_main_loop, in a thread: the main task closed its end, whatever is left
\* in the connection; or frames have come.
ThreadClose(t, i) ==
  /\ thread[t].alive /\ ~Working(t) /\ thread[t].at[i] # None
  /\ ~pipe[fds[thread[t].at[i]].of].open
  /\ fds' = Closed(fds, thread[t].at[i])
  /\ thread' = [thread EXCEPT ![t].at[i] = None, ![t].snd[i] = None]
  /\ UNCHANGED <<running, conn, slot, peer, rest, cutting, th, peers, pipe, buffers, msg, push, lack, exit, owed, heir, bound>>

\* Whether there is a frame to process
Complete(q) == q # <<>>

ThreadRead(t, i) ==
  /\ thread[t].alive /\ ~Working(t) /\ thread[t].at[i] # None
  /\ LET p == fds[thread[t].at[i]].of IN
     /\ pipe[p].open /\ Complete(pipe[p].q)
     /\ thread' = [thread EXCEPT ![t].work = pipe[p].q, ![t].i = i]
     /\ pipe' = [pipe EXCEPT ![p].q = <<>>]
  /\ UNCHANGED <<running, conn, sockets, buffers, msg, push, lack, exit, owed, heir, bound>>

\* Where an answer goes: the number the main task named, else back into the connection.
AnswerTo(t) == LET i == thread[t].i IN IF thread[t].snd[i] # None THEN thread[t].snd[i] ELSE thread[t].at[i]

\* csmgrd_input_message_process, in a thread: csmgrd_incoming_sockid_msg, or a request
\* of which the answer is sent at once.
ThreadFrame(t) ==
  /\ Working(t)
  /\ LET f == Head(thread[t].work)
         left == [thread EXCEPT ![t].work = Tail(@)] IN
     IF "sock" \in DOMAIN f
     THEN thread' = [left EXCEPT ![t].snd[thread[t].i] = f.sock] /\ UNCHANGED owed
     ELSE thread' = left /\ owed' = owed \ {f.ask}
  /\ UNCHANGED <<running, conn, sockets, pipe, buffers, msg, push, lack, exit, heir, bound>>

\* csmgrd_incoming_msg_thread after its loop: csmgrd_handle_destroy for the thread.
ThreadEnd(t) ==
  /\ thread[t].alive /\ ~running /\ ~Working(t)
  /\ thread' = [thread EXCEPT ![t].alive = FALSE, ![t].backlog = <<>>, ![t].at = [i \in Slots |-> None]]
  /\ fds' = [n \in Fds |-> IF n \in Range(thread[t].at) THEN Free ELSE fds[n]]
  /\ pipe' = [p \in DOMAIN pipe |->
                IF p \in Range(thread[t].backlog) \cup {fds[n].of : n \in Range(thread[t].at) \ {None}}
                THEN [pipe[p] EXCEPT !.open = FALSE] ELSE pipe[p]]
  /\ UNCHANGED <<running, conn, slot, peer, rest, cutting, th, peers, buffers, msg, push, lack, exit, owed, heir, bound>>

-----------------------------------------------------------------------------
(* The Objects' way to the cache.                                          *)

\* Mutant: the thread waits until the common buffer has been taken.
DueWhenTaken == main # <<>> /\ comn = <<>>
\* Whether csmgr_push_bytes_process has anything to do
Due == main # <<>>

\* push_bytes_process_thread: csmgr_push_bytes_process, when its time has come.
Push ==
  /\ push = "loop" /\ running /\ Due
  /\ Share(Main2Comn(Shared))
  /\ UNCHANGED <<running, conn, sockets, pipe, thread, proc, push, lack, exit, owed, heir, bound>>

PushEnd ==
  /\ push = "loop" /\ ~running /\ push' = "gone"
  /\ UNCHANGED <<running, conn, sockets, pipe, thread, buffers, msg, lack, exit, owed, heir, bound>>

\* csmgrd_msg_process_thread: the test of the loop, then the wait, for which the signal
\* is the only thing that counts (a signal that comes at another time is lost).
MsgTest ==
  /\ msg = "test" /\ msg' = IF running THEN "lock" ELSE "gone"
  /\ UNCHANGED <<running, conn, sockets, pipe, thread, buffers, push, lack, exit, owed, heir, bound>>

MsgWait ==
  /\ msg = "lock" /\ msg' = "wait"
  /\ UNCHANGED <<running, conn, sockets, pipe, thread, buffers, push, lack, exit, owed, heir, bound>>

MsgTake ==
  /\ msg = "woken"
  /\ proc' = proc \o comn /\ comn' = <<>>
  /\ msg' = IF proc' = <<>> THEN "test" ELSE "puts"
  /\ UNCHANGED <<running, conn, sockets, pipe, thread, main, push, lack, exit, owed, heir, bound>>

\* cache_item_puts has taken what is in the buffer.
MsgPuts ==
  /\ msg = "puts" /\ msg' = "test" /\ proc' = <<>>
  /\ UNCHANGED <<running, conn, sockets, pipe, thread, main, comn, push, lack, exit, owed, heir, bound>>

\* csmgrd_resource_mon_thread: one round, given what it finds of memory, of the volume
\* of the cached Objects and of the file system: low, between the thresholds, or high.
Monitor(memory, cobs, file) ==
  /\ running /\ bound.rounds > 0 /\ bound' = [bound EXCEPT !.rounds = @ - 1]
  /\ LET m == IF ~lack.limited THEN lack.m \/ memory = "high"
              ELSE IF lack.m THEN cobs # "low" ELSE cobs = "high"
         f == IF Plugin = "memory" THEN lack.f
              ELSE file = "high" \/ (lack.f /\ file = "between") IN
     lack' = [m |-> m, f |-> f, limited |-> lack.limited \/ memory = "high"]
  /\ UNCHANGED <<running, conn, sockets, pipe, thread, buffers, msg, push, exit, owed, heir>>

-----------------------------------------------------------------------------
(* The end: the main task leaves its loop, signals once, and joins.        *)

\* csmgrd_sigcatch, or a Kill that has been read
Sigcatch ==
  /\ bound.signal /\ running /\ running' = FALSE
  /\ UNCHANGED <<conn, sockets, pipe, thread, buffers, msg, push, lack, exit, owed, heir, bound>>

\* The one signal of csmgrd_event_dispatch
LastSignal(m) == Signalled(m)

LeaveLoop ==
  /\ AtPoll /\ ~running
  /\ msg' = LastSignal(msg)
  /\ exit' = IF msg = "lock" THEN "missed" ELSE "join"
  /\ UNCHANGED <<running, conn, sockets, pipe, thread, buffers, push, lack, owed, heir, bound>>

Join ==
  /\ exit \in {"join", "missed"} /\ push = "gone" /\ msg = "gone"
  /\ \A t \in Threads : ~thread[t].alive
  /\ exit' = "destroyed"
  /\ fds' = [n \in Fds |-> Free] /\ slot' = [i \in Slots |-> None] /\ th' = [i \in Slots |-> None]
  /\ conn' = [k \in Conns |-> [at |-> "down", asks |-> <<>>, out |-> <<>>, end |-> conn[k].end]]
  /\ main' = <<>> /\ comn' = <<>> /\ peers' = 0
  /\ UNCHANGED <<running, peer, rest, cutting, pipe, thread, proc, msg, push, lack, owed, heir, bound>>

MainLoop ==
  \/ \E k \in Conns : AcceptLocal(k) \/ AcceptAgain(k) \/ AcceptNew(k)
  \/ \E i \in Slots : MainRead(i) \/ CloseSlot(i)
  \/ MainFrame
  \/ LeaveLoop \/ Join

ThreadLoop(t) ==
  \/ ThreadAccept(t) \/ ThreadFrame(t) \/ ThreadEnd(t)
  \/ \E i \in Slots : ThreadRead(t, i) \/ ThreadClose(t, i)

MsgLoop == MsgTest \/ MsgWait \/ MsgTake \/ MsgPuts

Next ==
  \/ \E k \in Conns : Connect(k) \/ Send(k) \/ Leave(k, "closed") \/ Leave(k, "reset")
  \/ MainLoop
  \/ \E t \in Threads : ThreadLoop(t)
  \/ Push \/ PushEnd \/ MsgLoop \/ Sigcatch
  \/ \E f \in Findings : Monitor(f.memory, f.cobs, f.file)

Spec == Init /\ [][Next]_vars

\* The loops of the threads come round: each polls all of its sockets.
FairSpec ==
  /\ Spec
  /\ \A t \in Threads :
       /\ WF_vars(ThreadAccept(t)) /\ WF_vars(ThreadFrame(t)) /\ WF_vars(ThreadEnd(t))
       /\ \A i \in Slots : WF_vars(ThreadRead(t, i)) /\ WF_vars(ThreadClose(t, i))
  /\ WF_vars(Push) /\ WF_vars(PushEnd) /\ WF_vars(MsgLoop) /\ WF_vars(MainFrame) /\ WF_vars(LeaveLoop) /\ WF_vars(Join)

-----------------------------------------------------------------------------
(* Properties.                                                             *)

\* Type invariant: every number is an open descriptor of its kind or None.
TypeOK ==
  /\ running \in BOOLEAN /\ peers \in Int
  /\ \A i \in Slots :
       /\ slot[i] # None => fds[slot[i]].is = "peer"
       /\ th[i] # None => fds[th[i]].is = "main"
       /\ \A t \in Threads : thread[t].at[i] # None => fds[thread[t].at[i]].is = "thread"
  /\ msg \in {"test", "lock", "wait", "woken", "puts", "gone"} /\ push \in {"loop", "gone"}
  /\ exit \in {"loop", "join", "missed", "destroyed"}
  /\ Len(main) <= BuffSize /\ Len(comn) <= BuffSize

\* No descriptor is left open that nothing refers to, none is referred to twice, and
\* peer_num, which csmgrdstatus shows, is the number of TCP peers: over connections
\* that are replaced, closed, reset and turned away (csmgrd.c:1069-1206, 2155-2265).
NoLeak ==
  LET held(n) == {<<0, i>> : i \in {j \in Slots : slot[j] = n}} \cup {<<1, i>> : i \in {j \in Slots : th[j] = n}}
                 \cup {<<2, x>> : x \in {y \in Threads \X Slots : thread[y[1]].at[y[2]] = n}} IN
  /\ \A n \in Fds : Cardinality(held(n)) = IF fds[n] = Free THEN 0 ELSE 1
  /\ peers = Cardinality({i \in Slots \ {0} : slot[i] # None})

\* What is on its way to the cache are whole Objects, each as one peer sent it, whatever
\* is broken off in between (csmgrd.c:1390-1499, 3838-3914); those of a peer in the
\* order in which it sent them, and none of them twice (1219-1256, 1316-1349).
Intact ==
  LET q == proc \o comn \o main IN
  /\ \A i \in DOMAIN q : \A p \in 1 .. 3 :
       q[i][p].of = q[i][1].of /\ q[i][p].part = <<"header", "body", "end">>[p]
  /\ \A i, j \in DOMAIN q : i < j /\ q[i][1].of[1] = q[j][1].of[1] => q[i][1].of[2] > q[j][1].of[2]

\* A thread sends its answer to the peer that asked, if that is still connected; but not
\* where the peer came into the slot of another that had not been closed yet: there the
\* thread goes on to answer the number of the old socket (csmgrd.c:1434-1447, 2214-2258).
AnswersAsker ==
  [][\A t \in Threads :
       Working(t) /\ thread'[t].work = Tail(thread[t].work) /\ "ask" \in DOMAIN Head(thread[t].work)
       => LET k == Head(thread[t].work).ask[1] IN
          conn[k].at = "up" /\ SlotOf(k) \cap heir = {}
          => fds[AnswerTo(t)] = [is |-> "peer", of |-> k]]_vars

Waiting ==
  \E r \in owed : \E i \in SlotOf(r[1]) : th[i] # None /\ pipe[fds[th[i]].of].open

\* What a peer that stays has asked is answered, whatever the others do, unless the
\* thread had no slot for its connection (csmgrd.c:4138-4249).
Answered == running /\ Waiting ~> ~running \/ ~Waiting

\* The main buffer is emptied, though nobody may take what is in the common buffer
\* (csmgrd.c:1316-1373): a signal to a thread that does not wait is lost (1226).
Drains == running /\ main # <<>> ~> ~running \/ main = <<>>

\* The daemon comes to its end, unless its one signal came between the test and the wait
\* of the message thread (csmgrd.c:1009-1020, 1224-1226).
Stops == ~running ~> exit \in {"missed", "destroyed"}

\* Slots, threads and descriptors agree (csmgrd_handle_create .. csmgrd_handle_destroy).
Consistent == TypeOK /\ NoLeak

\* What was asked is answered, what was taken is handed on, and the daemon ends, but for
\* the lost signals and the missing slot named above (csmgrd.c:1011, 1226, 4237).
Progress == Answered /\ Drains /\ Stops
=============================================================================
