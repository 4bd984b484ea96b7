------------------------------ MODULE Transmit ------------------------------
(***************************************************************************)
(* The way of a frame out of cefnetd: the main thread copies it into a     *)
(* block of the memory pool and pushes the block to tx_que; the transmit   *)
(* thread pops it, sends it to each of its faces and gives the block back. *)
(* Meanwhile the main thread opens and closes faces, whose numbers are     *)
(* given out round robin.  src/src/cefnetd/cef_netd.c, with src/src/lib/   *)
(* cef_rngque.c, cef_mpool.c and cef_face.c; the build without             *)
(* CefC_TxMultiThread, which is the one that cef_netd.h selects.           *)
(*                                                                         *)
(* A frame is a number, in the order of sending, and TCP moves it in       *)
(* FrameLen pieces.                                                        *)
(***************************************************************************)
EXTENDS Integers, SequencesExt, FiniteSetsExt

CONSTANTS
  Peers,         \* who a face can lead to
  TcpPeers,      \* those among them that take a part of a frame
  Lists,         \* the lists of faces that a pipeline hands over: one face, or several
  FaceMax,       \* how many Face-IDs there are to give
  Slots,         \* slots of tx_que
  Increment, BlockSize,  \* of the pool
  MemoryMax,     \* blocks the heap has room for
  FrameLen,      \* pieces of a frame
  PushTries,     \* CefC_QueuingRetryLimit
  SendTries,     \* CEF_FACE_SEND_RETRY_LIMITS
  FrameMax       \* bound: frames sent

NoBlock == -1
NoPeer == "nobody"
FaceIds == 1 .. FaceMax
Frames == 1 .. FrameMax

ASSUME TransmitAssumption ==
  /\ TcpPeers \subseteq Peers /\ NoPeer \notin Peers
  /\ Lists \subseteq Seq(FaceIds) /\ FaceMax \in Nat \ {0} /\ Slots \in {2 ^ i : i \in 1 .. 16}
  /\ Increment \in {2 ^ i : i \in 2 .. 16}   \* in the code CefC_Mp_Block_Min or more
  /\ Slots <= Increment /\ BlockSize >= Increment
  /\ {Slots, Increment, BlockSize, MemoryMax, FrameMax} \subseteq Nat
  /\ Slots >= 2 /\ Increment >= 4
  /\ FrameLen \in Nat \ {0} /\ PushTries \in Nat \ {0} /\ SendTries \in Nat

VARIABLES
  pool,    \* tx_que_mp
  ring,    \* tx_que
  elem,    \* what each block on loan holds: a frame and its list of faces (and, as
           \* history, whom these led to when it was sent)
  main,    \* the main thread: the block it wants to push, and how often it tried
  tx,      \* the transmit thread
  face,    \* face_tbl with sock_tbl: whom each Face-ID leads to
  next,    \* assigned_faceid
  lapped,  \* history: the search for a Face-ID has started again at the first
  sent,    \* history: frames sent so far
  got      \* history: what each peer got last, a piece <<frame, piece>>

vars == <<pool, ring, elem, main, tx, face, next, lapped, sent, got>>

P == INSTANCE MemoryPool
R == INSTANCE RingQueue

Active(f) == face[f] # NoPeer

Idle == [at |-> "pop", slot |-> 0, block |-> NoBlock, i |-> 1, piece |-> 1, tries |-> 0]
Ready == [at |-> "idle", block |-> NoBlock, tries |-> 0]

Init ==
  /\ pool = P!NewPool
  /\ ring = R!NewRing(NoBlock)
  /\ elem = [b \in {} |-> 0]
  /\ main = Ready
  /\ tx = Idle
  /\ face = [f \in FaceIds |-> NoPeer]
  /\ next = 1
  /\ lapped = FALSE /\ sent = 0
  /\ got = [k \in Peers |-> <<0, FrameLen>>]

-----------------------------------------------------------------------------
(* The main thread.                                                        *)

\* cefnetd_frame_send_txque_faces, up to the first push.  It does nothing
\* without a face, nor when the pool gives no block.
SendFrame(fs) ==
  /\ main.at = "idle" /\ sent < FrameMax /\ fs # <<>>
  /\ sent' = sent + 1
  /\ IF P!Source(pool).num > MemoryMax THEN UNCHANGED <<pool, elem, main>>
     ELSE LET b == P!Allocated(pool) IN
          /\ pool' = P!AfterAlloc(pool)
          /\ elem' = [c \in DOMAIN elem \cup {b} |->
                        IF c # b THEN elem[c]
                        ELSE [frame |-> sent + 1, faces |-> fs, to |-> {face[f] : f \in Range(fs)}]]
          /\ main' = [at |-> "push", block |-> b, tries |-> 0]
  /\ UNCHANGED <<ring, tx, face, next, lapped, got>>

\* A push that succeeds; the transmit thread is signalled.
Push ==
  /\ main.at = "push" /\ ~R!IsFull(ring)
  /\ ring' = R!Pushed(ring, main.block)
  /\ main' = Ready
  /\ UNCHANGED <<pool, elem, tx, face, next, lapped, sent, got>>

\* What is left of elem when a block has gone back.
Without(b) == [c \in DOMAIN elem \ {b} |-> elem[c]]

\* One that fails is tried again after a pause, and the last gives the block back.
PushFails ==
  /\ main.at = "push" /\ R!IsFull(ring)
  /\ IF main.tries + 1 < PushTries
     THEN main' = [main EXCEPT !.tries = @ + 1] /\ UNCHANGED <<pool, elem>>
     ELSE main' = Ready /\ pool' = P!Freed(pool, main.block) /\ elem' = Without(main.block)
  /\ UNCHANGED <<ring, tx, face, next, lapped, sent, got>>

Ahead == {f \in FaceIds : f >= next /\ ~Active(f)}
Before == {f \in FaceIds : f < next /\ ~Active(f)}

\* Mutant: the lowest number that is free.
LowestFace == Min(Ahead \cup Before)

\* cef_face_unused_faceid_search
NextFace == Min(IF Ahead # {} THEN Ahead ELSE Before)

\* cef_face_lookup_faceid, or cef_face_accept_connect, for a peer without a face.
OpenFace(k) ==
  /\ main.at = "idle" /\ \A f \in FaceIds : face[f] # k
  /\ Ahead \cup Before # {}
  /\ face' = [face EXCEPT ![NextFace] = k]
  /\ next' = NextFace + 1
  /\ lapped' = (lapped \/ Ahead = {})
  /\ UNCHANGED <<pool, ring, elem, main, tx, sent, got>>

\* cef_face_close
CloseFace(f) ==
  /\ main.at = "idle" /\ Active(f)
  /\ face' = [face EXCEPT ![f] = NoPeer]
  /\ UNCHANGED <<pool, ring, elem, main, tx, next, lapped, sent, got>>

-----------------------------------------------------------------------------
(* The transmit thread.                                                    *)

\* cef_rngque_pop moves top on under the mutex.  With an empty ring the
\* thread waits for a signal, at most a second, and tests again.
Pop ==
  /\ tx.at = "pop" /\ ~R!IsEmpty(ring)
  /\ tx' = [tx EXCEPT !.at = "read", !.slot = ring.top]
  /\ ring' = R!Popped(ring)
  /\ UNCHANGED <<pool, elem, main, face, next, lapped, sent, got>>

\* The slot is read after the mutex is released.
ReadSlot ==
  /\ tx.at = "read"
  /\ tx' = [Idle EXCEPT !.at = "face", !.block = ring.body[tx.slot]]
  /\ UNCHANGED <<pool, ring, elem, main, face, next, lapped, sent, got>>

Faces == elem[tx.block].faces
Face == Faces[tx.i]
Frame == elem[tx.block].frame
MoreFaces == tx.at = "face" /\ tx.i <= Len(Faces)
NextInList == [tx EXCEPT !.at = "face", !.i = @ + 1, !.piece = 1, !.tries = 0]

\* cef_face_check_active
CheckActive ==
  /\ MoreFaces
  /\ tx' = IF Active(Face) THEN [tx EXCEPT !.at = "send"] ELSE NextInList
  /\ UNCHANGED <<pool, ring, elem, main, face, next, lapped, sent, got>>

\* A piece of the frame reaches whoever has the face.
Reach(n) == got' = [got EXCEPT ![face[Face]] = <<Frame, n>>]

\* cef_face_frame_send up to its first write: an entry that is gone, or a
\* write that fails, ends it; a datagram goes whole, and is one piece.
FirstWrite ==
  /\ tx.at = "send"
  /\ \/ tx' = NextInList /\ UNCHANGED got
     \/ /\ Active(Face) /\ Reach(1)
        /\ tx' = IF face[Face] \in TcpPeers /\ FrameLen > 1
                 THEN [tx EXCEPT !.at = "rest", !.piece = 2, !.tries = 1] ELSE NextInList
  /\ UNCHANGED <<pool, ring, elem, main, face, next, lapped, sent>>

\* The loop of cef_face_frame_send_core writes the rest piece by piece.  It
\* holds on to the socket entry: closed meanwhile, the entry is freed memory,
\* and the model stops there.
UseAfterFree == tx.at = "rest" /\ ~Active(Face)

\* A turn of the loop writes a piece or none; a poll that fails and too many
\* turns end the loop early.
RestWrite ==
  /\ tx.at = "rest" /\ Active(Face)
  /\ \/ /\ Reach(tx.piece)
        /\ tx' = IF tx.piece = FrameLen \/ tx.tries > SendTries THEN NextInList
                 ELSE [tx EXCEPT !.piece = @ + 1, !.tries = @ + 1]
     \/ /\ UNCHANGED got
        /\ \/ tx' = NextInList
           \/ tx.tries <= SendTries /\ tx' = [tx EXCEPT !.tries = @ + 1]
  /\ UNCHANGED <<pool, ring, elem, main, face, next, lapped, sent>>

\* All the faces are done: cef_mpool_free.
FreeBlock ==
  /\ tx.at = "face" /\ tx.i > Len(Faces)
  /\ pool' = P!Freed(pool, tx.block)
  /\ elem' = Without(tx.block)
  /\ tx' = Idle
  /\ UNCHANGED <<ring, main, face, next, lapped, sent, got>>

-----------------------------------------------------------------------------
MainStep ==
  \/ Push \/ PushFails
  \/ \E fs \in Lists : (\A i \in DOMAIN fs : Active(fs[i])) /\ SendFrame(fs)
  \/ \E k \in Peers : OpenFace(k)
  \/ \E f \in FaceIds : CloseFace(f)

TransmitStep == Pop \/ ReadSlot \/ CheckActive \/ FirstWrite \/ RestWrite \/ FreeBlock

Next == ~UseAfterFree /\ (MainStep \/ TransmitStep)

Spec == Init /\ [][Next]_vars

\* Both threads go on: the waits of the transmit thread are timed, and the
\* pauses between two pushes are counted.
Fairness == WF_vars(~UseAfterFree /\ TransmitStep) /\ WF_vars(~UseAfterFree /\ (Push \/ PushFails))

FairSpec == Spec /\ Fairness

-----------------------------------------------------------------------------
(* Properties.                                                             *)

Held ==
  R!Contents(ring)
    \o (IF main.at = "push" THEN <<main.block>> ELSE <<>>)
    \o (IF tx.at = "pop" THEN <<>> ELSE <<IF tx.at = "read" THEN ring.body[tx.slot] ELSE tx.block>>)
HeldFrames == {elem[Held[i]].frame : i \in DOMAIN Held}

\* The blocks the pool would give before it looks empty.
Free == {pool.free[(pool.head + i) % pool.num] : i \in 0 .. ((pool.tail - pool.head) % pool.num) - 1}

TypeOK ==
  /\ pool.num \in Nat /\ pool.head \in DOMAIN pool.free /\ pool.tail \in DOMAIN pool.free
  /\ DOMAIN elem \subseteq 0 .. pool.num - 1
  /\ main.at \in {"idle", "push"} /\ tx.at \in {"pop", "read", "face", "send", "rest"}
  /\ face \in [FaceIds -> Peers \cup {NoPeer}] /\ next \in 1 .. FaceMax + 1

\* A block that a thread or the queue holds is held once, and the pool does
\* not have it to give: the frame in it cannot change under the transmit
\* thread (cef_mpool_alloc, cef_mpool_free, cef_rngque_pop).
Exclusive == IsInjective(Held) /\ Range(Held) \cap Free = {}

\* The pool takes memory from the heap at most once after it is created: no
\* more blocks are out than tx_que has slots and one for each thread, and
\* every block comes back (cef_mpool_handle_update).
GrowsOnce == pool.num <= 2 * Increment

\* A frame reaches nobody but the peers its faces led to when it was queued,
\* whatever faces were closed and opened while it was in the queue, as long
\* as the Face-IDs were not all given once (cef_face_unused_faceid_search).
AddressedStep ==
  \A k \in Peers : lapped \/ got'[k] = got[k] \/ k \in elem[tx.block].to
Addressed == [][AddressedStep]_vars

\* What a peer gets are frames in the order of sending, each once, from its
\* first piece on and without a gap; only the end of a frame may be missing,
\* when cef_face_frame_send_core gives up after its retries.
Follows(a, b) == IF b[2] = 1 THEN b[1] > a[1] ELSE b = <<a[1], a[2] + 1>>
InOrderStep ==
  \A k \in Peers : lapped \/ got'[k] = got[k] \/ Follows(got[k], got'[k])
InOrder == [][InOrderStep]_vars

\* tx_que is a queue between the two threads: what the transmit thread takes
\* are the frames pushed, in their order, none lost, none twice, none changed.
Queue == INSTANCE Fifo WITH
  Items <- Frames, Nothing <- 0,
  queue <- [i \in DOMAIN R!Contents(ring) |-> elem[R!Contents(ring)[i]].frame],
  taken <- IF tx.at = "pop" THEN 0
           ELSE IF tx.at = "read" THEN elem[ring.body[tx.slot]].frame ELSE Frame
QueueKept == Queue!Spec

\* Frames do not stay: once no more are sent, every block comes back, be the
\* faces open or closed, the ring full or the writes short.
FramesLeave == HeldFrames # {} ~> (HeldFrames = {} \/ UseAfterFree)

\* The blocks of the pool go round between the pool, the main thread, the ring and
\* the transmit thread: one holder each, in bounds, and no more taken than needed
\* (cef_mpool_alloc, cef_mpool_free, cef_rngque_push, cef_rngque_pop).
BlocksKept == TypeOK /\ Exclusive /\ GrowsOnce

\* A peer gets only what was addressed to it, and that in order and without gaps
\* (cefnetd_transmit_worker_thread, cef_face_frame_send_forced).
Delivered == Addressed /\ InOrder

-----------------------------------------------------------------------------
(* The lists of faces of the instance that TLC checks.                     *)

OneOrBoth == {<<1>>, <<1, 2>>}
=============================================================================
