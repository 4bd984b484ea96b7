---------------------------- MODULE CsmgrdProofs ----------------------------
(***************************************************************************)
(* Theorems about Csmgrd: every descriptor has one owner, what goes to the *)
(* cache are whole Objects in their order, and answers go to who asked.    *)
(***************************************************************************)
EXTENDS Csmgrd, FiniteSetTheorems, SequenceTheorems, WellFoundedInduction, TLAPS

-----------------------------------------------------------------------------
(* The invariant: kinds of values.                                         *)

Piece == [of : Conns \X Nat, what : Kinds, part : {"header", "body", "end"}]
Requests == Conns \X Nat
Asked == [ask : Conns \X Nat]
Names == [sock : Fds]
Number == 0 .. MaxFd
Node == [is : {"free", "peer", "main", "thread"}, of : Nat]
End == [at : {"off", "arrived", "up", "down"}, asks : Seq(Kinds), out : Seq(Piece),
        end : {"no", "closed", "reset", "never"}]
Pipe == [open : BOOLEAN, q : Seq(Names \cup Asked)]
Handle == [alive : BOOLEAN, backlog : Seq(Nat \ {0}), at : [Slots -> Number], snd : [Slots -> Number],
           work : Seq(Names \cup Asked), i : Slots]

TypedSockets ==
  /\ running \in BOOLEAN /\ fds \in [Fds -> Node] /\ conn \in [Conns -> End]
  /\ slot \in [Slots -> Number] /\ th \in [Slots -> Number] /\ peers \in Int
  /\ rest \in [Slots -> Seq(Piece)] /\ cutting \in Slots \cup {NoSlot} /\ heir \subseteq Slots
  /\ pipe \in Seq(Pipe) /\ thread \in [Threads -> Handle]
  /\ exit \in {"loop", "join", "missed", "destroyed"}
TypedBuffers ==
  /\ main \in Seq(Seq(Piece)) /\ comn \in Seq(Seq(Piece)) /\ proc \in Seq(Seq(Piece))
  /\ Len(main) <= BuffSize /\ Len(comn) <= BuffSize
  /\ msg \in {"test", "lock", "wait", "woken", "puts", "gone"} /\ push \in {"loop", "gone"}

-----------------------------------------------------------------------------
(* The invariant: descriptors.                                             *)

At(t, i) == thread[t].at[i]

\* Every descriptor that is not free has an owner of its kind, and one only.
Owned ==
  /\ \A n \in Fds : fds[n].is = "free" => fds[n] = Free
  /\ \A i \in Slots : slot[i] # None => fds[slot[i]].is = "peer"
  /\ \A i \in Slots : th[i] # None => fds[th[i]].is = "main"
  /\ \A t \in Threads, i \in Slots : At(t, i) # None => fds[At(t, i)].is = "thread"
  /\ \A i, j \in Slots : slot[i] # None /\ slot[i] = slot[j] => i = j
  /\ \A i, j \in Slots : th[i] # None /\ th[i] = th[j] => i = j
  /\ \A t, u \in Threads, i, j \in Slots : At(t, i) # None /\ At(t, i) = At(u, j) => t = u /\ i = j
  /\ \A n \in Fds : fds[n].is = "peer" => \E i \in Slots : slot[i] = n
  /\ \A n \in Fds : fds[n].is = "main" => \E i \in Slots : th[i] = n
  /\ \A n \in Fds : fds[n].is = "thread" => \E t \in Threads, i \in Slots : At(t, i) = n

\* peer_num counts the slots in use.
Counts == peers = Cardinality({i \in Slots \ {0} : slot[i] # None})

\* The main task forwards for peers only, and cuts what a peer sent; a thread that has
\* ended has nothing left.
Busy ==
  /\ \A i \in Slots : th[i] # None => slot[i] # None
  /\ cutting # NoSlot => exit = "loop" /\ slot[cutting] # None /\ HoldsFrame(rest[cutting])
  /\ \A t \in Threads : ~thread[t].alive =>
       thread[t].backlog = <<>> /\ thread[t].work = <<>> /\ \A i \in Slots : At(t, i) = None
  /\ \A t \in Threads : Working(t) => At(t, thread[t].i) # None

-----------------------------------------------------------------------------
(* The invariant: connections.                                             *)

\* Slot i is that of connection k.
Holds(i, k) == slot[i] # None /\ fds[slot[i]] = [is |-> "peer", of |-> k]

\* There is something from k in the buffer of slot i.
From(i, k) == \E m \in DOMAIN rest[i] : rest[i][m].of[1] = k

\* A connection that is up has a slot, and one only; bytes are those of the peer in whose
\* slot they are, or of one that has gone.
Peered ==
  /\ \A i \in Slots : slot[i] # None => \E k \in Conns : Holds(i, k) /\ conn[k].at = "up"
  /\ \A k \in Conns : conn[k].at = "up" => \E i \in Slots : Holds(i, k)
  /\ \A i, j \in Slots, k \in Conns : Holds(i, k) /\ Holds(j, k) => i = j
  /\ \A k \in Conns : conn[k].at # "up" => conn[k].out = <<>>
  /\ \A k \in Conns : \A m \in DOMAIN conn[k].out : conn[k].out[m].of[1] = k
  /\ \A i \in Slots, k \in Conns : From(i, k) => conn[k].at \in {"up", "down"} /\ (conn[k].at = "up" => Holds(i, k))

\* The connection p of slot j to its thread
Leads(j, p) == th[j] # None /\ fds[th[j]] = [is |-> "main", of |-> p]
Taken(t, i, p) == At(t, i) # None /\ fds[At(t, i)] = [is |-> "thread", of |-> p]

\* Each connection to a thread has one end at a time on either side.
Piped ==
  /\ \A n \in Fds : fds[n].is \in {"main", "thread"} => fds[n].of \in DOMAIN pipe
  /\ \A t \in Threads : \A m \in DOMAIN thread[t].backlog : thread[t].backlog[m] \in DOMAIN pipe
  /\ \A i, j \in Slots, p \in DOMAIN pipe : Leads(i, p) /\ Leads(j, p) => i = j
  /\ \A t, u \in Threads, i, j \in Slots, p \in DOMAIN pipe : Taken(t, i, p) /\ Taken(u, j, p) => t = u /\ i = j
  /\ \A t, u \in Threads, i \in Slots, p \in DOMAIN pipe :
       Taken(t, i, p) => \A m \in DOMAIN thread[u].backlog : thread[u].backlog[m] # p
  /\ \A t, u \in Threads : \A m \in DOMAIN thread[t].backlog, n \in DOMAIN thread[u].backlog :
       thread[t].backlog[m] = thread[u].backlog[n] => t = u /\ m = n

\* A question of k travels on the connection of k's slot, while k is there.
Travels(r, p) ==
  /\ conn[r[1]].at \in {"up", "down"}
  /\ conn[r[1]].at = "up" => \E j \in Slots : Holds(j, r[1]) /\ Leads(j, p)

\* The socket s is the one to answer on connection p.
Target(s, p) == \A j \in Slots : Leads(j, p) /\ j \notin heir => s = slot[j]

\* The question r is among the frames q.
Asking(q, r) == \E m \in DOMAIN q : q[m] = [ask |-> r]
OnlyAsks(q) == \A m \in DOMAIN q : q[m] \in Asked
\* The frames q begin with the name of the socket s.
Named(q, s) == q # <<>> /\ q[1] = [sock |-> s] /\ \A m \in DOMAIN q : m # 1 => q[m] \in Asked

\* Connection p waits for thread t.
Waits(t, p) == \E m \in DOMAIN thread[t].backlog : thread[t].backlog[m] = p
\* What thread t is working on for slot i
Work(t, i) == IF thread[t].i = i THEN thread[t].work ELSE <<>>
\* How far the socket s has come that thread t is to answer for its slot i: it is in the
\* connection, it is with the thread, or the thread knows it.
Stage(t, i, p, s) ==
  \/ Named(pipe[p].q, s) /\ Work(t, i) = <<>> /\ thread[t].snd[i] = None
  \/ Named(Work(t, i), s) /\ OnlyAsks(pipe[p].q)
  \/ thread[t].snd[i] = s /\ OnlyAsks(Work(t, i)) /\ OnlyAsks(pipe[p].q)

Serving ==
  /\ \A p \in DOMAIN pipe, r \in Requests : Asking(pipe[p].q, r) => Travels(r, p)
  /\ \A t \in Threads, p \in DOMAIN pipe : Waits(t, p) => \E s \in Fds : Named(pipe[p].q, s) /\ Target(s, p)
  /\ \A t \in Threads, i \in Slots : thread[t].alive /\ At(t, i) = None => thread[t].snd[i] = None
  /\ \A t \in Threads, i \in Slots, p \in DOMAIN pipe, r \in Requests :
       Taken(t, i, p) /\ Asking(Work(t, i), r) => Travels(r, p)
  /\ \A t \in Threads, i \in Slots, p \in DOMAIN pipe :
       Taken(t, i, p) => \E s \in Fds : Target(s, p) /\ Stage(t, i, p, s)

-----------------------------------------------------------------------------
(* The invariant: Objects.                                                 *)

\* An end follows its body, and headers of one connection go down.
Joined(b) ==
  /\ \A m \in DOMAIN b : m # 1 /\ b[m].part = "end" => b[m - 1].part = "body" /\ b[m - 1].of = b[m].of
  /\ \A m, n \in DOMAIN b : m < n /\ b[m].part = "header" /\ b[n].part = "header" /\ b[m].of[1] = b[n].of[1]
       => b[m].of[2] > b[n].of[2]

\* What is to come from the peer of slot i
Left(i) == IF slot[i] = None THEN <<>> ELSE conn[fds[slot[i]].of].out
\* What has come from the peer of slot i, and is still to come
Stream(i) == rest[i] \o Left(i)

\* There is the header of the Object or request n of connection k in b.
Heads(b, k, n) == \E m \in DOMAIN b : b[m].part = "header" /\ b[m].of = <<k, n>>
\* That header has been sent and is not yet cut.
Coming(k, n) == (\E i \in Slots : Heads(rest[i], k, n)) \/ Heads(conn[k].out, k, n)

Streams ==
  /\ \A i \in Slots : Joined(Stream(i)) /\ (rest[i] # <<>> => rest[i][1].part = "header")
  /\ \A i, j \in Slots, k \in Conns : From(i, k) /\ From(j, k) => i = j
  /\ \A k \in Conns, n \in Nat : Coming(k, n) => n > Len(conn[k].asks)

WholeFrame(f) ==
  /\ f \in Seq(Piece) /\ Len(f) = 3
  /\ \A p \in 1 .. 3 : f[p].of = f[1].of /\ f[p].part = <<"header", "body", "end">>[p]

Ordered(q) ==
  /\ \A m \in DOMAIN q : WholeFrame(q[m])
  /\ \A m, n \in DOMAIN q : m < n /\ q[m][1].of[1] = q[n][1].of[1] => q[m][1].of[2] > q[n][1].of[2]

Queue == proc \o comn \o main
\* The Object n of connection k is on its way to the cache.
Passing(k, n) == \E m \in DOMAIN Queue : Queue[m][1].of = <<k, n>>

\* All that is still to be cut of connection k, or to be sent, comes after n.
Ahead(k, n) ==
  /\ \A x \in Nat : Coming(k, x) => n > x
  /\ n > Len(conn[k].asks) /\ conn[k].at \in {"up", "down"}

Passed == Ordered(Queue) /\ \A k \in Conns, n \in Nat : Passing(k, n) => Ahead(k, n)

IInv == TypedSockets /\ TypedBuffers /\ Owned /\ Counts /\ Busy /\ Peered /\ Piped /\ Serving /\ Streams /\ Passed

-----------------------------------------------------------------------------
(* The operators of the model.                                             *)

\* A set of numbers that is not empty has a least one.
LEMMA LeastNat ==
  ASSUME NEW T, T \subseteq Nat, T # {}
  PROVE  \E x \in T : \A y \in T : x <= y
<1> DEFINE Less == OpToRel(<, Nat)
<1>1. IsWellFoundedOn(Less, Nat) BY NatLessThanWellFounded, Zenon
<1>2. \A x, y \in Nat : x < y => <<x, y>> \in Less BY Zenon DEF OpToRel
<1> HIDE DEF Less
<1>3. PICK x \in T : \A y \in T : ~(<<y, x>> \in Less) BY <1>1, WFMin
<1>4. \A y \in T : ~(y < x) BY <1>2, <1>3
<1>5. QED BY <1>4

LEMMA MinIn ==
  ASSUME NEW T, T \subseteq Nat, T # {}
  PROVE  Min(T) \in T /\ \A y \in T : Min(T) <= y
<1>1. PICK x \in T : \A y \in T : x <= y BY LeastNat
<1>2. QED BY <1>1 DEF Min

LEMMA LowestFreeIs ==
  ASSUME TypedSockets, FreeFds # {}
  PROVE  LowestFree(fds) \in Fds /\ fds[LowestFree(fds)] = Free /\ LowestFree(fds) # None
<1> DEFINE T == {n \in Fds : fds[n] = Free}
<1>1. T # {} /\ T \subseteq Nat BY CsmgrdAssumption DEF FreeFds, Fds
<1>2. Min(T) \in T BY <1>1, MinIn
<1>3. QED BY <1>2, CsmgrdAssumption DEF LowestFree, Fds, None

LEMMA Constants ==
  /\ 0 \in Slots /\ Slots \subseteq Nat /\ NoSlot \notin Slots /\ Fds \subseteq Nat
  /\ None \in Number /\ None \notin Fds /\ Number = Fds \cup {None} /\ Free \in Node
  /\ Conns \subseteq Nat /\ BuffSize \in Nat \ {0}
BY CsmgrdAssumption DEF Slots, Fds, None, NoSlot, Number, Free, Node

\* c is a part of b: d elements of b are before it.
Part(c, b) == \E d \in Nat : d + Len(c) <= Len(b) /\ \A x \in 1 .. Len(c) : c[x] = b[x + d]

LEMMA SubSeqPart ==
  ASSUME NEW S, NEW b \in Seq(S), NEW m \in 1 .. Len(b) + 1
  PROVE  Part(SubSeq(b, m, Len(b)), b) /\ SubSeq(b, m, Len(b)) \in Seq(S)
<1>1. Len(b) \in Nat /\ m \in Nat /\ m - 1 \in Nat OBVIOUS
<1>2. CASE m = Len(b) + 1
  <2>1. SubSeq(b, m, Len(b)) = <<>> BY <1>1, <1>2
  <2>2. 0 + Len(<<>>) <= Len(b) /\ \A x \in 1 .. Len(<<>>) : <<>>[x] = b[x + 0] BY <1>1
  <2>3. QED BY <2>1, <2>2 DEF Part
<1>3. CASE m # Len(b) + 1
  <2> DEFINE c == SubSeq(b, m, Len(b))
  <2>1. c \in Seq(S) /\ Len(c) = Len(b) - m + 1 /\ \A x \in 1 .. Len(b) - m + 1 : c[x] = b[m + x - 1]
    BY <1>1, <1>3, SubSeqProperties
  <2> HIDE DEF c
  <2>2. \A x \in 1 .. Len(c) : c[x] = b[x + (m - 1)] BY <1>1, <2>1
  <2>3. (m - 1) + Len(c) <= Len(b) BY <1>1, <2>1
  <2>4. Part(c, b) BY <1>1, <2>2, <2>3 DEF Part
  <2>5. QED BY <2>1, <2>4 DEF c
<1>4. QED BY <1>2, <1>3

LEMMA PartOfPart ==
  ASSUME NEW S, NEW b \in Seq(S), NEW c \in Seq(S), NEW r \in Seq(S), Part(c, r), Part(r, b)
  PROVE  Part(c, b)
<1>1. PICK d \in Nat : d + Len(c) <= Len(r) /\ \A x \in 1 .. Len(c) : c[x] = r[x + d] BY DEF Part
<1>2. PICK e \in Nat : e + Len(r) <= Len(b) /\ \A x \in 1 .. Len(r) : r[x] = b[x + e] BY DEF Part
<1>3. Len(b) \in Nat /\ Len(c) \in Nat /\ Len(r) \in Nat OBVIOUS
<1>4. d + e \in Nat /\ (d + e) + Len(c) <= Len(b) BY <1>1, <1>2, <1>3
<1>5. \A x \in 1 .. Len(c) : c[x] = b[x + (d + e)]
  <2>1. SUFFICES ASSUME NEW x \in 1 .. Len(c) PROVE c[x] = b[x + (d + e)] OBVIOUS
  <2>2. x + d \in 1 .. Len(r) /\ (x + d) + e = x + (d + e) BY <1>1, <1>3
  <2>3. QED BY <1>1, <1>2, <2>2
<1>6. QED BY <1>4, <1>5 DEF Part

LEMMA NoPart == \A b : Len(b) \in Nat => Part(<<>>, b)
<1>1. SUFFICES ASSUME NEW b, Len(b) \in Nat PROVE Part(<<>>, b) OBVIOUS
<1>2. 0 + Len(<<>>) <= Len(b) /\ \A x \in 1 .. Len(<<>>) : <<>>[x] = b[x + 0] BY <1>1
<1>3. QED BY <1>2 DEF Part

LEMMA FromHeaderIs ==
  ASSUME NEW b \in Seq(Piece)
  PROVE  /\ Part(FromHeader(b), b) /\ FromHeader(b) \in Seq(Piece)
         /\ FromHeader(b) # <<>> => FromHeader(b)[1].part = "header"
<1> DEFINE heads == {j \in DOMAIN b : b[j].part = "header"}
<1>0. Len(b) \in Nat /\ DOMAIN b = 1 .. Len(b) OBVIOUS
<1>1. CASE heads = {}
  <2>1. FromHeader(b) = <<>> BY <1>1 DEF FromHeader
  <2>2. QED BY <1>0, <2>1, NoPart
<1>2. CASE heads # {}
  <2>1. heads \subseteq Nat BY <1>0
  <2>2. Min(heads) \in heads BY <1>2, <2>1, MinIn
  <2> DEFINE m == Min(heads)
  <2>3. FromHeader(b) = SubSeq(b, m, Len(b)) BY <1>2 DEF FromHeader
  <2>4. m \in 1 .. Len(b) /\ b[m].part = "header" BY <1>0, <2>2
  <2> HIDE DEF m
  <2>5. FromHeader(b) \in Seq(Piece) /\ FromHeader(b)[1] = b[m]
    BY <1>0, <2>3, <2>4, SubSeqProperties
  <2>6. m \in 1 .. Len(b) + 1 BY <1>0, <2>4
  <2>7. Part(FromHeader(b), b) BY <2>3, <2>6, SubSeqPart
  <2>8. QED BY <2>4, <2>5, <2>7
<1>3. QED BY <1>1, <1>2

\* The main task cuts a part c of what it has read for slot i.
Trimmed(i, c) ==
  /\ i \in Slots /\ cutting' \in {i, NoSlot} /\ rest' = [rest EXCEPT ![i] = c]
  /\ cutting' = i => HoldsFrame(c)
  /\ c # <<>> => c[1].part = "header"

LEMMA CutTrims ==
  ASSUME NEW i \in Slots, NEW b \in Seq(Piece), Cut(i, b)
  PROVE  Trimmed(i, FromHeader(b)) /\ FromHeader(b) \in Seq(Piece) /\ Part(FromHeader(b), b)
<1>1. cutting' \in {i, NoSlot} /\ (cutting' = i => HoldsFrame(FromHeader(b))) BY Constants DEF Cut
<1>2. QED BY <1>1, FromHeaderIs DEF Cut, Trimmed

\* The frame that is cut next
LEMMA FrameIs ==
  ASSUME TypedSockets, Busy, cutting # NoSlot
  PROVE  /\ cutting \in Slots /\ exit = "loop" /\ slot[cutting] # None
         /\ Len(rest[cutting]) \in Nat /\ rest[cutting] # <<>> /\ rest[cutting] \in Seq(Piece)
         /\ Frame \in Seq(Piece) /\ Len(Frame) = Size(rest[cutting][1]) /\ Len(Frame) \in {1, 3}
         /\ Len(Frame) <= Len(rest[cutting])
         /\ \A m \in 1 .. Len(Frame) : Frame[m] = rest[cutting][m]
         /\ Behind \in Seq(Piece) /\ Part(Behind, rest[cutting])
         /\ Len(Behind) = Len(rest[cutting]) - Len(Frame)
         /\ \A m \in 1 .. Len(Behind) : Behind[m] = rest[cutting][m + Len(Frame)]
<1>1. cutting \in Slots /\ exit = "loop" /\ slot[cutting] # None /\ HoldsFrame(rest[cutting])
  BY DEF TypedSockets, Busy
<1> DEFINE b == rest[cutting]
           z == Size(b[1])
<1>2. b \in Seq(Piece) BY <1>1 DEF TypedSockets
<1>3. b # <<>> /\ z <= Len(b) BY <1>1 DEF HoldsFrame
<1>4. z \in {1, 3} BY DEF Size
<1>5. Frame = SubSeq(b, 1, z) /\ Behind = SubSeq(b, z + 1, Len(b)) BY DEF Frame, Behind
<1> HIDE DEF z, b
<1>6. Len(b) \in Nat BY <1>2
<1>7. Frame \in Seq(Piece) /\ Len(Frame) = z - 1 + 1 /\ \A m \in 1 .. z : Frame[m] = b[m]
  BY <1>2, <1>3, <1>4, <1>5, <1>6, SubSeqProperties
<1>8. z + 1 \in 1 .. Len(b) + 1 BY <1>3, <1>4, <1>6
<1>9. Part(Behind, b) /\ Behind \in Seq(Piece) BY <1>2, <1>5, <1>8, SubSeqPart
<1>10. Len(Behind) = Len(b) - z /\ \A m \in 1 .. Len(Behind) : Behind[m] = b[m + z]
  <2>1. CASE z = Len(b)
    <3>1. Behind = <<>> BY <1>2, <1>5, <1>6, <2>1
    <3>2. QED BY <1>6, <2>1, <3>1
  <2>2. CASE z # Len(b)
    <3>1. z + 1 <= Len(b) BY <1>3, <1>4, <1>6, <2>2
    <3>2. Len(Behind) = Len(b) - (z + 1) + 1 /\ \A m \in 1 .. Len(b) - (z + 1) + 1 : Behind[m] = b[(z + 1) + m - 1]
      BY <1>2, <1>4, <1>5, <1>6, <3>1, SubSeqProperties
    <3>3. Len(b) - (z + 1) + 1 = Len(b) - z /\ \A m \in Nat : (z + 1) + m - 1 = m + z BY <1>4, <1>6
    <3>4. \A m \in 1 .. Len(Behind) : m \in Nat /\ Behind[m] = b[(z + 1) + m - 1] BY <1>4, <1>6, <3>2, <3>3
    <3>5. QED BY <3>2, <3>3, <3>4
  <2>3. QED BY <2>1, <2>2
<1>11. z - 1 + 1 = z BY <1>4
<1>12. QED BY <1>1, <1>2, <1>3, <1>4, <1>6, <1>7, <1>9, <1>10, <1>11 DEF b, z

LEMMA CutOnTrims ==
  ASSUME TypedSockets, Busy, cutting # NoSlot, CutOn \/ GiveUp
  PROVE  \E c \in Seq(Piece) : Trimmed(cutting, c) /\ Part(c, Behind) /\ Part(c, rest[cutting])
<1>1. cutting \in Slots /\ Behind \in Seq(Piece) /\ Len(rest[cutting]) \in Nat /\ rest[cutting] \in Seq(Piece)
    /\ Part(Behind, rest[cutting]) BY FrameIs
<1>2. CASE CutOn
  <2>1. Cut(cutting, Behind) BY <1>2 DEF CutOn
  <2>2. Trimmed(cutting, FromHeader(Behind)) /\ FromHeader(Behind) \in Seq(Piece) /\ Part(FromHeader(Behind), Behind)
    BY <1>1, <2>1, CutTrims
  <2>3. Part(FromHeader(Behind), rest[cutting]) BY <1>1, <2>2, PartOfPart
  <2>4. QED BY <2>2, <2>3
<1>3. CASE GiveUp
  <2>1. Trimmed(cutting, <<>>) BY <1>1, <1>3, Constants DEF GiveUp, Trimmed
  <2>2. Len(Behind) \in Nat BY <1>1
  <2>3. Part(<<>>, Behind) /\ Part(<<>>, rest[cutting]) BY <1>1, <2>2, NoPart
  <2>4. <<>> \in Seq(Piece) OBVIOUS
  <2>5. QED BY <2>1, <2>3, <2>4
<1>4. QED BY <1>2, <1>3

-----------------------------------------------------------------------------
(* What the actions have in common.                                        *)

others == <<running, cutting, th, pipe, thread, buffers, msg, push, exit>>

\* Connection k gets slot i, whose old connection, if there is one, is closed.
Accepted(i, k) ==
  /\ i \in Slots /\ k \in Conns /\ AtPoll /\ conn[k].at = "arrived" /\ FreeFds # {}
  /\ fds' = Closed([fds EXCEPT ![LowestFree(fds)] = [is |-> "peer", of |-> k]], slot[i])
  /\ slot' = [slot EXCEPT ![i] = LowestFree(fds)]
  /\ conn' = [Dropped(conn, slot[i]) EXCEPT ![k].at = "up"]
  /\ rest' = rest \/ rest' = [rest EXCEPT ![i] = <<>>]
  /\ peers' = IF i = 0 \/ slot[i] # None THEN peers ELSE peers + 1
  /\ heir' = IF slot[i] = None THEN heir ELSE heir \cup {i}
  /\ UNCHANGED others

\* Connection k is changed, but not whether it is up, unless it is turned away.
TurnedAway(k) ==
  /\ k \in Conns /\ conn[k].at = "arrived" /\ conn' = [conn EXCEPT ![k].at = "down", ![k].asks = <<>>]
  /\ UNCHANGED <<fds, slot, peer, rest, peers, heir, others>>

LEMMA AcceptIs ==
  ASSUME TypedSockets, NEW k \in Conns, AcceptLocal(k) \/ AcceptAgain(k) \/ AcceptNew(k)
  PROVE  (\E i \in Slots : Accepted(i, k)) \/ TurnedAway(k)
<1>1. CASE AcceptLocal(k)
  <2>1. Accepted(0, k) BY <1>1, Constants DEF AcceptLocal, Accepted, others
  <2>2. QED BY <2>1, Constants
<1>2. CASE AcceptAgain(k)
  <2>1. SameSlots(k) # {} /\ SameSlots(k) \subseteq Slots \ {0} /\ SameSlots(k) \subseteq Nat
    BY <1>2, Constants DEF AcceptAgain, SameSlots
  <2>2. Min(SameSlots(k)) \in Slots \ {0} BY <2>1, MinIn
  <2>3. peers \in Int /\ Counted = peers BY DEF TypedSockets, Counted
  <2>4. Accepted(Min(SameSlots(k)), k) BY <1>2, <2>2, <2>3 DEF AcceptAgain, Accepted, others
  <2>5. QED BY <2>2, <2>4
<1>3. CASE AcceptNew(k)
  <2>1. CASE FreeSlots(slot) = {} BY <1>3, <2>1 DEF AcceptNew, TurnedAway, others
  <2>2. CASE FreeSlots(slot) # {}
    <3>1. FreeSlots(slot) \subseteq Slots \ {0} /\ FreeSlots(slot) \subseteq Nat BY Constants DEF FreeSlots
    <3>2. Min(FreeSlots(slot)) \in Slots \ {0} /\ slot[Min(FreeSlots(slot))] = None
      BY <2>2, <3>1, MinIn DEF FreeSlots
    <3>3. Accepted(Min(FreeSlots(slot)), k)
      BY <1>3, <2>2, <3>2 DEF AcceptNew, Accepted, others, Closed, Dropped
    <3>4. QED BY <3>2, <3>3
  <2>3. QED BY <2>1, <2>2
<1>4. QED BY <1>1, <1>2, <1>3

-----------------------------------------------------------------------------
(* Kinds of values.                                                        *)

LEMMA DroppedTyped ==
  ASSUME TypedSockets, NEW n
  PROVE  Dropped(conn, n) \in [Conns -> End]
<1> DEFINE k == fds[n].of
<1>1. CASE n = None \/ fds[n].is # "peer" BY <1>1 DEF Dropped, TypedSockets
<1>2. CASE ~(n = None \/ fds[n].is # "peer")
  <2>1. <<>> \in Seq(Piece) /\ <<>> \in Seq(Kinds) OBVIOUS
  <2>2. CASE k \in Conns
    <3>1. conn[k] \in End BY <2>2 DEF TypedSockets
    <3>2. [conn[k] EXCEPT !.at = "down", !.asks = <<>>, !.out = <<>>] \in End BY <2>1, <3>1 DEF End
    <3>3. QED BY <1>2, <3>2 DEF Dropped, TypedSockets
  <2>3. CASE k \notin Conns BY <1>2, <2>3 DEF Dropped, TypedSockets
  <2>4. QED BY <2>2, <2>3
<1>3. QED BY <1>1, <1>2

LEMMA TypedAccepted ==
  ASSUME TypedSockets, NEW i, NEW k, Accepted(i, k)
  PROVE  TypedSockets'
<1> DEFINE n == LowestFree(fds)
<1>1. n \in Fds /\ i \in Slots /\ k \in Conns /\ k \in Nat BY LowestFreeIs, Constants DEF Accepted
<1>2. fds' \in [Fds -> Node]
  <2>1. [fds EXCEPT ![n] = [is |-> "peer", of |-> k]] \in [Fds -> Node] BY <1>1 DEF TypedSockets, Node
  <2>2. QED BY <2>1, Constants DEF Accepted, Closed
<1>3. conn' \in [Conns -> End]
  <2>1. Dropped(conn, slot[i]) \in [Conns -> End] BY DroppedTyped
  <2>2. QED BY <2>1 DEF Accepted, End
<1>4. slot' \in [Slots -> Number] BY <1>1, Constants DEF Accepted, TypedSockets
<1>5. rest' \in [Slots -> Seq(Piece)]
  <2>1. <<>> \in Seq(Piece) OBVIOUS
  <2>2. QED BY <1>1, <2>1 DEF Accepted, TypedSockets
<1>6. peers' \in Int /\ heir' \subseteq Slots BY <1>1 DEF Accepted, TypedSockets
<1>7. QED BY <1>2, <1>3, <1>4, <1>5, <1>6 DEF Accepted, TypedSockets, others

LEMMA PiecesTyped ==
  ASSUME NEW k \in Conns, NEW n \in Nat, NEW what \in Kinds
  PROVE  /\ Pieces(k, n, what) \in Seq(Piece) /\ Len(Pieces(k, n, what)) \in 1 .. 3
         /\ \A m \in DOMAIN Pieces(k, n, what) :
              Pieces(k, n, what)[m].of = <<k, n>> /\ Pieces(k, n, what)[m].part = <<"header", "body", "end">>[m]
<1> DEFINE piece(p) == [of |-> <<k, n>>, what |-> what, part |-> p]
<1>1. piece("header") \in Piece /\ piece("body") \in Piece /\ piece("end") \in Piece BY DEF Piece
<1>2. Pieces(k, n, what) = CASE what = "Object" -> <<piece("header"), piece("body"), piece("end")>>
                             [] what = "Cut" -> <<piece("header"), piece("body")>>
                             [] OTHER -> <<piece("header")>>
  BY DEF Pieces
<1>2a. \A p \in {"header", "body", "end"} : piece(p).of = <<k, n>> /\ piece(p).part = p OBVIOUS
<1> HIDE DEF piece
<1>3. CASE what = "Object" BY <1>1, <1>2, <1>2a, <1>3
<1>4. CASE what = "Cut" BY <1>1, <1>2, <1>2a, <1>4
<1>5. CASE what # "Object" /\ what # "Cut" BY <1>1, <1>2, <1>2a, <1>5
<1>6. QED BY <1>3, <1>4, <1>5

LEMMA TypedConn ==
  ASSUME TypedSockets, NEW k \in Conns,
         Connect(k) \/ Send(k) \/ Leave(k, "closed") \/ Leave(k, "reset") \/ TurnedAway(k)
  PROVE  TypedSockets'
<1>1. conn' \in [Conns -> End]
  <2>1. CASE Connect(k) BY <2>1 DEF Connect, TypedSockets, End
  <2>2. CASE Send(k)
    <3>1. conn[k] \in End /\ conn[k].asks \in Seq(Kinds) /\ conn[k].asks # <<>> /\ conn[k].out \in Seq(Piece)
      BY <2>2 DEF Send, TypedSockets, End
    <3>2. Tail(conn[k].asks) \in Seq(Kinds) /\ Head(conn[k].asks) \in Kinds /\ Len(conn[k].asks) \in Nat BY <3>1
    <3>3. Pieces(k, Len(conn[k].asks), Head(conn[k].asks)) \in Seq(Piece) BY <3>2, PiecesTyped
    <3>4. conn[k].out \o Pieces(k, Len(conn[k].asks), Head(conn[k].asks)) \in Seq(Piece) BY <3>1, <3>3, ConcatProperties
    <3>5. QED BY <2>2, <3>1, <3>2, <3>4 DEF Send, TypedSockets, End
  <2>3. CASE Leave(k, "closed") BY <2>3 DEF Leave, TypedSockets, End
  <2>4. CASE Leave(k, "reset") BY <2>4 DEF Leave, TypedSockets, End
  <2>5. CASE TurnedAway(k)
    <3>1. conn[k] \in End /\ <<>> \in Seq(Kinds) BY DEF TypedSockets
    <3>2. [conn[k] EXCEPT !.at = "down", !.asks = <<>>] \in End BY <3>1 DEF End
    <3>3. QED BY <2>5, <3>2 DEF TurnedAway, TypedSockets
  <2>6. QED BY <2>1, <2>2, <2>3, <2>4, <2>5
<1>2. UNCHANGED <<running, fds, slot, th, peers, rest, cutting, heir, pipe, thread, exit>>
  BY DEF Connect, Send, Leave, TurnedAway, others, sockets
<1>3. QED BY <1>1, <1>2 DEF TypedSockets

LEMMA TypedClose ==
  ASSUME TypedSockets, Owned, Piped, NEW i \in Slots, CloseSlot(i)
  PROVE  TypedSockets'
<1>1. conn' \in [Conns -> End] BY DroppedTyped DEF CloseSlot
<1>2. slot' \in [Slots -> Number] /\ th' \in [Slots -> Number] BY Constants DEF CloseSlot, HangsUp, TypedSockets
<1>3. fds' \in [Fds -> Node]
  <2>1. Closed(fds, slot[i]) \in [Fds -> Node] BY Constants DEF TypedSockets, Closed
  <2>2. QED BY <2>1, Constants DEF CloseSlot, Closed
<1>4. pipe' \in Seq(Pipe)
  <2>1. CASE th[i] = None BY <2>1 DEF CloseSlot, HangsUp, TypedSockets
  <2>2. CASE th[i] # None
    <3> DEFINE p == fds[th[i]].of
    <3>1. th[i] \in Fds /\ fds[th[i]].is = "main" BY <2>2, Constants DEF TypedSockets, Owned
    <3>2. p \in DOMAIN pipe BY <3>1 DEF Piped
    <3>3. pipe' = [pipe EXCEPT ![p].open = FALSE] BY <2>2 DEF CloseSlot, HangsUp
    <3>4. pipe \in Seq(Pipe) /\ pipe[p] \in Pipe BY <3>2 DEF TypedSockets
    <3>5. [pipe[p] EXCEPT !.open = FALSE] \in Pipe BY <3>4 DEF Pipe
    <3>6. pipe' = [pipe EXCEPT ![p] = [pipe[p] EXCEPT !.open = FALSE]] BY <3>3
    <3>7. QED BY <3>2, <3>4, <3>5, <3>6, ExceptSeq
  <2>3. QED BY <2>1, <2>2
<1>5. rest' \in [Slots -> Seq(Piece)] /\ peers' \in Int /\ heir' \subseteq Slots
  <2>1. <<>> \in Seq(Piece) OBVIOUS
  <2>2. rest' = rest \/ rest' = [rest EXCEPT ![i] = <<>>] BY DEF CloseSlot
  <2>3. rest' \in [Slots -> Seq(Piece)] BY <2>1, <2>2 DEF TypedSockets
  <2>4. peers' = peers \/ peers' = peers - 1 BY DEF CloseSlot
  <2>5. heir' = heir \ {i} BY DEF CloseSlot
  <2>6. peers \in Int /\ heir \subseteq Slots BY DEF TypedSockets
  <2>7. QED BY <2>3, <2>4, <2>5, <2>6
<1>6. QED BY <1>1, <1>2, <1>3, <1>4, <1>5 DEF CloseSlot, TypedSockets

LEMMA TypedRead ==
  ASSUME TypedSockets, Peered, NEW i \in Slots, MainRead(i)
  PROVE  TypedSockets' /\ \E k \in Conns, n \in Nat :
           /\ Holds(i, k) /\ n \in 1 .. Len(conn[k].out) /\ cutting = NoSlot /\ exit = "loop"
           /\ conn' = [conn EXCEPT ![k].out = SubSeq(conn[k].out, n + 1, Len(conn[k].out))]
           /\ SubSeq(conn[k].out, n + 1, Len(conn[k].out)) \in Seq(Piece)
           /\ rest[i] \o SubSeq(conn[k].out, 1, n) \in Seq(Piece)
           /\ Cut(i, rest[i] \o SubSeq(conn[k].out, 1, n))
<1>1. PICK k \in Conns : Holds(i, k) BY DEF MainRead, Peered
<1>2. fds[slot[i]].of = k /\ slot[i] # None BY <1>1 DEF Holds
<1>3. PICK n \in 1 .. Len(conn[k].out) :
        /\ conn' = [conn EXCEPT ![k].out = SubSeq(@, n + 1, Len(@))]
        /\ Cut(i, rest[i] \o SubSeq(conn[k].out, 1, n))
  BY <1>2 DEF MainRead
<1> DEFINE o == conn[k].out
<1>4. conn[k] \in End /\ o \in Seq(Piece) /\ rest[i] \in Seq(Piece) BY DEF TypedSockets, End
<1>5. Len(o) \in Nat /\ n \in Nat BY <1>4
<1>6. SubSeq(o, n + 1, Len(o)) \in Seq(Piece)
  <2>1. n + 1 \in 1 .. Len(o) + 1 BY <1>3, <1>5
  <2>2. QED BY <1>4, <2>1, SubSeqPart
<1>7. SubSeq(o, 1, n) \in Seq(Piece) BY <1>3, <1>4, <1>5, SubSeqProperties
<1>8. rest[i] \o SubSeq(o, 1, n) \in Seq(Piece) BY <1>4, <1>7, ConcatProperties
<1>9. Trimmed(i, FromHeader(rest[i] \o SubSeq(o, 1, n))) /\ FromHeader(rest[i] \o SubSeq(o, 1, n)) \in Seq(Piece)
  BY <1>3, <1>8, CutTrims
<1>10. conn' = [conn EXCEPT ![k].out = SubSeq(o, n + 1, Len(o))] BY <1>3
<1>11. conn' \in [Conns -> End] BY <1>4, <1>6, <1>10 DEF TypedSockets, End
<1>12. rest' \in [Slots -> Seq(Piece)] /\ cutting' \in Slots \cup {NoSlot} BY <1>9 DEF Trimmed, TypedSockets
<1>13. TypedSockets' BY <1>11, <1>12 DEF MainRead, TypedSockets
<1>14. QED BY <1>1, <1>3, <1>5, <1>6, <1>8, <1>10, <1>13, Zenon DEF MainRead, AtPoll

LEMMA TrimTyped ==
  ASSUME TypedSockets, Busy, cutting # NoSlot, CutOn \/ GiveUp
  PROVE  rest' \in [Slots -> Seq(Piece)] /\ cutting' \in Slots \cup {NoSlot}
<1>1. PICK c \in Seq(Piece) : Trimmed(cutting, c) BY CutOnTrims
<1>2. QED BY <1>1 DEF Trimmed, TypedSockets

LEMMA TypedFrame ==
  ASSUME TypedSockets, Owned, Busy, Piped, MainFrame
  PROVE  TypedSockets'
<1>1. cutting # NoSlot /\ (CutOn \/ GiveUp)
  BY DEF MainFrame, MainObject, MainKill, MainForward, MainConnect, MainFails, Asks
<1>2. rest' \in [Slots -> Seq(Piece)] /\ cutting' \in Slots \cup {NoSlot} BY <1>1, TrimTyped
<1>3. cutting \in Slots /\ slot[cutting] # None /\ Frame \in Seq(Piece) /\ Len(Frame) \in {1, 3} BY <1>1, FrameIs
<1>4. Frame[1] \in Piece BY <1>3
<1>5. [ask |-> Frame[1].of] \in Asked BY <1>4 DEF Asked, Piece
<1>6. CASE MainObject BY <1>2, <1>6 DEF MainObject, TypedSockets
<1>7. CASE MainKill BY <1>2, <1>7 DEF MainKill, TypedSockets
<1>8. CASE MainFails BY <1>2, <1>8 DEF MainFails, TypedSockets
<1>9. CASE MainForward
  <2> DEFINE p == fds[th[cutting]].of
             m == [ask |-> Frame[1].of]
  <2>1. th[cutting] \in Fds /\ fds[th[cutting]].is = "main" BY <1>3, <1>9, Constants DEF MainForward, TypedSockets, Owned
  <2>2. p \in DOMAIN pipe BY <2>1 DEF Piped
  <2>3. pipe' = [pipe EXCEPT ![p].q = Append(pipe[p].q, m)] BY <1>9, <2>2 DEF MainForward
  <2>4. pipe \in Seq(Pipe) /\ pipe[p] \in Pipe BY <2>2 DEF TypedSockets
  <2>5. Append(pipe[p].q, m) \in Seq(Names \cup Asked) BY <1>5, <2>4 DEF Pipe
  <2>6. [pipe[p] EXCEPT !.q = Append(pipe[p].q, m)] \in Pipe BY <2>4, <2>5 DEF Pipe
  <2>7. pipe' = [pipe EXCEPT ![p] = [pipe[p] EXCEPT !.q = Append(pipe[p].q, m)]] BY <2>3
  <2>8. pipe' \in Seq(Pipe) BY <2>2, <2>4, <2>6, <2>7, ExceptSeq
  <2>9. QED BY <1>2, <1>9, <2>8 DEF MainForward, TypedSockets
<1>10. CASE MainConnect
  <2> DEFINE n == LowestFree(fds)
             p == Len(pipe) + 1
             t == ThreadFor(Frame)
             x == [open |-> TRUE, q |-> <<[sock |-> slot[cutting]], [ask |-> Frame[1].of]>>]
  <2>1. FreeFds # {} BY <1>10 DEF MainConnect, CanConnect
  <2>2. n \in Fds BY <2>1, LowestFreeIs
  <2>3. pipe \in Seq(Pipe) /\ Len(pipe) \in Nat BY DEF TypedSockets
  <2>4. p \in Nat \ {0} BY <2>3
  <2>5. fds' \in [Fds -> Node] BY <1>10, <2>2, <2>4 DEF MainConnect, TypedSockets, Node
  <2>6. th' \in [Slots -> Number] BY <1>10, <2>2, Constants DEF MainConnect, TypedSockets
  <2>7. slot[cutting] \in Fds BY <1>3, Constants DEF TypedSockets
  <2>8. [sock |-> slot[cutting]] \in Names BY <2>7 DEF Names
  <2>9. <<[sock |-> slot[cutting]], [ask |-> Frame[1].of]>> \in Seq(Names \cup Asked) BY <1>5, <2>8
  <2>10. x \in Pipe BY <2>9 DEF Pipe
  <2>11. pipe' = Append(pipe, x) BY <1>10 DEF MainConnect
  <2>12. pipe' \in Seq(Pipe) BY <2>3, <2>10, <2>11
  <2>13. t \in Threads BY DEF ThreadFor, Threads
  <2>14. thread[t] \in Handle /\ thread[t].backlog \in Seq(Nat \ {0}) BY <2>13 DEF TypedSockets, Handle
  <2>15. Append(thread[t].backlog, p) \in Seq(Nat \ {0}) BY <2>4, <2>14
  <2>16. thread' = [thread EXCEPT ![t].backlog = Append(thread[t].backlog, p)]
    BY <1>10, <2>13 DEF MainConnect, TypedSockets
  <2> HIDE DEF p, t, n, x
  <2>17. thread' \in [Threads -> Handle] BY <2>14, <2>15, <2>16 DEF TypedSockets, Handle
  <2>18. QED BY <1>2, <1>10, <2>5, <2>6, <2>12, <2>17 DEF MainConnect, TypedSockets
<1>11. QED BY <1>6, <1>7, <1>8, <1>9, <1>10 DEF MainFrame

\* What an action of thread t changes
OfThread(t) ==
  /\ \A u \in Threads \ {t} : thread'[u] = thread[u]
  /\ UNCHANGED <<running, conn, slot, peer, rest, cutting, th, peers, buffers, msg, push, exit, heir>>

LEMMA TypedThread ==
  ASSUME TypedSockets, Owned, Piped, Busy, NEW t \in Threads,
         \/ ThreadAccept(t) \/ ThreadFrame(t) \/ ThreadEnd(t)
         \/ \E i \in Slots : ThreadRead(t, i) \/ ThreadClose(t, i)
  PROVE  TypedSockets' /\ OfThread(t)
<1>0. thread \in [Threads -> Handle] /\ thread[t] \in Handle /\ pipe \in Seq(Pipe)
    /\ thread[t].backlog \in Seq(Nat \ {0}) /\ thread[t].work \in Seq(Names \cup Asked)
  BY DEF TypedSockets, Handle
<1>1. CASE ThreadAccept(t)
  <2> DEFINE p == Head(thread[t].backlog)
             n == LowestFree(fds)
             free == FreeSlots(thread[t].at)
  <2>1. FreeFds # {} /\ thread[t].backlog # <<>> BY <1>1 DEF ThreadAccept
  <2>2. n \in Fds BY <2>1, LowestFreeIs
  <2>3. Tail(thread[t].backlog) \in Seq(Nat \ {0}) /\ p \in Nat BY <1>0, <2>1
  <2>4. p \in DOMAIN pipe
    <3>1. 1 \in DOMAIN thread[t].backlog /\ p = thread[t].backlog[1] BY <1>0, <2>1
    <3>2. QED BY <3>1 DEF Piped
  <2>5. CASE free = {}
    <3>1. thread' = [thread EXCEPT ![t].backlog = Tail(thread[t].backlog)] BY <1>0, <1>1, <2>5 DEF ThreadAccept
    <3>2. thread' \in [Threads -> Handle] /\ \A u \in Threads \ {t} : thread'[u] = thread[u]
      BY <1>0, <2>3, <3>1 DEF Handle
    <3>3. pipe' = [pipe EXCEPT ![p] = [pipe[p] EXCEPT !.open = FALSE]] BY <1>1, <2>5 DEF ThreadAccept
    <3>8. pipe[p] \in Pipe BY <1>0, <2>4
    <3>4. [pipe[p] EXCEPT !.open = FALSE] \in Pipe BY <3>8 DEF Pipe
    <3>5. pipe' \in Seq(Pipe) BY <1>0, <2>4, <3>3, <3>4, ExceptSeq
    <3>6. fds' = fds BY <1>1, <2>5 DEF ThreadAccept
    <3>7. QED BY <1>1, <3>2, <3>5, <3>6 DEF ThreadAccept, TypedSockets, OfThread
  <2>6. CASE free # {}
    <3>1. Min(free) \in Slots BY <2>6, MinIn, Constants DEF FreeSlots
    <3>2. thread' = [thread EXCEPT ![t].backlog = Tail(thread[t].backlog), ![t].at[Min(free)] = n]
      BY <1>0, <1>1, <2>6 DEF ThreadAccept
    <3>3. thread' \in [Threads -> Handle] /\ \A u \in Threads \ {t} : thread'[u] = thread[u]
      <4>1. [thread[t].at EXCEPT ![Min(free)] = n] \in [Slots -> Number] BY <1>0, <2>2, <3>1, Constants DEF Handle
      <4>2. thread' = [thread EXCEPT ![t] = [thread[t] EXCEPT !.backlog = Tail(thread[t].backlog),
                                                               !.at = [thread[t].at EXCEPT ![Min(free)] = n]]]
        BY <1>0, <3>2 DEF Handle
      <4>3. [thread[t] EXCEPT !.backlog = Tail(thread[t].backlog), !.at = [thread[t].at EXCEPT ![Min(free)] = n]] \in Handle
        BY <1>0, <2>3, <4>1 DEF Handle
      <4>4. QED BY <1>0, <4>2, <4>3
    <3>4. fds' \in [Fds -> Node] /\ pipe' = pipe BY <1>1, <2>2, <2>3, <2>6 DEF ThreadAccept, TypedSockets, Node
    <3>5. QED BY <1>1, <3>3, <3>4 DEF ThreadAccept, TypedSockets, OfThread
  <2>7. QED BY <2>5, <2>6
<1>2. CASE ThreadFrame(t)
  <2>1. thread[t].work # <<>> BY <1>2 DEF ThreadFrame, Working
  <2> DEFINE f == Head(thread[t].work)
  <2>2. f \in Names \cup Asked /\ Tail(thread[t].work) \in Seq(Names \cup Asked) BY <1>0, <2>1
  <2>3. thread' \in [Threads -> Handle] /\ \A u \in Threads \ {t} : thread'[u] = thread[u]
    <3> DEFINE left == [thread EXCEPT ![t].work = Tail(thread[t].work)]
    <3>1. left \in [Threads -> Handle] /\ left[t].snd = thread[t].snd /\ \A u \in Threads \ {t} : left[u] = thread[u]
      BY <1>0, <2>2 DEF Handle
    <3>2. CASE "sock" \in DOMAIN f
      <4>1. f \in Names
        <5>1. \A x \in Asked : DOMAIN x = {"ask"} BY DEF Asked
        <5>2. QED BY <2>2, <3>2, <5>1
      <4>2. f.sock \in Number BY <4>1, Constants DEF Names
      <4>3. thread' = [left EXCEPT ![t].snd[thread[t].i] = f.sock] BY <1>2, <1>0, <3>2 DEF ThreadFrame
      <4> HIDE DEF left
      <4>4. [left[t].snd EXCEPT ![thread[t].i] = f.sock] \in [Slots -> Number] BY <3>1, <4>2 DEF Handle
      <4>5. thread' = [left EXCEPT ![t] = [left[t] EXCEPT !.snd = [left[t].snd EXCEPT ![thread[t].i] = f.sock]]]
        BY <3>1, <4>3 DEF Handle
      <4>8. left[t] \in Handle BY <3>1
      <4>6. [left[t] EXCEPT !.snd = [left[t].snd EXCEPT ![thread[t].i] = f.sock]] \in Handle BY <4>8, <4>4 DEF Handle
      <4>7. QED BY <3>1, <4>5, <4>6
    <3>3. CASE "sock" \notin DOMAIN f
      <4>1. thread' = left BY <1>0, <1>2, <3>3 DEF ThreadFrame
      <4>2. QED BY <3>1, <4>1
    <3>4. QED BY <3>2, <3>3
  <2>4. QED BY <1>2, <2>3 DEF ThreadFrame, TypedSockets, OfThread, sockets
<1>3. CASE ThreadEnd(t)
  <2>1. [i \in Slots |-> None] \in [Slots -> Number] /\ <<>> \in Seq(Nat \ {0}) BY Constants
  <2>2. thread' = [thread EXCEPT ![t] = [thread[t] EXCEPT !.alive = FALSE, !.backlog = <<>>, !.at = [i \in Slots |-> None]]]
    BY <1>3 DEF ThreadEnd
  <2>3. [thread[t] EXCEPT !.alive = FALSE, !.backlog = <<>>, !.at = [i \in Slots |-> None]] \in Handle
    BY <1>0, <2>1 DEF Handle
  <2>4. thread' \in [Threads -> Handle] /\ \A u \in Threads \ {t} : thread'[u] = thread[u] BY <1>0, <2>2, <2>3
  <2>5. fds' \in [Fds -> Node] BY <1>3, Constants DEF ThreadEnd, TypedSockets
  <2>6. pipe' \in Seq(Pipe)
    <3>1. DOMAIN pipe = 1 .. Len(pipe) /\ Len(pipe) \in Nat BY <1>0
    <3>2. \A p \in 1 .. Len(pipe) : pipe[p] \in Pipe /\ [pipe[p] EXCEPT !.open = FALSE] \in Pipe
      <4>1. \A p \in 1 .. Len(pipe) : pipe[p] \in Pipe BY <1>0, <3>1
      <4>2. \A x \in Pipe : [x EXCEPT !.open = FALSE] \in Pipe BY DEF Pipe
      <4>3. QED BY <4>1, <4>2
    <3>3. DOMAIN pipe' = 1 .. Len(pipe) /\ \A p \in 1 .. Len(pipe) : pipe'[p] \in Pipe BY <1>3, <3>1, <3>2 DEF ThreadEnd
    <3>4. pipe' = [p \in 1 .. Len(pipe) |-> pipe'[p]] BY <1>3, <3>1 DEF ThreadEnd
    <3>5. QED BY <3>1, <3>3, <3>4, IsASeq
  <2>7. QED BY <1>3, <2>4, <2>5, <2>6 DEF ThreadEnd, TypedSockets, OfThread
<1>4. ASSUME NEW i \in Slots, ThreadRead(t, i) PROVE TypedSockets' /\ OfThread(t)
  <2>1. PICK n \in Fds : n = thread[t].at[i] /\ fds[n].is = "thread"
    <3>1. thread[t].at[i] # None /\ thread[t].at[i] \in Number BY <1>0, <1>4, Zenon DEF ThreadRead, Handle
    <3>2. At(t, i) = thread[t].at[i] BY DEF At
    <3>3. At(t, i) \in Fds /\ fds[At(t, i)].is = "thread" BY <3>1, <3>2, Constants DEF Owned
    <3>4. QED BY <3>2, <3>3, Zenon
  <2>2. PICK p \in DOMAIN pipe : p = fds[n].of BY <2>1 DEF Piped
  <2>3. pipe[p] \in Pipe BY <1>0, <2>2
  <2>4. PICK q \in Seq(Names \cup Asked) : q = pipe[p].q BY <2>3 DEF Pipe
  <2>5. thread' = [thread EXCEPT ![t] = [thread[t] EXCEPT !.work = q, !.i = i]]
    BY <1>4, <2>1, <2>2, <2>4, Zenon DEF ThreadRead
  <2>6. [thread[t] EXCEPT !.work = q, !.i = i] \in Handle BY <1>0, <2>4 DEF Handle
  <2>7. thread' \in [Threads -> Handle] /\ \A u \in Threads \ {t} : thread'[u] = thread[u] BY <1>0, <2>5, <2>6
  <2>8. pipe' = [pipe EXCEPT ![p] = [pipe[p] EXCEPT !.q = <<>>]] BY <1>4, <2>1, <2>2, Zenon DEF ThreadRead
  <2>9. [pipe[p] EXCEPT !.q = <<>>] \in Pipe
    <3>1. <<>> \in Seq(Names \cup Asked) OBVIOUS
    <3>2. QED BY <2>3, <3>1 DEF Pipe
  <2>10. pipe' \in Seq(Pipe) BY <1>0, <2>2, <2>8, <2>9, ExceptSeq
  <2>11. QED BY <1>4, <2>7, <2>10, Zenon DEF ThreadRead, TypedSockets, OfThread, sockets
<1>5. ASSUME NEW i \in Slots, ThreadClose(t, i) PROVE TypedSockets' /\ OfThread(t)
  <2> DEFINE h == thread[t]
  <2>1. [h.at EXCEPT ![i] = None] \in [Slots -> Number] /\ [h.snd EXCEPT ![i] = None] \in [Slots -> Number]
    BY <1>0, Constants DEF Handle
  <2>2. thread' = [thread EXCEPT ![t] = [h EXCEPT !.at = [h.at EXCEPT ![i] = None], !.snd = [h.snd EXCEPT ![i] = None]]]
    BY <1>0, <1>5, Zenon DEF ThreadClose, Handle
  <2>3. [h EXCEPT !.at = [h.at EXCEPT ![i] = None], !.snd = [h.snd EXCEPT ![i] = None]] \in Handle
    BY <1>0, <2>1 DEF Handle
  <2>4. thread' \in [Threads -> Handle] /\ \A u \in Threads \ {t} : thread'[u] = thread[u] BY <1>0, <2>2, <2>3
  <2>5. fds' \in [Fds -> Node] BY <1>5, Constants, Zenon DEF ThreadClose, Closed, TypedSockets
  <2>6. QED BY <1>5, <2>4, <2>5, Zenon DEF ThreadClose, TypedSockets, OfThread
<1>6. QED BY <1>1, <1>2, <1>3, <1>4, <1>5

-----------------------------------------------------------------------------
(* The buffers.                                                            *)

Buffer == Seq(Seq(Piece))
Signals == {"test", "lock", "wait", "woken", "puts", "gone"}

\* What Main2Comn and TakeObject make of the two buffers: nothing is lost but all of
\* what was in the main buffer, and a frame that is checked is added at the end.
Result(s, x) ==
  /\ s.main \in Buffer /\ s.comn \in Buffer /\ s.msg \in Signals
  /\ Len(s.main) <= BuffSize /\ Len(s.comn) <= BuffSize
  /\ s.comn \o s.main = x

LEMMA Main2CommonIs ==
  ASSUME TypedBuffers
  PROVE  LET s == Main2Comn(Shared) IN
         s.main = <<>> /\ (Result(s, comn \o main) \/ Result(s, comn)) /\ s = [main |-> s.main, comn |-> s.comn, msg |-> s.msg]
<1> DEFINE s == Main2Comn(Shared)
<1>1. main \in Buffer /\ comn \in Buffer /\ Len(main) \in Nat /\ Len(comn) \in Nat /\ BuffSize \in Nat
    /\ Len(main) <= BuffSize /\ Len(comn) <= BuffSize /\ <<>> \in Buffer /\ Len(<<>>) = 0
  BY Constants DEF TypedBuffers, Buffer
<1>2. Signalled(msg) \in Signals BY DEF Signalled, TypedBuffers, Signals
<1>3. comn \o <<>> = comn BY <1>1, ConcatEmptySeq DEF Buffer
<1>4. CASE main = <<>>
  <2>1. s = [main |-> main, comn |-> comn, msg |-> Signalled(msg)] BY <1>4 DEF Main2Comn, Shared
  <2>2. Result(s, comn \o main) BY <1>1, <1>2, <2>1 DEF Result
  <2>3. QED BY <1>4, <2>1, <2>2
<1>5. CASE main # <<>> /\ BuffSize < Len(comn) + Len(main)
  <2>1. s = [main |-> <<>>, comn |-> comn, msg |-> Signalled(msg)] BY <1>5 DEF Main2Comn, Shared
  <2>2. Result(s, comn) BY <1>1, <1>2, <1>3, <2>1 DEF Result
  <2>3. QED BY <2>1, <2>2
<1>6. CASE main # <<>> /\ ~(BuffSize < Len(comn) + Len(main))
  <2>1. s = [main |-> <<>>, comn |-> comn \o main, msg |-> Signalled(msg)] BY <1>6 DEF Main2Comn, Shared, Emptied
  <2>2. comn \o main \in Buffer /\ Len(comn \o main) = Len(comn) + Len(main) BY <1>1, ConcatProperties DEF Buffer
  <2>3. (comn \o main) \o <<>> = comn \o main BY <2>2, ConcatEmptySeq DEF Buffer
  <2>4. Result(s, comn \o main) BY <1>1, <1>2, <1>6, <2>1, <2>2, <2>3 DEF Result
  <2>5. QED BY <2>1, <2>4
<1>7. QED BY <1>4, <1>5, <1>6

LEMMA AppendBehind ==
  ASSUME NEW S, NEW b \in Seq(S), NEW c \in Seq(S), NEW e \in S
  PROVE  b \o Append(c, e) = Append(b \o c, e)
<1>1. Append(c, e) = c \o <<e>> BY AppendIsConcat
<1>2. <<e>> \in Seq(S) OBVIOUS
<1>3. b \o (c \o <<e>>) = (b \o c) \o <<e>> BY <1>2, ConcatAssociative
<1>4. b \o c \in Seq(S) BY ConcatProperties
<1>5. Append(b \o c, e) = (b \o c) \o <<e>> BY <1>4, AppendIsConcat
<1>6. QED BY <1>1, <1>3, <1>5

LEMMA TakeIs ==
  ASSUME TypedBuffers, NEW f \in Seq(Piece)
  PROVE  LET s == TakeObject(Shared, f) IN
         \E x \in {comn \o main, comn} : Result(s, x) \/ (FrameCheck(f) /\ Result(s, Append(x, f)))
<1> DEFINE s == TakeObject(Shared, f)
           r == IF Room(main) THEN Shared ELSE Main2Comn(Shared)
<1>1. main \in Buffer /\ comn \in Buffer /\ Len(main) \in Nat /\ Len(comn) \in Nat /\ BuffSize \in Nat
    /\ Len(main) <= BuffSize /\ Len(comn) <= BuffSize /\ msg \in Signals
  BY Constants DEF TypedBuffers, Buffer, Signals
<1>2. Result(Shared, comn \o main) BY <1>1 DEF Result, Shared
<1>3. CASE ~FrameCheck(f) \/ lack.f \/ lack.m
  <2>1. s = Shared BY <1>3 DEF TakeObject
  <2>2. QED BY <1>2, <2>1
<1>4. CASE ~(~FrameCheck(f) \/ lack.f \/ lack.m)
  <2>1. s = IF Room(r.main) THEN [r EXCEPT !.main = Append(@, f)] ELSE r BY <1>4 DEF TakeObject, Shared
  <2>2. r = [main |-> r.main, comn |-> r.comn, msg |-> r.msg] /\ \E x \in {comn \o main, comn} : Result(r, x)
    <3>1. CASE Room(main) BY <1>2, <3>1 DEF Shared
    <3>2. CASE ~Room(main) BY <3>2, Main2CommonIs
    <3>3. QED BY <3>1, <3>2
  <2> HIDE DEF r
  <2>3. PICK x \in {comn \o main, comn} : Result(r, x) BY <2>2
  <2>4. CASE ~Room(r.main) BY <2>1, <2>3, <2>4
  <2>5. CASE Room(r.main)
    <3>1. s = [main |-> Append(r.main, f), comn |-> r.comn, msg |-> r.msg] BY <2>1, <2>2, <2>5
    <3>2. r.main \in Buffer /\ r.comn \in Buffer /\ r.msg \in Signals /\ Len(r.comn) <= BuffSize
        /\ r.comn \o r.main = x /\ Len(r.main) + 1 <= BuffSize
      BY <2>3, <2>5 DEF Result, Room
    <3>3. Append(r.main, f) \in Buffer /\ Len(Append(r.main, f)) = Len(r.main) + 1
      BY <3>2, AppendProperties DEF Buffer
    <3>6. x \in Buffer BY <3>2, ConcatProperties DEF Buffer
    <3>8. r.comn \o Append(r.main, f) = Append(x, f)
      <4> DEFINE T == Seq(Piece)
                 a == r.comn
                 c == r.main
      <4>1. f \in T /\ a \in Seq(T) /\ c \in Seq(T) BY <3>2 DEF Buffer
      <4> HIDE DEF T, a, c
      <4>2. a \o Append(c, f) = Append(a \o c, f) BY <4>1, AppendBehind
      <4>3. QED BY <3>2, <4>2 DEF a, c
    <3> DEFINE m == Append(r.main, f)
               y == Append(x, f)
    <3>9. s.main = m /\ s.comn = r.comn /\ s.msg = r.msg BY <3>1
    <3>10. r.comn \o m = y /\ m \in Buffer /\ Len(m) <= BuffSize BY <3>2, <3>3, <3>8
    <3> HIDE DEF m
    <3>11. Result(s, y) BY <3>2, <3>9, <3>10 DEF Result
    <3>12. FrameCheck(f) BY <1>4
    <3>13. FrameCheck(f) /\ Result(s, Append(x, f)) BY <3>11, <3>12
    <3>14. QED BY <3>13
  <2>6. QED BY <2>4, <2>5
<1>5. QED BY <1>3, <1>4

-----------------------------------------------------------------------------
(* The table of descriptors.                                               *)

\* Who refers to descriptors: the slots, the connections to the threads, the threads.
Tables == {"peer", "main"} \cup Threads
KindOf(a) == IF a \in Threads THEN "thread" ELSE a
refs == [a \in Tables |-> IF a = "peer" THEN slot ELSE IF a = "main" THEN th ELSE thread[a].at]

\* In the table f, every descriptor that is not free is referred to once by the tables r.
Sound(f, r) ==
  /\ \A n \in Fds : f[n].is = "free" => f[n] = Free
  /\ \A a \in Tables, i \in Slots : r[a][i] # None => f[r[a][i]].is = KindOf(a)
  /\ \A a, b \in Tables, i, j \in Slots : r[a][i] # None /\ r[a][i] = r[b][j] => a = b /\ i = j
  /\ \A n \in Fds : f[n].is # "free" => \E a \in Tables, i \in Slots : r[a][i] = n

\* Entry i of table a is a descriptor of x.
Refers(f, r, a, i, x) == r[a][i] # None /\ f[r[a][i]].of = x
\* From f and r to g and q: entry i of table a comes to be a descriptor of x, or empty.
Got(f, r, g, q, a, i, x) ==
  \A b \in Tables, j \in Slots, y \in Nat :
    Refers(g, q, b, j, y) <=> IF b = a /\ j = i THEN y = x ELSE Refers(f, r, b, j, y)
Lost(f, r, g, q, a, i) ==
  \A b \in Tables, j \in Slots, y \in Nat :
    Refers(g, q, b, j, y) <=> ~(b = a /\ j = i) /\ Refers(f, r, b, j, y)

LEMMA KindOfIs == \A a \in Tables : KindOf(a) \in {"peer", "main", "thread"} /\ (KindOf(a) = "thread" <=> a \in Threads)
BY DEF Tables, KindOf, Threads

LEMMA Allocated ==
  ASSUME NEW f \in [Fds -> Node], NEW r \in [Tables -> [Slots -> Number]], Sound(f, r),
         NEW a \in Tables, NEW i \in Slots, NEW n \in Fds, NEW x \in Nat,
         f[n] = Free, r[a][i] = None, NEW g, NEW q,
         g = [f EXCEPT ![n] = [is |-> KindOf(a), of |-> x]], q = [r EXCEPT ![a] = [r[a] EXCEPT ![i] = n]]
  PROVE  g \in [Fds -> Node] /\ q \in [Tables -> [Slots -> Number]] /\ Sound(g, q) /\ Got(f, r, g, q, a, i, x)
<1>1. KindOf(a) \in {"peer", "main", "thread"} BY KindOfIs
<1>2. g \in [Fds -> Node] BY <1>1 DEF Node
<1>3. n \in Number /\ n # None BY Constants
<1>4. q \in [Tables -> [Slots -> Number]] BY <1>3
<1>5. /\ \A b \in Tables, j \in Slots : q[b][j] = IF b = a /\ j = i THEN n ELSE r[b][j]
      /\ \A m \in Fds : g[m] = IF m = n THEN [is |-> KindOf(a), of |-> x] ELSE f[m]
  BY DEF Tables
<1>6. Free.is = "free" BY DEF Free
<1>7. \A b \in Tables, j \in Slots : r[b][j] # None => r[b][j] \in Fds /\ r[b][j] # n
  <2>1. SUFFICES ASSUME NEW b \in Tables, NEW j \in Slots, r[b][j] # None PROVE r[b][j] \in Fds /\ r[b][j] # n
    OBVIOUS
  <2>2. f[r[b][j]].is # "free" BY <2>1, KindOfIs DEF Sound
  <2>3. r[b][j] \in Number OBVIOUS
  <2>4. QED BY <1>6, <2>1, <2>2, <2>3, Constants
<1>8. Sound(g, q)
  <2>1. \A m \in Fds : g[m].is = "free" => g[m] = Free BY <1>1, <1>5 DEF Sound
  <2>2. \A b \in Tables, j \in Slots : q[b][j] # None => g[q[b][j]].is = KindOf(b) BY <1>5, <1>7 DEF Sound
  <2>3. \A b, c \in Tables, j, k \in Slots : q[b][j] # None /\ q[b][j] = q[c][k] => b = c /\ j = k
    BY <1>3, <1>5, <1>7 DEF Sound
  <2>4. \A m \in Fds : g[m].is # "free" => \E b \in Tables, j \in Slots : q[b][j] = m
    <3>1. SUFFICES ASSUME NEW m \in Fds, g[m].is # "free" PROVE \E b \in Tables, j \in Slots : q[b][j] = m OBVIOUS
    <3>2. CASE m = n BY <1>5, <3>2
    <3>3. CASE m # n
      <4>1. PICK b \in Tables, j \in Slots : r[b][j] = m BY <1>5, <3>1, <3>3 DEF Sound
      <4>2. m # None BY Constants
      <4>3. ~(b = a /\ j = i) BY <4>1, <4>2
      <4>4. QED BY <1>5, <4>1, <4>3
    <3>4. QED BY <3>2, <3>3
  <2>5. QED BY <2>1, <2>2, <2>3, <2>4 DEF Sound
<1>9. Got(f, r, g, q, a, i, x) BY <1>3, <1>5, <1>7 DEF Refers, Got
<1>10. QED BY <1>2, <1>4, <1>8, <1>9

LEMMA Released ==
  ASSUME NEW f \in [Fds -> Node], NEW r \in [Tables -> [Slots -> Number]], Sound(f, r),
         NEW a \in Tables, NEW i \in Slots, NEW g, NEW q,
         g = Closed(f, r[a][i]), q = [r EXCEPT ![a] = [r[a] EXCEPT ![i] = None]]
  PROVE  g \in [Fds -> Node] /\ q \in [Tables -> [Slots -> Number]] /\ Sound(g, q) /\ Lost(f, r, g, q, a, i)
<1> DEFINE n == r[a][i]
<1>1. n \in Number /\ (n # None => n \in Fds) BY Constants
<1>2. g \in [Fds -> Node] BY <1>1, Constants DEF Closed
<1>3. q \in [Tables -> [Slots -> Number]] BY Constants
<1>4. \A b \in Tables, j \in Slots : q[b][j] = IF b = a /\ j = i THEN None ELSE r[b][j] BY DEF Tables
<1>5. \A m \in Fds : g[m] = IF m = n THEN Free ELSE f[m] BY <1>1, Constants DEF Closed
<1>6. Free.is = "free" BY DEF Free
<1>7. \A b \in Tables, j \in Slots : q[b][j] # None => r[b][j] = q[b][j] /\ r[b][j] \in Fds /\ r[b][j] # n
  <2>1. SUFFICES ASSUME NEW b \in Tables, NEW j \in Slots, q[b][j] # None
                 PROVE  r[b][j] = q[b][j] /\ r[b][j] \in Fds /\ r[b][j] # n
    OBVIOUS
  <2>2. r[b][j] = q[b][j] /\ ~(b = a /\ j = i) BY <1>4, <2>1
  <2>3. r[b][j] \in Number OBVIOUS
  <2>4. QED BY <2>1, <2>2, <2>3, Constants DEF Sound
<1>8. Sound(g, q)
  <2>1. \A m \in Fds : g[m].is = "free" => g[m] = Free BY <1>5 DEF Sound
  <2>2. \A b \in Tables, j \in Slots : q[b][j] # None => g[q[b][j]].is = KindOf(b) BY <1>5, <1>7 DEF Sound
  <2>3. \A b, c \in Tables, j, k \in Slots : q[b][j] # None /\ q[b][j] = q[c][k] => b = c /\ j = k
    BY <1>7 DEF Sound
  <2>4. \A m \in Fds : g[m].is # "free" => \E b \in Tables, j \in Slots : q[b][j] = m
    <3>1. SUFFICES ASSUME NEW m \in Fds, g[m].is # "free" PROVE \E b \in Tables, j \in Slots : q[b][j] = m OBVIOUS
    <3>2. m # n /\ f[m].is # "free" BY <1>5, <1>6, <3>1
    <3>3. PICK b \in Tables, j \in Slots : r[b][j] = m BY <3>2 DEF Sound
    <3>4. ~(b = a /\ j = i) BY <3>2, <3>3
    <3>5. QED BY <1>4, <3>3, <3>4
  <2>5. QED BY <2>1, <2>2, <2>3, <2>4 DEF Sound
<1>9. Lost(f, r, g, q, a, i) BY <1>4, <1>5, <1>7 DEF Refers, Lost
<1>10. QED BY <1>2, <1>3, <1>8, <1>9

Tabled ==
  /\ refs \in [Tables -> [Slots -> Number]]
  /\ "peer" \in Tables /\ "main" \in Tables /\ Threads \subseteq Tables /\ Tables = {"peer", "main"} \cup Threads
  /\ "peer" \notin Threads /\ "main" \notin Threads
  /\ refs["peer"] = slot /\ refs["main"] = th /\ \A t \in Threads : refs[t] = thread[t].at
  /\ KindOf("peer") = "peer" /\ KindOf("main") = "main" /\ \A t \in Threads : KindOf(t) = "thread"
  /\ \A t \in Threads : thread[t].at \in [Slots -> Number]

LEMMA RefsAre == TypedSockets => Tabled
<1> SUFFICES ASSUME TypedSockets PROVE Tabled OBVIOUS
<1>1. "peer" \notin Threads /\ "main" \notin Threads BY DEF Threads
<1>2. \A t \in Threads : thread[t].at \in [Slots -> Number] BY DEF TypedSockets, Handle
<1>3. slot \in [Slots -> Number] /\ th \in [Slots -> Number] BY DEF TypedSockets
<1>4. \A a \in Tables : a \notin {"peer", "main"} => a \in Threads BY DEF Tables
<1>5. refs \in [Tables -> [Slots -> Number]] BY <1>2, <1>3, <1>4 DEF refs
<1>6. refs["peer"] = slot /\ refs["main"] = th /\ \A t \in Threads : refs[t] = thread[t].at
  BY <1>1 DEF refs, Tables
<1>7. QED BY <1>1, <1>2, <1>5, <1>6 DEF Tabled, Tables, KindOf

\* Who holds, leads and has taken what, by the tables
Referred ==
  /\ \A i \in Slots, k \in Nat : Holds(i, k) <=> Refers(fds, refs, "peer", i, k)
  /\ \A i \in Slots, p \in Nat : Leads(i, p) <=> Refers(fds, refs, "main", i, p)
  /\ \A t \in Threads, i \in Slots, p \in Nat : Taken(t, i, p) <=> Refers(fds, refs, t, i, p)

LEMMA OwnedSound == TypedSockets /\ Owned => Sound(fds, refs) /\ Referred
<1> SUFFICES ASSUME TypedSockets, Owned PROVE Sound(fds, refs) /\ Referred OBVIOUS
<1>0. Tabled BY RefsAre
<1>1. \A a \in Tables, i \in Slots : refs[a][i] # None => fds[refs[a][i]].is = KindOf(a)
  BY <1>0 DEF Tabled, Owned, At
<1>2. \A a, b \in Tables, i, j \in Slots : refs[a][i] # None /\ refs[a][i] = refs[b][j] => a = b /\ i = j
  <2>1. SUFFICES ASSUME NEW a \in Tables, NEW b \in Tables, NEW i \in Slots, NEW j \in Slots,
                        refs[a][i] # None, refs[a][i] = refs[b][j]
                 PROVE  a = b /\ i = j
    OBVIOUS
  <2>2. KindOf(a) = KindOf(b) BY <1>1, <2>1
  <2>3. CASE a \in Threads
    <3>1. b \in Threads BY <2>2, <2>3, KindOfIs
    <3>2. QED BY <2>1, <2>3, <3>1, <1>0 DEF Tabled, Owned, At
  <2>4. CASE a \notin Threads
    <3>1. a = b BY <2>2, <2>4, <1>0, KindOfIs DEF Tabled
    <3>2. QED BY <2>1, <2>4, <3>1, <1>0 DEF Tabled, Owned
  <2>5. QED BY <2>3, <2>4
<1>3. \A n \in Fds : fds[n].is # "free" => \E a \in Tables, i \in Slots : refs[a][i] = n
  <2>1. SUFFICES ASSUME NEW n \in Fds, fds[n].is # "free" PROVE \E a \in Tables, i \in Slots : refs[a][i] = n
    OBVIOUS
  <2>2. fds[n].is \in {"peer", "main", "thread"} BY <2>1 DEF TypedSockets, Node
  <2>3. CASE fds[n].is = "peer" BY <2>3, <1>0 DEF Tabled, Owned
  <2>4. CASE fds[n].is = "main" BY <2>4, <1>0 DEF Tabled, Owned
  <2>5. CASE fds[n].is = "thread" BY <2>5, <1>0 DEF Tabled, Owned, At
  <2>6. QED BY <2>2, <2>3, <2>4, <2>5
<1>4. Sound(fds, refs) BY <1>1, <1>2, <1>3 DEF Sound, Owned
<1>5. \A a \in Tables, i \in Slots, x \in Nat :
        Refers(fds, refs, a, i, x) <=> refs[a][i] # None /\ fds[refs[a][i]] = [is |-> KindOf(a), of |-> x]
  <2>1. SUFFICES ASSUME NEW a \in Tables, NEW i \in Slots, NEW x \in Nat, refs[a][i] # None
                 PROVE  fds[refs[a][i]].of = x <=> fds[refs[a][i]] = [is |-> KindOf(a), of |-> x]
    BY DEF Refers
  <2>2. refs[a][i] \in Number BY <1>0 DEF Tabled
  <2>3. fds[refs[a][i]] \in Node BY <2>1, <2>2, Constants DEF TypedSockets
  <2>4. QED BY <1>1, <2>1, <2>3 DEF Node
<1>6. QED BY <1>4, <1>5, <1>0 DEF Tabled, Referred, Holds, Leads, Taken, At

LEMMA SoundOwned == TypedSockets /\ Sound(fds, refs) => Owned
<1> SUFFICES ASSUME TypedSockets, Sound(fds, refs) PROVE Owned OBVIOUS
<1>0. Tabled BY RefsAre
<1>1. \A n \in Fds : fds[n].is = "free" => fds[n] = Free BY DEF Sound
<1>2. /\ \A i \in Slots : slot[i] # None => fds[slot[i]].is = "peer"
      /\ \A i \in Slots : th[i] # None => fds[th[i]].is = "main"
      /\ \A t \in Threads, i \in Slots : At(t, i) # None => fds[At(t, i)].is = "thread"
  BY <1>0 DEF Tabled, Sound, At
<1>3. /\ \A i, j \in Slots : slot[i] # None /\ slot[i] = slot[j] => i = j
      /\ \A i, j \in Slots : th[i] # None /\ th[i] = th[j] => i = j
      /\ \A t, u \in Threads, i, j \in Slots : At(t, i) # None /\ At(t, i) = At(u, j) => t = u /\ i = j
  BY <1>0 DEF Tabled, Sound, At
<1>4. \A n \in Fds : fds[n].is # "free" =>
        \E a \in Tables, i \in Slots : refs[a][i] = n /\ fds[n].is = KindOf(a)
  <2>1. \A n \in Fds : n # None BY Constants
  <2>2. QED BY <2>1 DEF Sound
<1>5. \A n \in Fds : fds[n].is = "peer" => \E i \in Slots : slot[i] = n BY <1>0, <1>4 DEF Tabled
<1>6. \A n \in Fds : fds[n].is = "main" => \E i \in Slots : th[i] = n BY <1>0, <1>4 DEF Tabled
<1>7. \A n \in Fds : fds[n].is = "thread" => \E t \in Threads, i \in Slots : At(t, i) = n
  BY <1>0, <1>4 DEF Tabled, At
<1>8. QED BY <1>1, <1>2, <1>3, <1>5, <1>6, <1>7 DEF Owned

\* What remains as it was
SameHolds == \A i \in Slots, k \in Nat : Holds(i, k)' <=> Holds(i, k)
SameLeads == \A i \in Slots, p \in Nat : Leads(i, p)' <=> Leads(i, p)
SameTaken == \A t \in Threads, i \in Slots, p \in Nat : Taken(t, i, p)' <=> Taken(t, i, p)

LEMMA SoundNext ==
  ASSUME TypedSockets, Owned, TypedSockets', Sound(fds', refs')
  PROVE  /\ Owned' /\ Referred /\ Referred' /\ Sound(fds, refs) /\ Tabled /\ Tabled'
<1>1. TypedSockets /\ Owned => Sound(fds, refs) /\ Referred BY OwnedSound
<1>2. TypedSockets' /\ Sound(fds', refs') => Owned'
  <2>1. (TypedSockets /\ Sound(fds, refs))' => Owned' BY SoundOwned, PTL
  <2>2. QED BY <2>1
<1>3. (TypedSockets /\ Owned)' => Sound(fds, refs)' /\ Referred' BY OwnedSound, PTL
<1>4. TypedSockets' => Tabled' BY RefsAre, PTL
<1>5. QED BY <1>1, <1>2, <1>3, <1>4, RefsAre

LEMMA OwnedAccepted ==
  ASSUME TypedSockets, Owned, NEW i, NEW k, Accepted(i, k)
  PROVE  /\ Owned' /\ SameLeads /\ SameTaken
         /\ \A j \in Slots, x \in Nat : Holds(j, x)' <=> IF j = i THEN x = k ELSE Holds(j, x)
<1> DEFINE n == LowestFree(fds)
           f == Closed(fds, refs["peer"][i])
           r == [refs EXCEPT !["peer"] = [refs["peer"] EXCEPT ![i] = None]]
<1>0. Tabled /\ Sound(fds, refs) BY RefsAre, OwnedSound
<1>1. i \in Slots /\ k \in Nat /\ n \in Fds /\ fds[n] = Free /\ TypedSockets'
  BY LowestFreeIs, TypedAccepted, Constants DEF Accepted
<1>2. "peer" \in Tables /\ KindOf("peer") = "peer" BY <1>0 DEF Tabled
<1>20. refs["peer"][i] = slot[i] BY <1>0 DEF Tabled
<1>3. fds \in [Fds -> Node] /\ refs \in [Tables -> [Slots -> Number]] BY <1>0 DEF TypedSockets, Tabled
<1>4. f[n] = Free /\ r["peer"][i] = None
  <2>1. f[n] = Free BY <1>1, <1>3 DEF Closed
  <2>2. QED BY <1>1, <1>2, <1>20, <1>3, <2>1
<1>5. refs' = [r EXCEPT !["peer"] = [r["peer"] EXCEPT ![i] = n]]
  <2>1. refs' = [refs EXCEPT !["peer"] = slot'] BY <1>0 DEF Accepted, others, refs, Tabled
  <2>2. slot' = [slot EXCEPT ![i] = n] BY DEF Accepted
  <2>3. QED BY <1>0, <1>1, <1>3, <2>1, <2>2 DEF Tabled, TypedSockets
<1>6. fds' = [f EXCEPT ![n] = [is |-> KindOf("peer"), of |-> k]]
  <2>1. slot[i] = None \/ (slot[i] \in Fds /\ slot[i] # n)
    <3>1. slot[i] \in Number BY <1>1 DEF TypedSockets
    <3>2. fds[n].is = "free" BY <1>1 DEF Free
    <3>3. slot[i] # None => slot[i] # n BY <1>1, <3>2 DEF Owned
    <3>4. QED BY <3>1, <3>3, Constants
  <2>2. fds' = Closed([fds EXCEPT ![n] = [is |-> "peer", of |-> k]], slot[i]) BY DEF Accepted
  <2>3. QED BY <1>1, <1>2, <1>20, <1>3, <2>1, <2>2 DEF Closed
<1>7. f = Closed(fds, refs["peer"][i]) /\ r = [refs EXCEPT !["peer"] = [refs["peer"] EXCEPT ![i] = None]] OBVIOUS
<1>21. f \in [Fds -> Node] /\ r \in [Tables -> [Slots -> Number]]
  <2>1. refs["peer"][i] \in Number BY <1>1, <1>2, <1>3
  <2>2. QED BY <1>1, <1>2, <1>3, <2>1, Constants DEF Closed
<1> HIDE DEF f, r, n
<1>8. Sound(f, r) /\ Lost(fds, refs, f, r, "peer", i)
  BY <1>0, <1>1, <1>2, <1>3, <1>7, Released
<1>9. Sound(fds', refs') /\ Got(f, r, fds', refs', "peer", i, k) BY <1>1, <1>2, <1>4, <1>5, <1>6, <1>8, <1>21, Allocated
<1>10. Got(fds, refs, fds', refs', "peer", i, k) BY <1>8, <1>9 DEF Got, Lost
<1>11. Owned' /\ Referred /\ Referred' BY <1>1, <1>9, SoundNext
<1>12. QED BY <1>0, <1>1, <1>10, <1>11 DEF Got, Referred, SameLeads, SameTaken, Tabled

LEMMA OwnedClose ==
  ASSUME TypedSockets, Owned, Piped, NEW i \in Slots, CloseSlot(i)
  PROVE  /\ Owned' /\ SameTaken
         /\ \A j \in Slots, x \in Nat : Holds(j, x)' <=> j # i /\ Holds(j, x)
         /\ \A j \in Slots, p \in Nat : Leads(j, p)' <=> j # i /\ Leads(j, p)
<1> DEFINE f == Closed(fds, refs["peer"][i])
           r == [refs EXCEPT !["peer"] = [refs["peer"] EXCEPT ![i] = None]]
<1>0. Tabled /\ Sound(fds, refs) /\ TypedSockets' BY RefsAre, OwnedSound, TypedClose
<1>1. "peer" \in Tables /\ "main" \in Tables BY <1>0 DEF Tabled
<1>20. refs["peer"][i] = slot[i] BY <1>0 DEF Tabled
<1>2. fds \in [Fds -> Node] /\ refs \in [Tables -> [Slots -> Number]] BY <1>0 DEF TypedSockets, Tabled
<1>3. r["main"] = th BY <1>0, <1>2 DEF Tabled
<1>4. fds' = Closed(f, r["main"][i]) BY <1>20, <1>3 DEF CloseSlot, HangsUp
<1>5. refs' = [r EXCEPT !["main"] = [r["main"] EXCEPT ![i] = None]]
  <2>1. slot' = [slot EXCEPT ![i] = None] /\ th' = [th EXCEPT ![i] = None] /\ thread' = thread
    BY DEF CloseSlot, HangsUp, TypedSockets
  <2>2. refs' = [refs EXCEPT !["peer"] = slot', !["main"] = th'] BY <1>0, <2>1 DEF refs, Tabled
  <2>3. QED BY <1>0, <1>2, <1>3, <2>1, <2>2 DEF Tabled
<1>6. f = Closed(fds, refs["peer"][i]) /\ r = [refs EXCEPT !["peer"] = [refs["peer"] EXCEPT ![i] = None]] OBVIOUS
<1>21. f \in [Fds -> Node] /\ r \in [Tables -> [Slots -> Number]]
  <2>1. refs["peer"][i] \in Number BY <1>1, <1>2
  <2>2. QED BY <1>1, <1>2, <2>1, Constants DEF Closed
<1> HIDE DEF f, r
<1>7. Sound(f, r) /\ Lost(fds, refs, f, r, "peer", i)
  BY <1>0, <1>1, <1>2, <1>6, Released
<1>8. Sound(fds', refs') /\ Lost(f, r, fds', refs', "main", i) BY <1>1, <1>4, <1>5, <1>7, <1>21, Released
<1>9. Owned' /\ Referred /\ Referred' BY <1>0, <1>8, SoundNext
<1>10. \A b \in Tables, j \in Slots, y \in Nat :
         Refers(fds', refs', b, j, y) <=> ~(b \in {"peer", "main"} /\ j = i) /\ Refers(fds, refs, b, j, y)
  BY <1>7, <1>8 DEF Lost
<1>11. QED BY <1>0, <1>9, <1>10 DEF Referred, SameTaken, Tabled

LEMMA OwnedConnect ==
  ASSUME TypedSockets, Owned, Busy, Piped, MainConnect
  PROVE  /\ Owned' /\ SameHolds /\ SameTaken
         /\ \A j \in Slots, p \in Nat : Leads(j, p)' <=> IF j = cutting THEN p = Len(pipe) + 1 ELSE Leads(j, p)
<1> DEFINE n == LowestFree(fds)
           p == Len(pipe) + 1
<1>0. Tabled /\ Sound(fds, refs) /\ TypedSockets' BY RefsAre, OwnedSound, TypedFrame DEF MainFrame
<1>1. cutting \in Slots /\ n \in Fds /\ fds[n] = Free /\ p \in Nat
  <2>1. cutting \in Slots BY FrameIs DEF MainConnect, Asks
  <2>2. n \in Fds /\ fds[n] = Free BY LowestFreeIs DEF MainConnect, CanConnect
  <2>3. QED BY <2>1, <2>2 DEF TypedSockets
<1>2. "main" \in Tables /\ refs["main"] = th /\ KindOf("main") = "main" BY <1>0 DEF Tabled
<1>3. fds \in [Fds -> Node] /\ refs \in [Tables -> [Slots -> Number]] BY <1>0 DEF TypedSockets, Tabled
<1>4. refs["main"][cutting] = None BY <1>2 DEF MainConnect
<1>5. fds' = [fds EXCEPT ![n] = [is |-> KindOf("main"), of |-> p]] BY <1>2 DEF MainConnect
<1>6. refs' = [refs EXCEPT !["main"] = [refs["main"] EXCEPT ![cutting] = n]]
  <2>1. th' = [th EXCEPT ![cutting] = n] /\ slot' = slot BY DEF MainConnect
  <2>2. \A t \in Threads : thread'[t].at = thread[t].at
    <3>1. thread' = [thread EXCEPT ![ThreadFor(Frame)].backlog = Append(@, p)] BY DEF MainConnect
    <3>2. QED BY <3>1 DEF TypedSockets, Handle
  <2>3. \A a \in Tables : a \in {"peer", "main"} \/ a \in Threads BY DEF Tables
  <2>4. refs' = [refs EXCEPT !["main"] = th'] BY <1>0, <2>1, <2>2, <2>3 DEF refs, Tabled
  <2>5. QED BY <1>2, <2>1, <2>4
<1> HIDE DEF p, n
<1>7. Sound(fds', refs') /\ Got(fds, refs, fds', refs', "main", cutting, p)
  BY <1>0, <1>1, <1>2, <1>3, <1>4, <1>5, <1>6, Allocated
<1>8. Owned' /\ Referred /\ Referred' BY <1>0, <1>7, SoundNext
<1>9. QED BY <1>0, <1>1, <1>7, <1>8 DEF Got, Referred, SameHolds, SameTaken, Tabled, p

LEMMA OwnedSame ==
  ASSUME Owned, UNCHANGED <<fds, slot, th>>, \A t \in Threads : thread'[t].at = thread[t].at
  PROVE  Owned' /\ SameHolds /\ SameLeads /\ SameTaken
<1>1. \A t \in Threads, i \in Slots : At(t, i)' = At(t, i) BY DEF At
<1>2. SameHolds BY DEF SameHolds, Holds
<1>3. SameLeads BY DEF SameLeads, Leads
<1>4. SameTaken BY <1>1 DEF SameTaken, Taken
<1>5. fds' = fds /\ slot' = slot /\ th' = th OBVIOUS
<1>6. Owned' BY <1>1, <1>5 DEF Owned
<1>7. QED BY <1>2, <1>3, <1>4, <1>6

LEMMA OwnedThreadAccept ==
  ASSUME TypedSockets, Owned, Piped, Busy, NEW t \in Threads, ThreadAccept(t), FreeSlots(thread[t].at) # {}
  PROVE  LET i == Min(FreeSlots(thread[t].at)) IN
         /\ i \in Slots /\ At(t, i) = None /\ Owned' /\ SameHolds /\ SameLeads
         /\ \A u \in Threads, j \in Slots, p \in Nat :
              Taken(u, j, p)' <=> IF u = t /\ j = i THEN p = Head(thread[t].backlog) ELSE Taken(u, j, p)
<1> DEFINE i == Min(FreeSlots(thread[t].at))
           n == LowestFree(fds)
           x == Head(thread[t].backlog)
<1>0. Tabled /\ Sound(fds, refs) /\ TypedSockets' BY RefsAre, OwnedSound, TypedThread
<1>1. i \in Slots /\ thread[t].at[i] = None
  <2>1. FreeSlots(thread[t].at) \subseteq Nat BY Constants DEF FreeSlots
  <2>2. i \in FreeSlots(thread[t].at) BY <2>1, MinIn
  <2>3. QED BY <2>2 DEF FreeSlots
<1>2. n \in Fds /\ fds[n] = Free BY LowestFreeIs DEF ThreadAccept
<1>3. thread[t].backlog \in Seq(Nat \ {0}) /\ thread[t].backlog # <<>> BY DEF ThreadAccept, TypedSockets, Handle
<1>4. x \in Nat BY <1>3
<1>5. t \in Tables /\ KindOf(t) = "thread" BY <1>0 DEF Tabled
<1>6. fds \in [Fds -> Node] /\ refs \in [Tables -> [Slots -> Number]] BY <1>0 DEF TypedSockets, Tabled
<1>7. refs[t][i] = None BY <1>0, <1>1 DEF Tabled
<1>8. fds' = [fds EXCEPT ![n] = [is |-> KindOf(t), of |-> x]] BY <1>5 DEF ThreadAccept
<1>9. thread'[t].at = [thread[t].at EXCEPT ![i] = n] /\ \A u \in Threads \ {t} : thread'[u].at = thread[u].at
  <2>1. thread' = [thread EXCEPT ![t].backlog = Tail(thread[t].backlog), ![t].at[i] = n] BY DEF ThreadAccept, TypedSockets, Handle
  <2>2. QED BY <2>1 DEF TypedSockets, Handle
<1>10. refs' = [refs EXCEPT ![t] = [refs[t] EXCEPT ![i] = n]]
  <2>1. \A a \in Tables : a \in {"peer", "main"} \/ a \in Threads BY DEF Tables
  <2>2. slot' = slot /\ th' = th BY DEF ThreadAccept
  <2>3. refs' = [refs EXCEPT ![t] = thread'[t].at] BY <1>0, <1>9, <2>1, <2>2 DEF refs, Tabled
  <2>4. QED BY <1>0, <1>9, <2>3 DEF Tabled
<1> HIDE DEF i, n, x
<1>11. Sound(fds', refs') /\ Got(fds, refs, fds', refs', t, i, x)
  BY <1>0, <1>1, <1>2, <1>4, <1>5, <1>6, <1>7, <1>8, <1>10, Allocated
<1>12. Owned' /\ Referred /\ Referred' BY <1>0, <1>11, SoundNext
<1>13. At(t, i) = None BY <1>1 DEF At
<1>14. Owned' /\ SameHolds /\ SameLeads BY <1>0, <1>5, <1>11, <1>12 DEF Got, Referred, SameHolds, SameLeads, Tabled
<1>15. \A u \in Threads, j \in Slots, p \in Nat :
         Taken(u, j, p)' <=> IF u = t /\ j = i THEN p = x ELSE Taken(u, j, p)
  BY <1>0, <1>11, <1>12 DEF Got, Referred, Tabled
<1>16. QED BY <1>1, <1>13, <1>14, <1>15 DEF i, x

LEMMA OwnedThreadClose ==
  ASSUME TypedSockets, Owned, Piped, Busy, NEW t \in Threads, NEW i \in Slots, ThreadClose(t, i)
  PROVE  /\ Owned' /\ SameHolds /\ SameLeads
         /\ \A u \in Threads, j \in Slots, p \in Nat : Taken(u, j, p)' <=> ~(u = t /\ j = i) /\ Taken(u, j, p)
<1>0. Tabled /\ Sound(fds, refs) /\ TypedSockets' BY RefsAre, OwnedSound, TypedThread
<1>1. t \in Tables BY <1>0 DEF Tabled
<1>2. fds \in [Fds -> Node] /\ refs \in [Tables -> [Slots -> Number]] BY <1>0 DEF TypedSockets, Tabled
<1>3. refs[t] = thread[t].at BY <1>0 DEF Tabled
<1>4. fds' = Closed(fds, refs[t][i]) BY <1>3 DEF ThreadClose
<1>5. thread'[t].at = [thread[t].at EXCEPT ![i] = None] /\ \A u \in Threads \ {t} : thread'[u].at = thread[u].at
  BY DEF ThreadClose, TypedSockets, Handle
<1>6. refs' = [refs EXCEPT ![t] = [refs[t] EXCEPT ![i] = None]]
  <2>1. \A a \in Tables : a \in {"peer", "main"} \/ a \in Threads BY DEF Tables
  <2>2. slot' = slot /\ th' = th BY DEF ThreadClose
  <2>3. refs' = [refs EXCEPT ![t] = thread'[t].at] BY <1>0, <1>5, <2>1, <2>2 DEF refs, Tabled
  <2>4. QED BY <1>3, <1>5, <2>3
<1>7. Sound(fds', refs') /\ Lost(fds, refs, fds', refs', t, i) BY <1>0, <1>1, <1>2, <1>4, <1>6, Released
<1>8. Owned' /\ Referred /\ Referred' BY <1>0, <1>7, SoundNext
<1>9. QED BY <1>0, <1>1, <1>7, <1>8 DEF Lost, Referred, SameHolds, SameLeads, Tabled

LEMMA OwnedThreadEnd ==
  ASSUME TypedSockets, Owned, Piped, Busy, NEW t \in Threads, ThreadEnd(t)
  PROVE  /\ Owned' /\ SameHolds /\ SameLeads
         /\ \A u \in Threads, j \in Slots, p \in Nat : Taken(u, j, p)' <=> u # t /\ Taken(u, j, p)
<1>0. Tabled /\ Sound(fds, refs) /\ TypedSockets' BY RefsAre, OwnedSound, TypedThread
<1>1. \A n \in Fds : fds'[n] = IF n \in Range(thread[t].at) THEN Free ELSE fds[n] BY DEF ThreadEnd
<1>2. \A n \in Fds : n \in Range(thread[t].at) <=> \E j \in Slots : At(t, j) = n
  BY <1>0 DEF Tabled, Range, At
<1>3. \A j \in Slots : At(t, j)' = None BY DEF ThreadEnd, TypedSockets, Handle, At
<1>4. \A u \in Threads \ {t}, j \in Slots : At(u, j)' = At(u, j) BY TypedThread DEF OfThread, At
<1>5. slot' = slot /\ th' = th BY DEF ThreadEnd
<1>6. Free.is = "free" BY DEF Free
<1>7. \A n \in Fds : fds[n].is \in {"peer", "main"} => fds'[n] = fds[n] BY <1>1, <1>2, Constants DEF Owned
<1>8. \A u \in Threads \ {t}, j \in Slots : At(u, j) # None => At(u, j) \in Fds /\ fds'[At(u, j)] = fds[At(u, j)]
  <2>1. SUFFICES ASSUME NEW u \in Threads \ {t}, NEW j \in Slots, At(u, j) # None
                 PROVE  At(u, j) \in Fds /\ fds'[At(u, j)] = fds[At(u, j)]
    OBVIOUS
  <2>2. At(u, j) \in Number BY <1>0 DEF Tabled, At
  <2>3. At(u, j) \in Fds BY <2>1, <2>2, Constants
  <2>4. ~ \E m \in Slots : At(t, m) = At(u, j) BY <2>1 DEF Owned
  <2>5. QED BY <1>1, <1>2, <2>3, <2>4
<1>9. \A i \in Slots : /\ (slot[i] # None => slot[i] \in Fds /\ fds'[slot[i]] = fds[slot[i]])
                       /\ (th[i] # None => th[i] \in Fds /\ fds'[th[i]] = fds[th[i]])
  <2>1. \A i \in Slots : (slot[i] # None => slot[i] \in Fds) /\ (th[i] # None => th[i] \in Fds)
    BY Constants DEF TypedSockets
  <2>2. QED BY <1>7, <2>1 DEF Owned
<1>10. Owned'
  <2>1. \A n \in Fds : fds'[n].is = "free" => fds'[n] = Free BY <1>1 DEF Owned
  <2>2. /\ \A i \in Slots : slot[i] # None => fds'[slot[i]].is = "peer"
        /\ \A i \in Slots : th[i] # None => fds'[th[i]].is = "main"
    BY <1>9 DEF Owned
  <2>3. \A u \in Threads, i \in Slots : At(u, i)' # None => fds'[At(u, i)'].is = "thread"
    BY <1>3, <1>4, <1>8 DEF Owned
  <2>4. \A u, v \in Threads, i, j \in Slots : At(u, i)' # None /\ At(u, i)' = At(v, j)' => u = v /\ i = j
    BY <1>3, <1>4 DEF Owned
  <2>5. \A n \in Fds : (fds'[n].is = "peer" => \E i \in Slots : slot[i] = n) /\ (fds'[n].is = "main" => \E i \in Slots : th[i] = n)
    BY <1>1, <1>6 DEF Owned
  <2>6. \A n \in Fds : fds'[n].is = "thread" => \E u \in Threads, i \in Slots : At(u, i)' = n
    <3>1. SUFFICES ASSUME NEW n \in Fds, fds'[n].is = "thread" PROVE \E u \in Threads, i \in Slots : At(u, i)' = n
      OBVIOUS
    <3>2. n \notin Range(thread[t].at) /\ fds[n].is = "thread" BY <1>1, <1>6, <3>1
    <3>3. PICK u \in Threads, i \in Slots : At(u, i) = n BY <3>2 DEF Owned
    <3>4. u # t BY <1>2, <3>2, <3>3
    <3>5. QED BY <1>4, <3>3, <3>4
  <2>7. QED BY <1>5, <2>1, <2>2, <2>3, <2>4, <2>5, <2>6 DEF Owned
<1>11. SameHolds BY <1>5, <1>9 DEF SameHolds, Holds
<1>12. SameLeads BY <1>5, <1>9 DEF SameLeads, Leads
<1>13. \A u \in Threads, j \in Slots, p \in Nat : Taken(u, j, p)' <=> u # t /\ Taken(u, j, p)
  BY <1>3, <1>4, <1>8 DEF Taken
<1>14. QED BY <1>10, <1>11, <1>12, <1>13

-----------------------------------------------------------------------------
(* The steps.                                                              *)

OfConn(k) == Connect(k) \/ Send(k) \/ Leave(k, "closed") \/ Leave(k, "reset") \/ TurnedAway(k)
ThreadStep(t) ==
  \/ ThreadAccept(t) \/ ThreadFrame(t) \/ ThreadEnd(t)
  \/ \E i \in Slots : ThreadRead(t, i) \/ ThreadClose(t, i)
\* The signals, the monitor and the threads between the peers and the cache
Quiet ==
  \/ Push \/ PushEnd \/ MsgTest \/ MsgWait \/ MsgTake \/ MsgPuts \/ Sigcatch \/ LeaveLoop
  \/ \E f \in Findings : Monitor(f.memory, f.cobs, f.file)
  \/ UNCHANGED vars

LEMMA Steps ==
  ASSUME TypedSockets, [Next]_vars
  PROVE  \/ \E k \in Conns : OfConn(k)
         \/ \E k \in Conns, i \in Slots : Accepted(i, k)
         \/ \E i \in Slots : CloseSlot(i)
         \/ \E i \in Slots : MainRead(i)
         \/ MainFrame \/ Join \/ Quiet
         \/ \E t \in Threads : ThreadStep(t)
<1>1. CASE \E k \in Conns : Connect(k) \/ Send(k) \/ Leave(k, "closed") \/ Leave(k, "reset") BY <1>1 DEF OfConn
<1>2. ASSUME NEW k \in Conns, AcceptLocal(k) \/ AcceptAgain(k) \/ AcceptNew(k)
      PROVE  OfConn(k) \/ \E i \in Slots : Accepted(i, k)
  BY <1>2, AcceptIs DEF OfConn
<1>3. CASE \E t \in Threads : ThreadLoop(t) BY <1>3 DEF ThreadLoop, ThreadStep
<1>4. CASE MainLoop BY <1>2, <1>4 DEF MainLoop, Quiet
<1>5. CASE \/ Push \/ PushEnd \/ MsgLoop \/ Sigcatch \/ \E f \in Findings : Monitor(f.memory, f.cobs, f.file)
           \/ UNCHANGED vars
  BY <1>5 DEF MsgLoop, Quiet
<1>6. QED BY <1>1, <1>3, <1>4, <1>5 DEF Next

LEMMA QuietIs ==
  ASSUME TypedSockets, Quiet
  PROVE  /\ TypedSockets'
         /\ UNCHANGED <<conn, fds, slot, rest, cutting, th, peers, pipe, thread, heir>>
         /\ exit' = exit \/ AtPoll
<1>1. /\ UNCHANGED <<conn, fds, slot, rest, cutting, th, peers, pipe, thread, heir>>
      /\ running' \in {running, FALSE} /\ exit' \in {exit, "missed", "join"} /\ (exit' = exit \/ AtPoll)
  <2>1. CASE Push BY <2>1 DEF Push, sockets
  <2>2. CASE PushEnd BY <2>2 DEF PushEnd, sockets
  <2>3. CASE MsgTest BY <2>3 DEF MsgTest, sockets
  <2>4. CASE MsgWait BY <2>4 DEF MsgWait, sockets
  <2>5. CASE MsgTake BY <2>5 DEF MsgTake, sockets
  <2>6. CASE MsgPuts BY <2>6 DEF MsgPuts, sockets
  <2>7. CASE Sigcatch BY <2>7 DEF Sigcatch, sockets
  <2>8. CASE LeaveLoop BY <2>8 DEF LeaveLoop, sockets
  <2>9. CASE \E f \in Findings : Monitor(f.memory, f.cobs, f.file) BY <2>9 DEF Monitor, sockets
  <2>10. CASE UNCHANGED vars BY <2>10 DEF vars, sockets
  <2>11. QED BY <2>1, <2>2, <2>3, <2>4, <2>5, <2>6, <2>7, <2>8, <2>9, <2>10 DEF Quiet
<1>2. QED BY <1>1 DEF TypedSockets

LEMMA JoinIs ==
  ASSUME TypedSockets, Owned, Busy, Join
  PROVE  /\ TypedSockets' /\ Owned'
         /\ \A i \in Slots : slot'[i] = None /\ th'[i] = None
         /\ \A t \in Threads, i \in Slots : thread[t].work = <<>> /\ thread[t].backlog = <<>> /\ At(t, i) = None /\ At(t, i)' = None
         /\ exit # "loop" /\ peers' = 0
         /\ UNCHANGED <<rest, cutting, pipe, thread, proc, heir>>
<1>1. TypedSockets'
  <2>1. conn' \in [Conns -> End]
    <3>1. <<>> \in Seq(Kinds) /\ <<>> \in Seq(Piece) OBVIOUS
    <3>2. \A k \in Conns : conn[k].end \in {"no", "closed", "reset", "never"} BY DEF TypedSockets, End
    <3>3. QED BY <3>1, <3>2 DEF Join, End
  <2>2. fds' \in [Fds -> Node] /\ slot' \in [Slots -> Number] /\ th' \in [Slots -> Number] /\ peers' \in Int
    BY Constants DEF Join
  <2>3. QED BY <2>1, <2>2 DEF Join, TypedSockets
<1>2. \A t \in Threads, i \in Slots : thread[t].work = <<>> /\ thread[t].backlog = <<>> /\ At(t, i) = None /\ At(t, i)' = None
  BY DEF Join, Busy, At
<1>3. Owned'
  <2>1. \A n \in Fds : fds'[n] = Free /\ Free.is = "free" BY DEF Join, Free
  <2>2. \A i \in Slots : slot'[i] = None /\ th'[i] = None BY DEF Join
  <2>3. QED BY <1>2, <2>1, <2>2 DEF Owned
<1>4. QED BY <1>1, <1>2, <1>3 DEF Join

LEMMA TypedStep ==
  ASSUME TypedSockets, Owned, Busy, Peered, Piped, [Next]_vars
  PROVE  TypedSockets'
<1>1. ASSUME NEW k \in Conns, OfConn(k) PROVE TypedSockets' BY <1>1, TypedConn DEF OfConn
<1>2. ASSUME NEW k \in Conns, NEW i \in Slots, Accepted(i, k) PROVE TypedSockets' BY <1>2, TypedAccepted
<1>3. ASSUME NEW i \in Slots, CloseSlot(i) PROVE TypedSockets' BY <1>3, TypedClose
<1>4. ASSUME NEW i \in Slots, MainRead(i) PROVE TypedSockets' BY <1>4, TypedRead
<1>5. CASE MainFrame BY <1>5, TypedFrame
<1>6. CASE Join BY <1>6, JoinIs
<1>7. CASE Quiet BY <1>7, QuietIs
<1>8. ASSUME NEW t \in Threads, ThreadStep(t) PROVE TypedSockets' BY <1>8, TypedThread DEF ThreadStep
<1>9. QED BY <1>1, <1>2, <1>3, <1>4, <1>5, <1>6, <1>7, <1>8, Steps

-----------------------------------------------------------------------------
(* Descriptors: every step.                                                *)

\* Slots, connections to the threads and threads that are busy, at the next step
LEMMA ThreadAts ==
  ASSUME TypedSockets, Owned, Piped, Busy, NEW t \in Threads, ThreadFrame(t) \/ \E i \in Slots : ThreadRead(t, i)
  PROVE  UNCHANGED <<fds, slot, th>> /\ \A u \in Threads : thread'[u].at = thread[u].at
<1>1. OfThread(t) BY TypedThread
<1>2. fds' = fds
  <2>1. CASE ThreadFrame(t) BY <2>1 DEF ThreadFrame, sockets
  <2>2. CASE \E i \in Slots : ThreadRead(t, i)
    <3>1. PICK i \in Slots : ThreadRead(t, i) BY <2>2
    <3>2. UNCHANGED sockets BY <3>1, Zenon DEF ThreadRead
    <3>3. QED BY <3>2 DEF sockets
  <2>3. QED BY <2>1, <2>2
<1>3. thread'[t].at = thread[t].at
  <2>1. CASE ThreadFrame(t)
    <3> DEFINE left == [thread EXCEPT ![t].work = Tail(thread[t].work)]
    <3>1. thread \in [Threads -> Handle] /\ thread[t].work \in Seq(Names \cup Asked) BY DEF TypedSockets, Handle
    <3>2. thread[t].work # <<>> BY <2>1 DEF ThreadFrame, Working
    <3>3. Tail(thread[t].work) \in Seq(Names \cup Asked) BY <3>1, <3>2
    <3>4. left \in [Threads -> Handle] /\ left[t].at = thread[t].at BY <3>1, <3>3 DEF Handle
    <3>5. thread' = left \/ \E s : thread' = [left EXCEPT ![t].snd[thread[t].i] = s] BY <2>1, <3>1 DEF ThreadFrame
    <3> HIDE DEF left
    <3>6. QED BY <3>4, <3>5 DEF Handle
  <2>2. CASE \E i \in Slots : ThreadRead(t, i)
    <3>0. PICK i \in Slots : ThreadRead(t, i) BY <2>2
    <3>1. thread \in [Threads -> Handle] BY DEF TypedSockets
    <3>2. thread' = [thread EXCEPT ![t].work = pipe[fds[thread[t].at[i]].of].q, ![t].i = i] BY <3>0, Zenon DEF ThreadRead
    <3>3. QED BY <3>1, <3>2 DEF Handle
  <2>3. QED BY <2>1, <2>2
<1>4. QED BY <1>1, <1>2, <1>3 DEF OfThread

LEMMA OwnedStep ==
  ASSUME TypedSockets, Owned, Busy, Peered, Piped, [Next]_vars
  PROVE  Owned'
<1>1. ASSUME NEW k \in Conns, OfConn(k) PROVE Owned'
  <2>1. UNCHANGED <<fds, slot, th, thread>> BY <1>1 DEF OfConn, Connect, Send, Leave, TurnedAway, others, sockets
  <2>2. QED BY <2>1, OwnedSame
<1>2. ASSUME NEW k \in Conns, NEW i \in Slots, Accepted(i, k) PROVE Owned' BY <1>2, OwnedAccepted
<1>3. ASSUME NEW i \in Slots, CloseSlot(i) PROVE Owned' BY <1>3, OwnedClose
<1>4. ASSUME NEW i \in Slots, MainRead(i) PROVE Owned'
  <2>1. UNCHANGED <<fds, slot, th, thread>> BY <1>4 DEF MainRead
  <2>2. QED BY <2>1, OwnedSame
<1>5. CASE MainFrame
  <2>1. CASE MainConnect BY <2>1, OwnedConnect
  <2>2. CASE MainObject \/ MainKill \/ MainForward \/ MainFails
    <3>1. UNCHANGED <<fds, slot, th, thread>> BY <2>2 DEF MainObject, MainKill, MainForward, MainFails
    <3>2. QED BY <3>1, OwnedSame
  <2>3. QED BY <1>5, <2>1, <2>2 DEF MainFrame
<1>6. CASE Join BY <1>6, JoinIs
<1>7. CASE Quiet
  <2>1. UNCHANGED <<fds, slot, th, thread>> BY <1>7, QuietIs
  <2>2. QED BY <2>1, OwnedSame
<1>8. ASSUME NEW t \in Threads, ThreadStep(t) PROVE Owned'
  <2>1. CASE ThreadAccept(t)
    <3>1. CASE FreeSlots(thread[t].at) = {}
      <4>1. UNCHANGED <<fds, slot, th>> BY <2>1, <3>1 DEF ThreadAccept
      <4>2. thread' = [thread EXCEPT ![t].backlog = Tail(@)] BY <2>1, <3>1 DEF ThreadAccept
      <4>3. \A u \in Threads : thread'[u].at = thread[u].at BY <4>2 DEF TypedSockets, Handle
      <4>4. QED BY <4>1, <4>3, OwnedSame
    <3>2. CASE FreeSlots(thread[t].at) # {} BY <2>1, <3>2, OwnedThreadAccept
    <3>3. QED BY <3>1, <3>2
  <2>2. CASE ThreadFrame(t) \/ \E i \in Slots : ThreadRead(t, i)
    <3>1. UNCHANGED <<fds, slot, th>> /\ \A u \in Threads : thread'[u].at = thread[u].at BY <2>2, ThreadAts
    <3>2. QED BY <3>1, OwnedSame
  <2>3. CASE ThreadEnd(t) BY <2>3, OwnedThreadEnd
  <2>4. CASE \E i \in Slots : ThreadClose(t, i) BY <2>4, OwnedThreadClose
  <2>5. QED BY <1>8, <2>1, <2>2, <2>3, <2>4 DEF ThreadStep
<1>9. QED BY <1>1, <1>2, <1>3, <1>4, <1>5, <1>6, <1>7, <1>8, Steps

\* The fields of a thread, at the next step
LEMMA ThreadFields ==
  ASSUME TypedSockets, Owned, NEW t \in Threads
  PROVE  /\ ThreadAccept(t) =>
              /\ thread'[t].alive = thread[t].alive /\ thread'[t].backlog = Tail(thread[t].backlog)
              /\ thread'[t].snd = thread[t].snd /\ thread'[t].work = thread[t].work /\ thread'[t].i = thread[t].i
              /\ FreeSlots(thread[t].at) = {} => thread'[t].at = thread[t].at
         /\ \A i \in Slots : ThreadRead(t, i) =>
              /\ thread'[t].alive = thread[t].alive /\ thread'[t].backlog = thread[t].backlog
              /\ thread'[t].snd = thread[t].snd /\ thread'[t].work = pipe[fds[At(t, i)].of].q /\ thread'[t].i = i
         /\ \A i \in Slots : ThreadClose(t, i) =>
              /\ thread'[t].alive = thread[t].alive /\ thread'[t].backlog = thread[t].backlog
              /\ thread'[t].work = thread[t].work /\ thread'[t].i = thread[t].i
              /\ thread'[t].snd = [thread[t].snd EXCEPT ![i] = None]
              /\ thread'[t].at = [thread[t].at EXCEPT ![i] = None]
         /\ ThreadFrame(t) =>
              /\ thread'[t].alive = thread[t].alive /\ thread'[t].backlog = thread[t].backlog
              /\ thread'[t].work = Tail(thread[t].work) /\ thread'[t].i = thread[t].i
              /\ thread'[t].snd = IF "sock" \in DOMAIN Head(thread[t].work)
                                  THEN [thread[t].snd EXCEPT ![thread[t].i] = Head(thread[t].work).sock]
                                  ELSE thread[t].snd
         /\ ThreadEnd(t) =>
              /\ thread'[t].alive = FALSE /\ thread'[t].backlog = <<>> /\ thread'[t].snd = thread[t].snd
              /\ thread'[t].work = thread[t].work /\ thread'[t].i = thread[t].i
<1>0. thread \in [Threads -> Handle] /\ thread[t] \in Handle BY DEF TypedSockets
<1>1. ASSUME ThreadAccept(t)
      PROVE  /\ thread'[t].alive = thread[t].alive /\ thread'[t].backlog = Tail(thread[t].backlog)
             /\ thread'[t].snd = thread[t].snd /\ thread'[t].work = thread[t].work /\ thread'[t].i = thread[t].i
             /\ FreeSlots(thread[t].at) = {} => thread'[t].at = thread[t].at
  <2> DEFINE b == Tail(thread[t].backlog)
             m == Min(FreeSlots(thread[t].at))
             n == LowestFree(fds)
  <2>1. thread' = [thread EXCEPT ![t].backlog = b] \/ (FreeSlots(thread[t].at) # {} /\ thread' = [thread EXCEPT ![t].backlog = b, ![t].at[m] = n])
    BY <1>1, Zenon DEF ThreadAccept
  <2> HIDE DEF b, m, n
  <2>2. QED BY <1>0, <2>1 DEF Handle, b
<1>2. ASSUME NEW i \in Slots, ThreadRead(t, i)
      PROVE  /\ thread'[t].alive = thread[t].alive /\ thread'[t].backlog = thread[t].backlog
             /\ thread'[t].snd = thread[t].snd /\ thread'[t].work = pipe[fds[At(t, i)].of].q /\ thread'[t].i = i
  <2> DEFINE q == pipe[fds[At(t, i)].of].q
  <2>1. thread' = [thread EXCEPT ![t].work = q, ![t].i = i] BY <1>2, Zenon DEF ThreadRead, At
  <2> HIDE DEF q
  <2>2. QED BY <1>0, <2>1 DEF Handle, q
<1>3. ASSUME NEW i \in Slots, ThreadClose(t, i)
      PROVE  /\ thread'[t].alive = thread[t].alive /\ thread'[t].backlog = thread[t].backlog
             /\ thread'[t].work = thread[t].work /\ thread'[t].i = thread[t].i
             /\ thread'[t].snd = [thread[t].snd EXCEPT ![i] = None]
             /\ thread'[t].at = [thread[t].at EXCEPT ![i] = None]
  <2>1. thread' = [thread EXCEPT ![t].at[i] = None, ![t].snd[i] = None] BY <1>3 DEF ThreadClose
  <2>2. QED BY <1>0, <2>1 DEF Handle
<1>4. ASSUME ThreadFrame(t)
      PROVE  /\ thread'[t].alive = thread[t].alive /\ thread'[t].backlog = thread[t].backlog
             /\ thread'[t].work = Tail(thread[t].work) /\ thread'[t].i = thread[t].i
             /\ thread'[t].snd = IF "sock" \in DOMAIN Head(thread[t].work)
                                 THEN [thread[t].snd EXCEPT ![thread[t].i] = Head(thread[t].work).sock]
                                 ELSE thread[t].snd
  <2> DEFINE w == Tail(thread[t].work)
             f == Head(thread[t].work)
             left == [thread EXCEPT ![t].work = w]
  <2>1. CASE "sock" \in DOMAIN f
    <3>1. thread' = [left EXCEPT ![t].snd[thread[t].i] = f.sock] BY <1>4, <2>1, Zenon DEF ThreadFrame
    <3> HIDE DEF w, f
    <3>2. thread' = [thread EXCEPT ![t].work = w, ![t].snd[thread[t].i] = f.sock] BY <1>0, <3>1
    <3>3. QED BY <1>0, <2>1, <3>2 DEF Handle, w, f
  <2>2. CASE "sock" \notin DOMAIN f
    <3>1. thread' = left BY <1>4, <2>2, Zenon DEF ThreadFrame
    <3> HIDE DEF w, f
    <3>2. QED BY <1>0, <2>2, <3>1 DEF Handle, w, f
  <2>3. QED BY <2>1, <2>2
<1>5. ASSUME ThreadEnd(t)
      PROVE  /\ thread'[t].alive = FALSE /\ thread'[t].backlog = <<>> /\ thread'[t].snd = thread[t].snd
             /\ thread'[t].work = thread[t].work /\ thread'[t].i = thread[t].i
  BY <1>0, <1>5 DEF ThreadEnd, Handle
<1>6. QED BY <1>1, <1>2, <1>3, <1>4, <1>5

LEMMA CountsStep ==
  ASSUME TypedSockets, Owned, Counts, Busy, Peered, Piped, [Next]_vars
  PROVE  Counts'
<1> DEFINE used == {i \in Slots \ {0} : slot[i] # None}
<1>0. IsFiniteSet(used) /\ peers = Cardinality(used)
  <2>1. IsFiniteSet(Slots) BY CsmgrdAssumption, FS_Interval DEF Slots
  <2>2. used \in SUBSET Slots OBVIOUS
  <2>3. QED BY <2>1, <2>2, FS_Subset DEF Counts
<1>1. ASSUME UNCHANGED <<slot, peers>> PROVE Counts' BY <1>1 DEF Counts
<1>2. ASSUME NEW k \in Conns, NEW i \in Slots, Accepted(i, k) PROVE Counts'
  <2>1. slot' = [slot EXCEPT ![i] = LowestFree(fds)] /\ LowestFree(fds) # None BY <1>2, LowestFreeIs DEF Accepted
  <2>2. CASE i = 0 \/ slot[i] # None
    <3>1. used' = used BY <2>1, <2>2 DEF TypedSockets
    <3>2. peers' = peers BY <1>2, <2>2 DEF Accepted
    <3>3. QED BY <3>1, <3>2 DEF Counts
  <2>3. CASE i # 0 /\ slot[i] = None
    <3>1. used' = used \cup {i} /\ i \notin used BY <2>1, <2>3 DEF TypedSockets
    <3>2. peers' = peers + 1 BY <1>2, <2>3 DEF Accepted
    <3> HIDE DEF used
    <3>3. Cardinality(used \cup {i}) = Cardinality(used) + 1 BY <1>0, <3>1, FS_AddElement
    <3>4. QED BY <1>0, <3>1, <3>2, <3>3 DEF Counts, used
  <2>4. QED BY <2>2, <2>3
<1>3. ASSUME NEW i \in Slots, CloseSlot(i) PROVE Counts'
  <2>1. slot' = [slot EXCEPT ![i] = None] /\ slot[i] # None /\ peers' = IF i = 0 THEN peers ELSE peers - 1
    BY <1>3 DEF CloseSlot
  <2>2. used' = used \ {i} BY <2>1 DEF TypedSockets
  <2>3. CASE i = 0
    <3>1. used' = used BY <2>2, <2>3
    <3>2. QED BY <1>0, <2>1, <2>3, <3>1 DEF Counts
  <2>4. CASE i # 0
    <3>1. i \in used BY <2>1, <2>4
    <3> HIDE DEF used
    <3>2. Cardinality(used \ {i}) = Cardinality(used) - 1 BY <1>0, <3>1, FS_RemoveElement
    <3>3. QED BY <1>0, <2>1, <2>2, <2>4, <3>2 DEF Counts, used
  <2>5. QED BY <2>3, <2>4
<1>4. CASE Join
  <2>1. used' = {} /\ peers' = 0 BY <1>4, JoinIs
  <2>2. Cardinality({}) = 0 BY FS_EmptySet
  <2>3. QED BY <2>1, <2>2 DEF Counts
<1>5. ASSUME NEW k \in Conns, OfConn(k) PROVE Counts'
  BY <1>1, <1>5 DEF OfConn, Connect, Send, Leave, TurnedAway, sockets
<1>6. ASSUME NEW i \in Slots, MainRead(i) PROVE Counts' BY <1>1, <1>6 DEF MainRead
<1>7. CASE MainFrame BY <1>1, <1>7 DEF MainFrame, MainObject, MainKill, MainForward, MainConnect, MainFails
<1>8. CASE Quiet BY <1>1, <1>8, QuietIs
<1>9. ASSUME NEW t \in Threads, ThreadStep(t) PROVE Counts' BY <1>1, <1>9, TypedThread DEF ThreadStep, OfThread
<1>10. QED BY <1>2, <1>3, <1>4, <1>5, <1>6, <1>7, <1>8, <1>9, Steps

\* The step of a thread, as far as it disturbs Busy
LEMMA BusyThread ==
  ASSUME TypedSockets, Owned, Busy, Peered, Piped, NEW t \in Threads, ThreadStep(t)
  PROVE  Busy'
<1>0. OfThread(t) /\ thread \in [Threads -> Handle] BY TypedThread DEF TypedSockets, ThreadStep
<1>1. /\ \A i \in Slots : th'[i] # None => slot'[i] # None
      /\ cutting' # NoSlot => exit' = "loop" /\ slot'[cutting'] # None /\ HoldsFrame(rest'[cutting'])
  BY <1>0 DEF OfThread, Busy
<1>2. \A u \in Threads \ {t} :
        /\ (~thread'[u].alive => thread'[u].backlog = <<>> /\ thread'[u].work = <<>> /\ \A i \in Slots : At(u, i)' = None)
        /\ (thread'[u].work # <<>> => At(u, thread[u].i)' # None /\ thread'[u].i = thread[u].i)
  BY <1>0 DEF OfThread, Busy, At, Working
<1>3. /\ ~thread'[t].alive => thread'[t].backlog = <<>> /\ thread'[t].work = <<>> /\ \A i \in Slots : At(t, i)' = None
      /\ thread'[t].work # <<>> => thread'[t].at[thread'[t].i] # None
  <2>1. CASE ThreadAccept(t)
    <3>1. thread'[t].alive /\ thread'[t].work = <<>> BY <2>1, ThreadFields DEF ThreadAccept, Working
    <3>2. QED BY <3>1
  <2>2. CASE ThreadFrame(t)
    <3>1. /\ thread'[t].alive = thread[t].alive /\ thread'[t].i = thread[t].i
          /\ \A u \in Threads : thread'[u].at = thread[u].at
      BY <2>2, ThreadFields, ThreadAts
    <3>2. thread[t].work # <<>> BY <2>2 DEF ThreadFrame, Working
    <3>3. thread[t].alive /\ At(t, thread[t].i) # None BY <3>2 DEF Busy, Working
    <3>4. QED BY <3>1, <3>3 DEF At
  <2>3. CASE ThreadEnd(t)
    <3>1. thread[t].work = <<>> BY <2>3 DEF ThreadEnd, Working
    <3>2. thread'[t].backlog = <<>> /\ thread'[t].work = <<>> BY <2>3, <3>1, ThreadFields
    <3>3. \A i \in Slots : At(t, i)' = None BY <1>0, <2>3 DEF ThreadEnd, Handle, At
    <3>4. QED BY <3>2, <3>3
  <2>4. ASSUME NEW i \in Slots, ThreadRead(t, i)
        PROVE  /\ ~thread'[t].alive => thread'[t].backlog = <<>> /\ thread'[t].work = <<>> /\ \A j \in Slots : At(t, j)' = None
               /\ thread'[t].work # <<>> => thread'[t].at[thread'[t].i] # None
    <3>1. thread'[t].alive = thread[t].alive /\ thread'[t].i = i BY <2>4, ThreadFields
    <3>2. \A u \in Threads : thread'[u].at = thread[u].at BY <2>4, ThreadAts
    <3>3. thread[t].alive /\ At(t, i) # None BY <2>4, Zenon DEF ThreadRead, At
    <3>4. QED BY <3>1, <3>2, <3>3 DEF At
  <2>5. ASSUME NEW i \in Slots, ThreadClose(t, i)
        PROVE  /\ ~thread'[t].alive => thread'[t].backlog = <<>> /\ thread'[t].work = <<>> /\ \A j \in Slots : At(t, j)' = None
               /\ thread'[t].work # <<>> => thread'[t].at[thread'[t].i] # None
    <3>1. thread[t].alive /\ thread[t].work = <<>> BY <2>5 DEF ThreadClose, Working
    <3>2. QED BY <2>5, <3>1, ThreadFields
  <2>6. QED BY <2>1, <2>2, <2>3, <2>4, <2>5 DEF ThreadStep
<1>4. \A u \in Threads : ~thread'[u].alive =>
        thread'[u].backlog = <<>> /\ thread'[u].work = <<>> /\ \A i \in Slots : At(u, i)' = None
  BY <1>2, <1>3
<1>5. \A u \in Threads : Working(u)' => At(u, thread[u].i)' # None \/ u = t
  BY <1>2 DEF Working
<1>6. \A u \in Threads : Working(u)' => thread'[u].at[thread'[u].i] # None
  <2>1. SUFFICES ASSUME NEW u \in Threads, Working(u)' PROVE thread'[u].at[thread'[u].i] # None OBVIOUS
  <2>2. CASE u = t BY <1>3, <2>1, <2>2 DEF Working, At
  <2>3. CASE u # t BY <1>2, <2>1, <2>3 DEF Working, At
  <2>4. QED BY <2>2, <2>3
<1>7. QED BY <1>1, <1>4, <1>6 DEF Busy, At

LEMMA BusyStep ==
  ASSUME TypedSockets, Owned, Busy, Peered, Piped, [Next]_vars
  PROVE  Busy'
<1>1. ASSUME UNCHANGED <<th, slot, cutting, exit, rest, thread>> PROVE Busy' BY <1>1 DEF Busy, At, Working
<1>2. ASSUME NEW k \in Conns, NEW i \in Slots, Accepted(i, k) PROVE Busy'
  <2>1. /\ slot' = [slot EXCEPT ![i] = LowestFree(fds)] /\ LowestFree(fds) # None
        /\ cutting = NoSlot /\ cutting' = cutting /\ th' = th /\ thread' = thread
    BY <1>2, LowestFreeIs DEF Accepted, AtPoll, others
  <2>2. \A j \in Slots : th'[j] # None => slot'[j] # None BY <2>1 DEF TypedSockets, Busy
  <2>3. QED BY <2>1, <2>2 DEF Busy, At, Working
<1>3. ASSUME NEW i \in Slots, CloseSlot(i) PROVE Busy'
  <2>1. slot' = [slot EXCEPT ![i] = None] /\ cutting = NoSlot /\ cutting' = cutting /\ thread' = thread
    BY <1>3 DEF CloseSlot, AtPoll
  <2>2. th' = [th EXCEPT ![i] = None] BY <1>3 DEF CloseSlot, HangsUp, TypedSockets
  <2>3. \A j \in Slots : th'[j] # None => slot'[j] # None BY <2>1, <2>2 DEF TypedSockets, Busy
  <2>4. QED BY <2>1, <2>3 DEF Busy, At, Working
<1>4. ASSUME NEW i \in Slots, MainRead(i) PROVE Busy'
  <2>1. PICK b \in Seq(Piece) : Cut(i, b) BY <1>4, TypedRead
  <2>2. Trimmed(i, FromHeader(b)) BY <2>1, CutTrims
  <2>3. cutting' # NoSlot => cutting' = i /\ HoldsFrame(rest'[cutting']) BY <2>2 DEF Trimmed, TypedSockets
  <2>4. slot[i] # None /\ exit = "loop" /\ UNCHANGED <<th, slot, exit, thread>> BY <1>4 DEF MainRead, AtPoll
  <2>5. QED BY <2>3, <2>4 DEF Busy, At, Working
<1>5. CASE MainFrame
  <2>1. cutting # NoSlot /\ (CutOn \/ GiveUp) /\ UNCHANGED <<slot, exit>>
    BY <1>5 DEF MainFrame, MainObject, MainKill, MainForward, MainConnect, MainFails, Asks
  <2>2. PICK c \in Seq(Piece) : Trimmed(cutting, c) BY <2>1, CutOnTrims
  <2>3. cutting' # NoSlot => cutting' = cutting /\ HoldsFrame(rest'[cutting']) BY <2>2 DEF Trimmed, TypedSockets
  <2>4. exit = "loop" /\ slot[cutting] # None /\ cutting \in Slots BY <2>1, FrameIs
  <2>5. CASE MainConnect
    <3>1. th' = [th EXCEPT ![cutting] = LowestFree(fds)] BY <2>5 DEF MainConnect
    <3>2. \A j \in Slots : th'[j] # None => slot'[j] # None BY <2>1, <2>4, <3>1 DEF TypedSockets, Busy
    <3>3. thread' = [thread EXCEPT ![ThreadFor(Frame)].backlog = Append(@, Len(pipe) + 1)] /\ thread[ThreadFor(Frame)].alive
      BY <2>5 DEF MainConnect, CanConnect
    <3>4. \A u \in Threads : /\ thread'[u].alive = thread[u].alive /\ thread'[u].work = thread[u].work
                             /\ thread'[u].i = thread[u].i /\ thread'[u].at = thread[u].at
                             /\ u = ThreadFor(Frame) \/ thread'[u].backlog = thread[u].backlog
      BY <3>3 DEF TypedSockets, Handle
    <3>5. \A u \in Threads : ~thread'[u].alive =>
            thread'[u].backlog = <<>> /\ thread'[u].work = <<>> /\ \A i \in Slots : At(u, i)' = None
      BY <3>3, <3>4 DEF Busy, At
    <3>6. \A u \in Threads : Working(u)' => At(u, thread[u].i)' # None BY <3>4 DEF Busy, At, Working
    <3>7. QED BY <2>1, <2>3, <2>4, <3>2, <3>4, <3>5, <3>6 DEF Busy, At
  <2>6. CASE MainObject \/ MainKill \/ MainForward \/ MainFails
    <3>1. UNCHANGED <<th, thread>> BY <2>6 DEF MainObject, MainKill, MainForward, MainFails
    <3>2. QED BY <2>1, <2>3, <2>4, <3>1 DEF Busy, At, Working
  <2>7. QED BY <1>5, <2>5, <2>6 DEF MainFrame
<1>6. CASE Join
  <2>1. cutting = NoSlot /\ cutting' = cutting BY <1>6, JoinIs DEF Busy
  <2>2. \A i \in Slots : th'[i] = None BY <1>6, JoinIs
  <2>3. thread' = thread BY <1>6, JoinIs
  <2>4. QED BY <2>1, <2>2, <2>3 DEF Busy, At, Working
<1>7. CASE Quiet
  <2>1. UNCHANGED <<slot, rest, cutting, th, thread>> /\ (exit' = exit \/ cutting = NoSlot) BY <1>7, QuietIs DEF AtPoll
  <2>2. QED BY <2>1 DEF Busy, At, Working
<1>8. ASSUME NEW k \in Conns, OfConn(k) PROVE Busy'
  BY <1>1, <1>8 DEF OfConn, Connect, Send, Leave, TurnedAway, sockets, others
<1>9. ASSUME NEW t \in Threads, ThreadStep(t) PROVE Busy' BY <1>9, BusyThread
<1>10. QED BY <1>2, <1>3, <1>4, <1>5, <1>6, <1>7, <1>8, <1>9, Steps

-----------------------------------------------------------------------------
(* Peers: every step.                                                      *)

\* The peer whose socket is closed, and no other, is down.
LEMMA DroppedIs ==
  ASSUME TypedSockets, Owned, Peered, NEW i \in Slots, NEW x \in Conns
  PROVE  LET d == Dropped(conn, slot[i]) IN
         IF Holds(i, x) THEN d[x].at = "down" /\ d[x].asks = <<>> /\ d[x].out = <<>> ELSE d[x] = conn[x]
<1>0. conn \in [Conns -> End] BY DEF TypedSockets
<1>1. CASE slot[i] = None BY <1>1 DEF Dropped, Holds
<1>2. CASE slot[i] # None
  <2>1. PICK k \in Conns : Holds(i, k) BY <1>2 DEF Peered
  <2>2. fds[slot[i]].of = k /\ fds[slot[i]].is = "peer" /\ (Holds(i, x) <=> x = k) BY <2>1 DEF Holds
  <2>3. Dropped(conn, slot[i]) = [conn EXCEPT ![k].at = "down", ![k].asks = <<>>, ![k].out = <<>>]
    BY <1>2, <2>2 DEF Dropped
  <2>4. conn[k] \in End BY <1>0
  <2>5. QED BY <1>0, <2>2, <2>3, <2>4 DEF End
<1>3. QED BY <1>1, <1>2

LEMMA HoldsKept ==
  ASSUME TypedSockets, Owned, Busy, Peered, Piped,
         \/ \E k \in Conns : OfConn(k)
         \/ \E i \in Slots : MainRead(i)
         \/ MainFrame \/ Quiet
         \/ \E t \in Threads : ThreadStep(t)
  PROVE  SameHolds /\ slot' = slot
<1>1. CASE \E k \in Conns : OfConn(k)
  <2>0. PICK k \in Conns : OfConn(k) BY <1>1
  <2>1. UNCHANGED <<fds, slot>> BY <2>0, Zenon DEF OfConn, Connect, Send, Leave, TurnedAway, sockets
  <2>2. QED BY <2>1 DEF SameHolds, Holds
<1>2. CASE \E i \in Slots : MainRead(i)
  <2>0. PICK i \in Slots : MainRead(i) BY <1>2
  <2>1. UNCHANGED <<fds, slot>> BY <2>0, Zenon DEF MainRead
  <2>2. QED BY <2>1 DEF SameHolds, Holds
<1>3. CASE MainFrame
  <2>1. CASE MainConnect BY <2>1, OwnedConnect DEF MainConnect
  <2>2. CASE MainObject \/ MainKill \/ MainForward \/ MainFails
    <3>1. UNCHANGED <<fds, slot>> BY <2>2 DEF MainObject, MainKill, MainForward, MainFails
    <3>2. QED BY <3>1 DEF SameHolds, Holds
  <2>3. QED BY <1>3, <2>1, <2>2 DEF MainFrame
<1>4. CASE Quiet
  <2>1. UNCHANGED <<fds, slot>> BY <1>4, QuietIs
  <2>2. QED BY <2>1 DEF SameHolds, Holds
<1>5. ASSUME NEW t \in Threads, ThreadStep(t) PROVE SameHolds /\ slot' = slot
  <2>0. slot' = slot BY <1>5, TypedThread DEF ThreadStep, OfThread
  <2>1. ASSUME fds' = fds PROVE SameHolds BY <2>0, <2>1 DEF SameHolds, Holds
  <2>2. CASE ThreadAccept(t)
    <3>1. CASE FreeSlots(thread[t].at) = {}
      <4>1. fds' = fds BY <2>2, <3>1 DEF ThreadAccept
      <4>2. QED BY <2>0, <2>1, <4>1
    <3>2. CASE FreeSlots(thread[t].at) # {} BY <2>0, <2>2, <3>2, OwnedThreadAccept
    <3>3. QED BY <3>1, <3>2
  <2>3. CASE ThreadFrame(t) \/ \E i \in Slots : ThreadRead(t, i) BY <2>0, <2>1, <2>3, ThreadAts
  <2>4. CASE ThreadEnd(t) BY <2>0, <2>4, OwnedThreadEnd
  <2>5. CASE \E i \in Slots : ThreadClose(t, i) BY <2>0, <2>5, OwnedThreadClose
  <2>6. QED BY <1>5, <2>2, <2>3, <2>4, <2>5 DEF ThreadStep
<1>6. QED BY <1>1, <1>2, <1>3, <1>4, <1>5

\* Every element of a part is an element of the whole.
LEMMA InPart ==
  ASSUME NEW S, NEW b \in Seq(S), NEW c \in Seq(S), Part(c, b), NEW m \in DOMAIN c
  PROVE  \E n \in DOMAIN b : c[m] = b[n]
<1>1. PICK d \in Nat : d + Len(c) <= Len(b) /\ \A x \in 1 .. Len(c) : c[x] = b[x + d] BY DEF Part
<1>2. m \in 1 .. Len(c) /\ Len(c) \in Nat /\ Len(b) \in Nat /\ DOMAIN b = 1 .. Len(b) OBVIOUS
<1>3. m + d \in DOMAIN b BY <1>1, <1>2
<1>4. QED BY <1>1, <1>2, <1>3

\* Nothing changes but that bytes are taken off the buffers.
LEMMA PeeredCut ==
  ASSUME Peered, SameHolds, conn' = conn, slot' = slot, \A i \in Slots, k \in Conns : From(i, k)' => From(i, k)
  PROVE  Peered'
<1>1. \A i \in Slots, k \in Conns : Holds(i, k)' <=> Holds(i, k) BY Constants DEF SameHolds
<1>2. \A i \in Slots : slot'[i] # None => \E k \in Conns : Holds(i, k)' /\ conn'[k].at = "up" BY <1>1 DEF Peered
<1>3. /\ \A k \in Conns : conn'[k].at = "up" => \E i \in Slots : Holds(i, k)'
      /\ \A i, j \in Slots, k \in Conns : Holds(i, k)' /\ Holds(j, k)' => i = j
  BY <1>1 DEF Peered
<1>4. /\ \A k \in Conns : conn'[k].at # "up" => conn'[k].out = <<>>
      /\ \A k \in Conns : \A m \in DOMAIN conn'[k].out : conn'[k].out[m].of[1] = k
  BY DEF Peered
<1>5. \A i \in Slots, k \in Conns : From(i, k)' => conn'[k].at \in {"up", "down"} /\ (conn'[k].at = "up" => Holds(i, k)')
  BY <1>1 DEF Peered
<1>6. QED BY <1>2, <1>3, <1>4, <1>5 DEF Peered

LEMMA PeeredConn ==
  ASSUME TypedSockets, Owned, Busy, Peered, Piped, NEW k \in Conns, OfConn(k)
  PROVE  Peered'
<1>0. SameHolds /\ slot' = slot /\ rest' = rest /\ conn \in [Conns -> End] /\ conn[k] \in End
  <2>1. rest' = rest BY Zenon DEF OfConn, Connect, Send, Leave, TurnedAway, sockets
  <2>2. QED BY <2>1, HoldsKept DEF TypedSockets
<1>1. \A i \in Slots, x \in Conns : (Holds(i, x)' <=> Holds(i, x)) /\ (From(i, x)' <=> From(i, x))
  BY <1>0, Constants DEF SameHolds, From
<1>2. /\ \A x \in Conns \ {k} : conn'[x] = conn[x]
      /\ conn'[k].at = conn[k].at \/ (conn[k].at \in {"off", "arrived"} /\ conn'[k].at \in {"arrived", "down"})
      /\ conn'[k].at # "up" => conn'[k].out = <<>>
      /\ \A m \in DOMAIN conn'[k].out : conn'[k].out[m].of[1] = k
  <2>1. CASE Connect(k)
    <3>1. conn' = [conn EXCEPT ![k].at = "arrived"] /\ conn[k].at = "off" BY <2>1 DEF Connect
    <3>2. conn'[k].at = "arrived" /\ conn'[k].out = conn[k].out BY <1>0, <3>1 DEF End
    <3>3. \A x \in Conns \ {k} : conn'[x] = conn[x] BY <1>0, <3>1
    <3>4. conn[k].out = <<>> BY <3>1 DEF Peered
    <3>5. QED BY <3>1, <3>2, <3>3, <3>4
  <2>2. CASE Send(k)
    <3> DEFINE b == Pieces(k, Len(conn[k].asks), Head(conn[k].asks))
    <3>1. conn' = [conn EXCEPT ![k].asks = Tail(conn[k].asks), ![k].out = conn[k].out \o b] /\ conn[k].at = "up"
      BY <1>0, <2>2 DEF Send
    <3>2. conn[k].asks \in Seq(Kinds) /\ conn[k].asks # <<>> /\ conn[k].out \in Seq(Piece) BY <1>0, <2>2 DEF Send, End
    <3>3. Len(conn[k].asks) \in Nat /\ Head(conn[k].asks) \in Kinds BY <3>2
    <3>4. b \in Seq(Piece) BY <3>3, PiecesTyped
    <3>5. \A m \in DOMAIN b : b[m].of[1] = k
      <4>1. \A m \in DOMAIN b : b[m].of = <<k, Len(conn[k].asks)>> BY <3>3, PiecesTyped
      <4>2. QED BY <4>1
    <3> HIDE DEF b
    <3>6. conn'[k].at = "up" /\ conn'[k].out = conn[k].out \o b /\ \A x \in Conns \ {k} : conn'[x] = conn[x]
      BY <1>0, <3>1 DEF End
    <3>7. \A m \in DOMAIN (conn[k].out \o b) : (conn[k].out \o b)[m].of[1] = k
      <4>1. SUFFICES ASSUME NEW m \in DOMAIN (conn[k].out \o b) PROVE (conn[k].out \o b)[m].of[1] = k OBVIOUS
      <4> DEFINE o == conn[k].out
      <4>2. o \in Seq(Piece) /\ \A n \in DOMAIN o : o[n].of[1] = k BY <3>2 DEF Peered
      <4>3. \A n \in 1 .. Len(o) + Len(b) : (o \o b)[n] = IF n <= Len(o) THEN o[n] ELSE b[n - Len(o)]
        BY <3>4, <4>2, ConcatProperties
      <4>4. m \in 1 .. Len(o) + Len(b) /\ Len(o) \in Nat /\ Len(b) \in Nat BY <3>4, <4>1, <4>2, ConcatProperties
      <4> HIDE DEF o
      <4>5. CASE m <= Len(o) BY <4>2, <4>3, <4>4, <4>5 DEF o
      <4>6. CASE ~(m <= Len(o))
        <5>1. m - Len(o) \in DOMAIN b BY <3>4, <4>4, <4>6
        <5>2. QED BY <3>5, <4>3, <4>4, <4>6, <5>1 DEF o
      <4>7. QED BY <4>5, <4>6
    <3>8. QED BY <3>1, <3>6, <3>7
  <2>3. ASSUME NEW how, Leave(k, how)
        PROVE  /\ \A x \in Conns \ {k} : conn'[x] = conn[x]
               /\ conn'[k].at = conn[k].at /\ (conn'[k].out = conn[k].out \/ conn'[k].out = <<>>)
    <3>1. \E o \in {<<>>, conn[k].out} : conn' = [conn EXCEPT ![k].end = how, ![k].asks = <<>>, ![k].out = o]
      BY <1>0, <2>3 DEF Leave
    <3>2. QED BY <1>0, <3>1 DEF End
  <2>4. CASE Leave(k, "closed") \/ Leave(k, "reset") BY <2>3, <2>4 DEF Peered
  <2>5. CASE TurnedAway(k)
    <3>1. conn' = [conn EXCEPT ![k].at = "down", ![k].asks = <<>>] BY <2>5 DEF TurnedAway
    <3>2. conn'[k].at = "down" /\ conn'[k].out = conn[k].out BY <1>0, <3>1 DEF End
    <3>3. \A x \in Conns \ {k} : conn'[x] = conn[x] BY <1>0, <3>1
    <3>4. conn[k].at = "arrived" BY <2>5 DEF TurnedAway
    <3>5. conn[k].out = <<>> BY <3>4 DEF Peered
    <3>6. QED BY <3>2, <3>3, <3>4, <3>5
  <2>6. QED BY <2>1, <2>2, <2>4, <2>5 DEF OfConn
<1>3. \A x \in Conns : (conn'[x].at = "up" <=> conn[x].at = "up") BY <1>2
<1>4. \A i \in Slots : slot'[i] # None => \E x \in Conns : Holds(i, x)' /\ conn'[x].at = "up" BY <1>0, <1>1, <1>3 DEF Peered
<1>5. /\ \A x \in Conns : conn'[x].at = "up" => \E i \in Slots : Holds(i, x)'
      /\ \A i, j \in Slots, x \in Conns : Holds(i, x)' /\ Holds(j, x)' => i = j
  BY <1>1, <1>3 DEF Peered
<1>6. /\ \A x \in Conns : conn'[x].at # "up" => conn'[x].out = <<>>
      /\ \A x \in Conns : \A m \in DOMAIN conn'[x].out : conn'[x].out[m].of[1] = x
  BY <1>2, <1>3 DEF Peered
<1>7. \A i \in Slots, x \in Conns : From(i, x)' => conn'[x].at \in {"up", "down"} /\ (conn'[x].at = "up" => Holds(i, x)')
  BY <1>1, <1>2, <1>3 DEF Peered
<1>8. QED BY <1>4, <1>5, <1>6, <1>7 DEF Peered

LEMMA PeeredAccepted ==
  ASSUME TypedSockets, Owned, Peered, NEW k \in Conns, NEW i \in Slots, Accepted(i, k)
  PROVE  Peered'
<1> DEFINE d == Dropped(conn, slot[i])
<1>0. conn[k].at = "arrived" /\ d \in [Conns -> End] /\ d[k] \in End BY DroppedTyped DEF Accepted
<1>1. \A j \in Slots, x \in Conns : Holds(j, x)' <=> IF j = i THEN x = k ELSE Holds(j, x)
  BY OwnedAccepted, Constants
<1>2. ~ \E j \in Slots : Holds(j, k)
  <2>1. ASSUME NEW j \in Slots, Holds(j, k) PROVE FALSE
    <3>1. PICK x \in Conns : Holds(j, x) /\ conn[x].at = "up" BY <2>1 DEF Peered, Holds
    <3>2. x = k BY <2>1, <3>1 DEF Holds
    <3>3. QED BY <1>0, <3>1, <3>2
  <2>2. QED BY <2>1
<1>3. \A x \in Conns : IF Holds(i, x) THEN d[x].at = "down" /\ d[x].asks = <<>> /\ d[x].out = <<>> ELSE d[x] = conn[x]
  BY DroppedIs
<1>4. /\ conn'[k].at = "up" /\ conn'[k].out = <<>>
      /\ \A x \in Conns \ {k} : conn'[x] = d[x]
  <2>1. conn' = [d EXCEPT ![k].at = "up"] BY DEF Accepted
  <2>2. d[k] = conn[k] BY <1>2, <1>3
  <2>3. conn[k].out = <<>> BY <1>0 DEF Peered
  <2> HIDE DEF d
  <2>4. conn'[k].at = "up" /\ conn'[k].out = d[k].out BY <1>0, <2>1 DEF End
  <2>5. \A x \in Conns \ {k} : conn'[x] = d[x] BY <1>0, <2>1
  <2>6. QED BY <2>2, <2>3, <2>4, <2>5
<1>5. slot' = [slot EXCEPT ![i] = LowestFree(fds)] BY DEF Accepted
<1>6. \A j \in Slots, x \in Conns : From(j, x)' => From(j, x)
  <2>1. rest' = rest \/ rest' = [rest EXCEPT ![i] = <<>>] BY DEF Accepted
  <2>2. \A j \in Slots : rest'[j] = rest[j] \/ rest'[j] = <<>> BY <2>1 DEF TypedSockets
  <2>3. QED BY <2>2 DEF From
<1> HIDE DEF d
<1>7. \A x \in Conns : conn'[x].at = "up" <=> x = k \/ (conn[x].at = "up" /\ ~Holds(i, x)) BY <1>3, <1>4
<1>8. \A j \in Slots : slot'[j] # None => \E x \in Conns : Holds(j, x)' /\ conn'[x].at = "up"
  <2>1. SUFFICES ASSUME NEW j \in Slots, slot'[j] # None PROVE \E x \in Conns : Holds(j, x)' /\ conn'[x].at = "up"
    OBVIOUS
  <2>2. CASE j = i BY <1>1, <1>4, <2>2
  <2>3. CASE j # i
    <3>1. slot[j] # None BY <1>5, <2>1, <2>3 DEF TypedSockets
    <3>2. PICK x \in Conns : Holds(j, x) /\ conn[x].at = "up" BY <3>1 DEF Peered
    <3>3. ~Holds(i, x) BY <2>3, <3>2 DEF Peered
    <3>4. QED BY <1>1, <1>7, <2>3, <3>2, <3>3
  <2>4. QED BY <2>2, <2>3
<1>9. \A x \in Conns : conn'[x].at = "up" => \E j \in Slots : Holds(j, x)'
  <2>1. SUFFICES ASSUME NEW x \in Conns, conn'[x].at = "up" PROVE \E j \in Slots : Holds(j, x)' OBVIOUS
  <2>2. CASE x = k BY <1>1, <2>2
  <2>3. CASE x # k
    <3>1. conn[x].at = "up" /\ ~Holds(i, x) BY <1>7, <2>1, <2>3
    <3>2. PICK j \in Slots : Holds(j, x) BY <3>1 DEF Peered
    <3>3. QED BY <1>1, <3>1, <3>2
  <2>4. QED BY <2>2, <2>3
<1>10. \A j, m \in Slots, x \in Conns : Holds(j, x)' /\ Holds(m, x)' => j = m BY <1>1, <1>2 DEF Peered
<1>11. /\ \A x \in Conns : conn'[x].at # "up" => conn'[x].out = <<>>
       /\ \A x \in Conns : \A m \in DOMAIN conn'[x].out : conn'[x].out[m].of[1] = x
  BY <1>3, <1>4 DEF Peered
<1>12. \A j \in Slots, x \in Conns : From(j, x)' => conn'[x].at \in {"up", "down"} /\ (conn'[x].at = "up" => Holds(j, x)')
  <2>1. SUFFICES ASSUME NEW j \in Slots, NEW x \in Conns, From(j, x)'
                 PROVE  conn'[x].at \in {"up", "down"} /\ (conn'[x].at = "up" => Holds(j, x)')
    OBVIOUS
  <2>2. conn[x].at \in {"up", "down"} /\ (conn[x].at = "up" => Holds(j, x)) BY <1>6, <2>1 DEF Peered
  <2>3. x # k BY <1>0, <2>2
  <2>4. conn'[x].at \in {"up", "down"} BY <1>3, <1>4, <2>2, <2>3
  <2>5. conn'[x].at = "up" => j # i /\ Holds(j, x) BY <1>7, <2>2, <2>3
  <2>6. QED BY <1>1, <2>4, <2>5
<1>13. QED BY <1>8, <1>9, <1>10, <1>11, <1>12 DEF Peered

LEMMA PeeredClose ==
  ASSUME TypedSockets, Owned, Peered, Piped, NEW i \in Slots, CloseSlot(i)
  PROVE  Peered'
<1>1. \A j \in Slots, x \in Conns : Holds(j, x)' <=> j # i /\ Holds(j, x) BY OwnedClose, Constants
<1>2. \A x \in Conns : IF Holds(i, x) THEN conn'[x].at = "down" /\ conn'[x].asks = <<>> /\ conn'[x].out = <<>>
                       ELSE conn'[x] = conn[x]
  BY DroppedIs DEF CloseSlot
<1>3. slot' = [slot EXCEPT ![i] = None] BY DEF CloseSlot
<1>4. \A j \in Slots, x \in Conns : From(j, x)' => From(j, x)
  <2>1. rest' = rest \/ rest' = [rest EXCEPT ![i] = <<>>] BY DEF CloseSlot
  <2>2. \A j \in Slots : rest'[j] = rest[j] \/ rest'[j] = <<>> BY <2>1 DEF TypedSockets
  <2>3. QED BY <2>2 DEF From
<1>5. \A x \in Conns : conn'[x].at = "up" <=> conn[x].at = "up" /\ ~Holds(i, x) BY <1>2
<1>6. \A j \in Slots : slot'[j] # None => \E x \in Conns : Holds(j, x)' /\ conn'[x].at = "up"
  <2>1. SUFFICES ASSUME NEW j \in Slots, slot'[j] # None PROVE \E x \in Conns : Holds(j, x)' /\ conn'[x].at = "up"
    OBVIOUS
  <2>2. slot[j] # None /\ j # i BY <1>3, <2>1 DEF TypedSockets
  <2>3. PICK x \in Conns : Holds(j, x) /\ conn[x].at = "up" BY <2>2 DEF Peered
  <2>4. ~Holds(i, x) BY <2>2, <2>3 DEF Peered
  <2>5. QED BY <1>1, <1>5, <2>2, <2>3, <2>4
<1>7. \A x \in Conns : conn'[x].at = "up" => \E j \in Slots : Holds(j, x)' BY <1>1, <1>5 DEF Peered
<1>8. \A j, m \in Slots, x \in Conns : Holds(j, x)' /\ Holds(m, x)' => j = m BY <1>1 DEF Peered
<1>9. /\ \A x \in Conns : conn'[x].at # "up" => conn'[x].out = <<>>
      /\ \A x \in Conns : \A m \in DOMAIN conn'[x].out : conn'[x].out[m].of[1] = x
  BY <1>2 DEF Peered
<1>10. \A j \in Slots, x \in Conns : From(j, x)' => conn'[x].at \in {"up", "down"} /\ (conn'[x].at = "up" => Holds(j, x)')
  BY <1>1, <1>2, <1>4, <1>5 DEF Peered
<1>11. QED BY <1>6, <1>7, <1>8, <1>9, <1>10 DEF Peered

LEMMA PeeredRead ==
  ASSUME TypedSockets, Owned, Busy, Peered, Piped, NEW i \in Slots, MainRead(i)
  PROVE  Peered'
<1>0. SameHolds /\ slot' = slot /\ conn \in [Conns -> End] BY HoldsKept DEF TypedSockets
<1>1. \A j \in Slots, x \in Conns : Holds(j, x)' <=> Holds(j, x) BY <1>0, Constants DEF SameHolds
<1>2. PICK k \in Conns, n \in Nat :
        /\ Holds(i, k) /\ n \in 1 .. Len(conn[k].out)
        /\ conn' = [conn EXCEPT ![k].out = SubSeq(conn[k].out, n + 1, Len(conn[k].out))]
        /\ rest[i] \o SubSeq(conn[k].out, 1, n) \in Seq(Piece)
        /\ Cut(i, rest[i] \o SubSeq(conn[k].out, 1, n))
  BY TypedRead
<1> DEFINE o == conn[k].out
           a == SubSeq(o, 1, n)
           c == SubSeq(o, n + 1, Len(o))
           b == rest[i] \o a
<1>2a. n \in 1 .. Len(o) BY <1>2
<1>3. conn[k] \in End /\ o \in Seq(Piece) /\ rest[i] \in Seq(Piece) /\ Len(o) \in Nat BY <1>0 DEF TypedSockets, End
<1>4. conn[k].at = "up"
  <2>1. PICK x \in Conns : Holds(i, x) /\ conn[x].at = "up" BY <1>2 DEF Holds, Peered
  <2>2. x = k BY <1>2, <2>1 DEF Holds
  <2>3. QED BY <2>1, <2>2
<1>5. a \in Seq(Piece) /\ Len(a) = n /\ (\A m \in 1 .. n : a[m] = o[m])
  BY <1>2, <1>3, SubSeqProperties
<1>6. c \in Seq(Piece) /\ Part(c, o)
  <2>1. n + 1 \in 1 .. Len(o) + 1 BY <1>2, <1>3
  <2>2. QED BY <1>3, <2>1, SubSeqPart
<1>7. \A m \in DOMAIN o : o[m].of[1] = k BY DEF Peered
<1>8. conn'[k].at = "up" /\ conn'[k].out = c /\ \A x \in Conns \ {k} : conn'[x] = conn[x]
  <2>1. conn' = [conn EXCEPT ![k].out = c] BY <1>2
  <2> HIDE DEF c, o
  <2>2. QED BY <1>0, <1>3, <1>4, <2>1 DEF End
<1>9. \A m \in DOMAIN c : c[m].of[1] = k BY <1>3, <1>6, <1>7, InPart
<1>10. \A j \in Slots, x \in Conns : From(j, x)' => From(j, x) \/ (j = i /\ x = k)
  <2> DEFINE r == FromHeader(b)
  <2>1. Trimmed(i, r) /\ r \in Seq(Piece) /\ Part(r, b) BY <1>2, CutTrims
  <2>2. rest' = [rest EXCEPT ![i] = r] BY <2>1 DEF Trimmed
  <2>3. \A m \in DOMAIN b : b[m].of[1] = k \/ \E l \in DOMAIN rest[i] : b[m] = rest[i][l]
    <3>1. SUFFICES ASSUME NEW m \in DOMAIN b PROVE b[m].of[1] = k \/ \E l \in DOMAIN rest[i] : b[m] = rest[i][l]
      OBVIOUS
    <3> DEFINE s == rest[i]
    <3> HIDE DEF s, a
    <3>2. s \in Seq(Piece) BY <1>3 DEF s
    <3>3. /\ m \in 1 .. Len(s) + Len(a) /\ Len(s) \in Nat /\ Len(a) \in Nat
          /\ (s \o a)[m] = IF m <= Len(s) THEN s[m] ELSE a[m - Len(s)]
      <4>1. b = s \o a BY DEF s
      <4>2. QED BY <1>5, <3>1, <3>2, <4>1, ConcatProperties
    <3>4. CASE m <= Len(s)
      <4>1. m \in DOMAIN s BY <3>2, <3>3, <3>4
      <4>2. QED BY <3>3, <3>4, <4>1 DEF s
    <3>5. CASE ~(m <= Len(s))
      <4>1. m - Len(s) \in 1 .. n BY <1>5, <3>3, <3>5
      <4>2. m - Len(s) \in DOMAIN o BY <1>2a, <1>3, <4>1
      <4>3. QED BY <1>5, <1>7, <3>3, <3>5, <4>1, <4>2 DEF s
    <3>6. QED BY <3>4, <3>5
  <2>4. b \in Seq(Piece) BY <1>2
  <2> HIDE DEF r, b
  <2>5. \A m \in DOMAIN r : \E l \in DOMAIN b : r[m] = b[l] BY <2>1, <2>4, InPart
  <2>6. SUFFICES ASSUME NEW j \in Slots, NEW x \in Conns, From(j, x)' PROVE From(j, x) \/ (j = i /\ x = k) OBVIOUS
  <2>7. CASE j # i
    <3>1. rest'[j] = rest[j] BY <2>2, <2>7 DEF TypedSockets
    <3>2. QED BY <2>6, <3>1 DEF From
  <2>8. CASE j = i
    <3>1. rest'[j] = r BY <2>2, <2>8 DEF TypedSockets
    <3>2. PICK m \in DOMAIN r : r[m].of[1] = x BY <2>6, <3>1 DEF From
    <3>3. PICK l \in DOMAIN b : r[m] = b[l] BY <2>5
    <3>4. QED BY <2>3, <2>8, <3>2, <3>3 DEF From
  <2>9. QED BY <2>7, <2>8
<1> HIDE DEF c
<1>11. \A x \in Conns : conn'[x].at = conn[x].at BY <1>4, <1>8
<1>12. \A j \in Slots : slot'[j] # None => \E x \in Conns : Holds(j, x)' /\ conn'[x].at = "up" BY <1>0, <1>1, <1>11 DEF Peered
<1>13. /\ \A x \in Conns : conn'[x].at = "up" => \E j \in Slots : Holds(j, x)'
       /\ \A j, m \in Slots, x \in Conns : Holds(j, x)' /\ Holds(m, x)' => j = m
  BY <1>1, <1>11 DEF Peered
<1>14. /\ \A x \in Conns : conn'[x].at # "up" => conn'[x].out = <<>>
       /\ \A x \in Conns : \A m \in DOMAIN conn'[x].out : conn'[x].out[m].of[1] = x
  BY <1>8, <1>9 DEF Peered
<1>15. \A j \in Slots, x \in Conns : From(j, x)' => conn'[x].at \in {"up", "down"} /\ (conn'[x].at = "up" => Holds(j, x)')
  BY <1>1, <1>2, <1>4, <1>10, <1>11 DEF Peered
<1>16. QED BY <1>12, <1>13, <1>14, <1>15 DEF Peered

LEMMA PeeredStep ==
  ASSUME TypedSockets, Owned, Busy, Peered, Piped, [Next]_vars
  PROVE  Peered'
<1>1. ASSUME NEW k \in Conns, OfConn(k) PROVE Peered' BY <1>1, PeeredConn
<1>2. ASSUME NEW k \in Conns, NEW i \in Slots, Accepted(i, k) PROVE Peered' BY <1>2, PeeredAccepted
<1>3. ASSUME NEW i \in Slots, CloseSlot(i) PROVE Peered' BY <1>3, PeeredClose
<1>4. ASSUME NEW i \in Slots, MainRead(i) PROVE Peered' BY <1>4, PeeredRead
<1>5. CASE MainFrame
  <2>1. cutting # NoSlot /\ (CutOn \/ GiveUp) /\ conn' = conn
    BY <1>5, Zenon DEF MainFrame, MainObject, MainKill, MainForward, MainConnect, MainFails, Asks
  <2>2. PICK c \in Seq(Piece) : Trimmed(cutting, c) /\ Part(c, rest[cutting]) BY <2>1, CutOnTrims
  <2>3. cutting \in Slots /\ rest[cutting] \in Seq(Piece) /\ rest' = [rest EXCEPT ![cutting] = c]
    BY <2>1, <2>2, FrameIs DEF Trimmed
  <2>4. \A m \in DOMAIN c : \E l \in DOMAIN rest[cutting] : c[m] = rest[cutting][l] BY <2>2, <2>3, InPart
  <2>5. \A i \in Slots, k \in Conns : From(i, k)' => From(i, k)
    <3>1. rest'[cutting] = c /\ \A i \in Slots \ {cutting} : rest'[i] = rest[i] BY <2>3 DEF TypedSockets
    <3>2. QED BY <2>4, <3>1 DEF From
  <2>6. QED BY <1>5, <2>1, <2>5, HoldsKept, PeeredCut
<1>6. CASE Join
  <2>1. \A i \in Slots, k \in Conns : ~Holds(i, k)' /\ slot'[i] = None BY <1>6, JoinIs DEF Holds
  <2>2. \A k \in Conns : conn'[k].at = "down" /\ conn'[k].out = <<>> BY <1>6 DEF Join
  <2>3. DOMAIN <<>> = {} OBVIOUS
  <2>4. \A k \in Conns : DOMAIN conn'[k].out = {} BY <2>2, <2>3
  <2>5. /\ \A i \in Slots : slot'[i] # None => \E k \in Conns : Holds(i, k)' /\ conn'[k].at = "up"
        /\ \A k \in Conns : conn'[k].at = "up" => \E i \in Slots : Holds(i, k)'
        /\ \A i, j \in Slots, k \in Conns : Holds(i, k)' /\ Holds(j, k)' => i = j
    BY <1>6, <2>1, <2>2, JoinIs
  <2>6. QED BY <2>2, <2>4, <2>5 DEF Peered
<1>7. CASE Quiet
  <2>1. UNCHANGED <<conn, rest>> BY <1>7, QuietIs
  <2>2. QED BY <1>7, <2>1, HoldsKept, PeeredCut DEF From
<1>8. ASSUME NEW t \in Threads, ThreadStep(t) PROVE Peered'
  <2>1. UNCHANGED <<conn, rest>> BY <1>8, TypedThread DEF ThreadStep, OfThread
  <2>2. QED BY <1>8, <2>1, HoldsKept, PeeredCut DEF From
<1>9. QED BY <1>1, <1>2, <1>3, <1>4, <1>5, <1>6, <1>7, <1>8, Steps

-----------------------------------------------------------------------------
(* Connections to the threads: every step.                                 *)

LEMMA LeadsIs ==
  TypedSockets /\ Owned /\ Piped =>
    /\ \A i \in Slots, p \in Nat : Leads(i, p) => p \in DOMAIN pipe
    /\ \A t \in Threads, i \in Slots, p \in Nat : Taken(t, i, p) => p \in DOMAIN pipe
    /\ \A i \in Slots : th[i] # None => \E p \in DOMAIN pipe : p = fds[th[i]].of /\ Leads(i, p)
    /\ \A t \in Threads, i \in Slots : At(t, i) # None => \E p \in DOMAIN pipe : p = fds[At(t, i)].of /\ Taken(t, i, p)
<1> SUFFICES ASSUME TypedSockets, Owned, Piped
             PROVE /\ \A i \in Slots, p \in Nat : Leads(i, p) => p \in DOMAIN pipe
                   /\ \A t \in Threads, i \in Slots, p \in Nat : Taken(t, i, p) => p \in DOMAIN pipe
                   /\ \A i \in Slots : th[i] # None => \E p \in DOMAIN pipe : p = fds[th[i]].of /\ Leads(i, p)
                   /\ \A t \in Threads, i \in Slots : At(t, i) # None => \E p \in DOMAIN pipe : p = fds[At(t, i)].of /\ Taken(t, i, p)
  OBVIOUS
<1>1. \A i \in Slots : th[i] # None => th[i] \in Fds /\ fds[th[i]].is = "main" BY Constants DEF TypedSockets, Owned
<1>2. \A t \in Threads, i \in Slots : At(t, i) # None => At(t, i) \in Fds /\ fds[At(t, i)].is = "thread"
  <2>1. \A t \in Threads, i \in Slots : At(t, i) \in Number BY DEF TypedSockets, Handle, At
  <2>2. QED BY <2>1, Constants DEF Owned
<1>3. \A n \in Fds : fds[n] = [is |-> fds[n].is, of |-> fds[n].of] /\ fds[n].of \in Nat BY DEF TypedSockets, Node
<1>4. \A i \in Slots, p \in Nat : Leads(i, p) => p \in DOMAIN pipe BY <1>1 DEF Leads, Piped
<1>5. \A t \in Threads, i \in Slots, p \in Nat : Taken(t, i, p) => p \in DOMAIN pipe BY <1>2 DEF Taken, Piped
<1>6. \A i \in Slots : th[i] # None => \E p \in DOMAIN pipe : p = fds[th[i]].of /\ Leads(i, p)
  BY <1>1, <1>3 DEF Leads, Piped
<1>7. \A t \in Threads, i \in Slots : At(t, i) # None => \E p \in DOMAIN pipe : p = fds[At(t, i)].of /\ Taken(t, i, p)
  BY <1>2, <1>3 DEF Taken, Piped
<1>8. QED BY <1>4, <1>5, <1>6, <1>7

\* What there is of Piped once the connections that are led and taken are there
Ends ==
  /\ \A t \in Threads : \A m \in DOMAIN thread[t].backlog : thread[t].backlog[m] \in DOMAIN pipe
  /\ \A i, j \in Slots, p \in DOMAIN pipe : Leads(i, p) /\ Leads(j, p) => i = j
  /\ \A t, u \in Threads, i, j \in Slots, p \in DOMAIN pipe : Taken(t, i, p) /\ Taken(u, j, p) => t = u /\ i = j
  /\ \A t, u \in Threads, i \in Slots, p \in DOMAIN pipe :
       Taken(t, i, p) => \A m \in DOMAIN thread[u].backlog : thread[u].backlog[m] # p
  /\ \A t, u \in Threads : \A m \in DOMAIN thread[t].backlog, n \in DOMAIN thread[u].backlog :
       thread[t].backlog[m] = thread[u].backlog[n] => t = u /\ m = n
Led ==
  /\ \A i \in Slots, p \in Nat : Leads(i, p) => p \in DOMAIN pipe
  /\ \A t \in Threads, i \in Slots, p \in Nat : Taken(t, i, p) => p \in DOMAIN pipe

LEMMA PipedIs == TypedSockets /\ Owned /\ Led /\ Ends => Piped
<1> SUFFICES ASSUME TypedSockets, Owned, Led, Ends PROVE Piped OBVIOUS
<1>1. \A n \in Fds : fds[n] = [is |-> fds[n].is, of |-> fds[n].of] /\ fds[n].of \in Nat BY DEF TypedSockets, Node
<1>2. \A n \in Fds : n # None BY Constants
<1>3. ASSUME NEW n \in Fds, fds[n].is = "main" PROVE fds[n].of \in DOMAIN pipe
  <2>1. PICK i \in Slots : th[i] = n BY <1>3 DEF Owned
  <2>2. Leads(i, fds[n].of) BY <1>1, <1>2, <1>3, <2>1 DEF Leads
  <2>3. QED BY <1>1, <2>2 DEF Led
<1>4. ASSUME NEW n \in Fds, fds[n].is = "thread" PROVE fds[n].of \in DOMAIN pipe
  <2>1. PICK t \in Threads, i \in Slots : At(t, i) = n BY <1>4 DEF Owned
  <2>2. Taken(t, i, fds[n].of) BY <1>1, <1>2, <1>4, <2>1 DEF Taken
  <2>3. QED BY <1>1, <2>2 DEF Led
<1>5. QED BY <1>3, <1>4 DEF Piped, Ends

LEMMA PipedNext == (TypedSockets /\ Owned /\ Led /\ Ends)' => Piped' BY PipedIs, PTL

\* Nothing is added.
LEMMA PipedKept ==
  ASSUME TypedSockets, Owned, Piped, TypedSockets', Owned', DOMAIN pipe' = DOMAIN pipe,
         \A i \in Slots, p \in Nat : Leads(i, p)' => Leads(i, p),
         \A t \in Threads, i \in Slots, p \in Nat : Taken(t, i, p)' => Taken(t, i, p),
         \A t \in Threads : Part(thread'[t].backlog, thread[t].backlog)
  PROVE  Piped'
<1>0. DOMAIN pipe \subseteq Nat /\ pipe \in Seq(Pipe) BY DEF TypedSockets
<1>1. Led' BY LeadsIs DEF Led
<1>2. \A t \in Threads : /\ thread[t].backlog \in Seq(Nat \ {0}) /\ DOMAIN thread[t].backlog = 1 .. Len(thread[t].backlog)
                         /\ thread'[t].backlog \in Seq(Nat \ {0}) /\ DOMAIN thread'[t].backlog = 1 .. Len(thread'[t].backlog)
                         /\ Len(thread[t].backlog) \in Nat /\ Len(thread'[t].backlog) \in Nat
  BY DEF TypedSockets, Handle
<1>3. \A t \in Threads : \E d \in Nat : \A m \in DOMAIN thread'[t].backlog :
        m + d \in DOMAIN thread[t].backlog /\ thread'[t].backlog[m] = thread[t].backlog[m + d]
  <2>1. SUFFICES ASSUME NEW t \in Threads
                 PROVE \E d \in Nat : \A m \in DOMAIN thread'[t].backlog :
                   m + d \in DOMAIN thread[t].backlog /\ thread'[t].backlog[m] = thread[t].backlog[m + d]
    OBVIOUS
  <2> DEFINE b == thread[t].backlog
             c == thread'[t].backlog
  <2>2. Part(c, b) OBVIOUS
  <2>3. DOMAIN b = 1 .. Len(b) /\ DOMAIN c = 1 .. Len(c) /\ Len(b) \in Nat /\ Len(c) \in Nat BY <1>2
  <2> HIDE DEF b, c
  <2>4. PICK d \in Nat : d + Len(c) <= Len(b) /\ \A x \in 1 .. Len(c) : c[x] = b[x + d] BY <2>2 DEF Part
  <2>5. \A m \in DOMAIN c : m + d \in DOMAIN b /\ c[m] = b[m + d] BY <2>3, <2>4
  <2>6. QED BY <2>5 DEF b, c
<1>4. \A t, u \in Threads : \A m \in DOMAIN thread'[t].backlog, n \in DOMAIN thread'[u].backlog :
        thread'[t].backlog[m] = thread'[u].backlog[n] => t = u /\ m = n
  <2>1. SUFFICES ASSUME NEW t \in Threads, NEW u \in Threads, NEW m \in DOMAIN thread'[t].backlog,
                        NEW n \in DOMAIN thread'[u].backlog, thread'[t].backlog[m] = thread'[u].backlog[n]
                 PROVE  t = u /\ m = n
    OBVIOUS
  <2>2. PICK d \in Nat : \A x \in DOMAIN thread'[t].backlog :
          x + d \in DOMAIN thread[t].backlog /\ thread'[t].backlog[x] = thread[t].backlog[x + d]
    BY <1>3
  <2>3. PICK e \in Nat : \A x \in DOMAIN thread'[u].backlog :
          x + e \in DOMAIN thread[u].backlog /\ thread'[u].backlog[x] = thread[u].backlog[x + e]
    BY <1>3
  <2>4. t = u BY <2>1, <2>2, <2>3 DEF Piped
  <2>5. m + d \in DOMAIN thread[t].backlog /\ n + d \in DOMAIN thread[t].backlog
      /\ thread[t].backlog[m + d] = thread[t].backlog[n + d]
    BY <2>1, <2>2, <2>4
  <2>6. m + d = n + d BY <2>5 DEF Piped
  <2>7. m \in Int /\ n \in Int BY <1>2
  <2>8. QED BY <2>4, <2>6, <2>7
<1>5. \A t \in Threads : \A m \in DOMAIN thread'[t].backlog :
        \E n \in DOMAIN thread[t].backlog : thread'[t].backlog[m] = thread[t].backlog[n]
  BY <1>3
<1>6. \A t \in Threads : \A m \in DOMAIN thread'[t].backlog : thread'[t].backlog[m] \in DOMAIN pipe' BY <1>5 DEF Piped
<1>7. /\ \A i, j \in Slots, p \in DOMAIN pipe' : Leads(i, p)' /\ Leads(j, p)' => i = j
      /\ \A t, u \in Threads, i, j \in Slots, p \in DOMAIN pipe' : Taken(t, i, p)' /\ Taken(u, j, p)' => t = u /\ i = j
  BY <1>0 DEF Piped
<1>8. \A t, u \in Threads, i \in Slots, p \in DOMAIN pipe' :
        Taken(t, i, p)' => \A m \in DOMAIN thread'[u].backlog : thread'[u].backlog[m] # p
  <2>1. SUFFICES ASSUME NEW t \in Threads, NEW u \in Threads, NEW i \in Slots, NEW p \in DOMAIN pipe',
                        Taken(t, i, p)', NEW m \in DOMAIN thread'[u].backlog
                 PROVE  thread'[u].backlog[m] # p
    OBVIOUS
  <2>2. p \in DOMAIN pipe /\ Taken(t, i, p) BY <1>0, <2>1
  <2>3. PICK n \in DOMAIN thread[u].backlog : thread'[u].backlog[m] = thread[u].backlog[n] BY <1>5
  <2>4. QED BY <2>2, <2>3 DEF Piped
<1>9. Ends' BY <1>4, <1>6, <1>7, <1>8 DEF Ends
<1>10. QED BY <1>1, <1>9, PipedNext

\* The frames in the connections to the threads
LEMMA Queues ==
  ASSUME TypedSockets, Owned, Busy, Piped
  PROVE  /\ \A i \in Slots : CloseSlot(i) =>
              DOMAIN pipe' = DOMAIN pipe /\ \A p \in DOMAIN pipe : pipe'[p].q = pipe[p].q
         /\ \A t \in Threads : ThreadAccept(t) \/ ThreadEnd(t) =>
              DOMAIN pipe' = DOMAIN pipe /\ \A p \in DOMAIN pipe : pipe'[p].q = pipe[p].q
         /\ \A t \in Threads, i \in Slots : ThreadRead(t, i) =>
              /\ DOMAIN pipe' = DOMAIN pipe
              /\ \E r \in DOMAIN pipe :
                   /\ r = fds[At(t, i)].of /\ Taken(t, i, r)
                   /\ \A p \in DOMAIN pipe : pipe'[p].q = IF p = r THEN <<>> ELSE pipe[p].q
         /\ MainForward =>
              /\ DOMAIN pipe' = DOMAIN pipe
              /\ \E r \in DOMAIN pipe :
                   /\ Leads(cutting, r)
                   /\ \A p \in DOMAIN pipe :
                        pipe'[p].q = IF p = r THEN Append(pipe[p].q, [ask |-> Frame[1].of]) ELSE pipe[p].q
         /\ MainConnect =>
              /\ DOMAIN pipe' = DOMAIN pipe \cup {Len(pipe) + 1} /\ Len(pipe) + 1 \notin DOMAIN pipe /\ Len(pipe) + 1 \in Nat
              /\ pipe'[Len(pipe) + 1].q = <<[sock |-> slot[cutting]], [ask |-> Frame[1].of]>>
              /\ \A p \in DOMAIN pipe : pipe'[p].q = pipe[p].q
<1>0. pipe \in Seq(Pipe) /\ DOMAIN pipe = 1 .. Len(pipe) /\ Len(pipe) \in Nat /\ \A p \in DOMAIN pipe : pipe[p] \in Pipe
  BY DEF TypedSockets
<1>1. ASSUME NEW i \in Slots, CloseSlot(i)
      PROVE  DOMAIN pipe' = DOMAIN pipe /\ \A p \in DOMAIN pipe : pipe'[p].q = pipe[p].q
  <2>1. pipe' = pipe \/ pipe' = [pipe EXCEPT ![fds[th[i]].of].open = FALSE] BY <1>1 DEF CloseSlot, HangsUp
  <2>2. ASSUME NEW r, pipe' = [pipe EXCEPT ![r].open = FALSE]
        PROVE  DOMAIN pipe' = DOMAIN pipe /\ \A p \in DOMAIN pipe : pipe'[p].q = pipe[p].q
    BY <1>0, <2>2 DEF Pipe
  <2>3. QED BY <2>1, <2>2
<1>2. ASSUME NEW t \in Threads, ThreadAccept(t)
      PROVE  DOMAIN pipe' = DOMAIN pipe /\ \A p \in DOMAIN pipe : pipe'[p].q = pipe[p].q
  <2>1. pipe' = pipe \/ pipe' = [pipe EXCEPT ![Head(thread[t].backlog)].open = FALSE] BY <1>2, Zenon DEF ThreadAccept
  <2>2. ASSUME NEW r, pipe' = [pipe EXCEPT ![r].open = FALSE]
        PROVE  DOMAIN pipe' = DOMAIN pipe /\ \A p \in DOMAIN pipe : pipe'[p].q = pipe[p].q
    BY <1>0, <2>2 DEF Pipe
  <2>3. QED BY <2>1, <2>2
<1>3. ASSUME NEW t \in Threads, ThreadEnd(t)
      PROVE  DOMAIN pipe' = DOMAIN pipe /\ \A p \in DOMAIN pipe : pipe'[p].q = pipe[p].q
  <2> DEFINE gone == Range(thread[t].backlog) \cup {fds[n].of : n \in Range(thread[t].at) \ {None}}
  <2>1. pipe' = [p \in DOMAIN pipe |-> IF p \in gone THEN [pipe[p] EXCEPT !.open = FALSE] ELSE pipe[p]]
    BY <1>3 DEF ThreadEnd
  <2> HIDE DEF gone
  <2>2. QED BY <1>0, <2>1 DEF Pipe
<1>4. ASSUME NEW t \in Threads, NEW i \in Slots, ThreadRead(t, i)
      PROVE  /\ DOMAIN pipe' = DOMAIN pipe
             /\ \E r \in DOMAIN pipe :
                  /\ r = fds[At(t, i)].of /\ Taken(t, i, r)
                  /\ \A p \in DOMAIN pipe : pipe'[p].q = IF p = r THEN <<>> ELSE pipe[p].q
  <2>1. At(t, i) # None BY <1>4, Zenon DEF ThreadRead, At
  <2>2. PICK r \in DOMAIN pipe : r = fds[At(t, i)].of /\ Taken(t, i, r) BY <2>1, LeadsIs
  <2>2a. r = fds[thread[t].at[i]].of BY <2>2 DEF At
  <2>3. pipe' = [pipe EXCEPT ![r].q = <<>>] BY <1>4, <2>2a, Zenon DEF ThreadRead
  <2>4. DOMAIN pipe' = DOMAIN pipe /\ \A p \in DOMAIN pipe : pipe'[p].q = IF p = r THEN <<>> ELSE pipe[p].q
    BY <1>0, <2>3 DEF Pipe
  <2>5. QED BY <2>2, <2>4
<1>5. ASSUME MainForward
      PROVE  /\ DOMAIN pipe' = DOMAIN pipe
             /\ \E r \in DOMAIN pipe :
                  /\ Leads(cutting, r)
                  /\ \A p \in DOMAIN pipe :
                       pipe'[p].q = IF p = r THEN Append(pipe[p].q, [ask |-> Frame[1].of]) ELSE pipe[p].q
  <2>1. cutting \in Slots /\ th[cutting] # None BY <1>5, FrameIs DEF MainForward, Asks
  <2>2. PICK r \in DOMAIN pipe : r = fds[th[cutting]].of /\ Leads(cutting, r) BY <2>1, LeadsIs
  <2> DEFINE m == [ask |-> Frame[1].of]
  <2>3. pipe' = [pipe EXCEPT ![r].q = Append(pipe[r].q, m)] BY <1>5, <2>2 DEF MainForward
  <2> HIDE DEF m
  <2>4. DOMAIN pipe' = DOMAIN pipe /\ \A p \in DOMAIN pipe : pipe'[p].q = IF p = r THEN Append(pipe[p].q, m) ELSE pipe[p].q
    BY <1>0, <2>3 DEF Pipe
  <2>5. QED BY <2>2, <2>4 DEF m
<1>6. ASSUME MainConnect
      PROVE  /\ DOMAIN pipe' = DOMAIN pipe \cup {Len(pipe) + 1} /\ Len(pipe) + 1 \notin DOMAIN pipe /\ Len(pipe) + 1 \in Nat
             /\ pipe'[Len(pipe) + 1].q = <<[sock |-> slot[cutting]], [ask |-> Frame[1].of]>>
             /\ \A p \in DOMAIN pipe : pipe'[p].q = pipe[p].q
  <2> DEFINE q == <<[sock |-> slot[cutting]], [ask |-> Frame[1].of]>>
             x == [open |-> TRUE, q |-> q]
  <2>1. pipe' = Append(pipe, x) BY <1>6 DEF MainConnect
  <2>2. x.q = q OBVIOUS
  <2> HIDE DEF x, q
  <2>3. DOMAIN pipe' = 1 .. Len(pipe) + 1 /\ pipe'[Len(pipe) + 1] = x /\ \A p \in DOMAIN pipe : pipe'[p] = pipe[p]
    BY <1>0, <2>1
  <2>4. DOMAIN pipe' = DOMAIN pipe \cup {Len(pipe) + 1} /\ Len(pipe) + 1 \notin DOMAIN pipe /\ Len(pipe) + 1 \in Nat
    BY <1>0, <2>3
  <2>5. QED BY <2>2, <2>3, <2>4 DEF q
<1>7. QED BY <1>1, <1>2, <1>3, <1>4, <1>5, <1>6

\* The main task's new connection waits for its thread.
LEMMA Backlogs ==
  ASSUME TypedSockets, MainConnect
  PROVE  /\ ThreadFor(Frame) \in Threads /\ thread[ThreadFor(Frame)].alive
         /\ \A u \in Threads :
              /\ thread'[u].alive = thread[u].alive /\ thread'[u].work = thread[u].work /\ thread'[u].i = thread[u].i
              /\ thread'[u].at = thread[u].at /\ thread'[u].snd = thread[u].snd
              /\ thread[u].backlog \in Seq(Nat \ {0})
              /\ thread'[u].backlog = IF u = ThreadFor(Frame) THEN Append(thread[u].backlog, Len(pipe) + 1)
                                      ELSE thread[u].backlog
              /\ \A m \in DOMAIN thread'[u].backlog :
                   \/ m \in DOMAIN thread[u].backlog /\ thread'[u].backlog[m] = thread[u].backlog[m]
                   \/ u = ThreadFor(Frame) /\ m = Len(thread[u].backlog) + 1 /\ thread'[u].backlog[m] = Len(pipe) + 1
<1> DEFINE T == ThreadFor(Frame)
           p == Len(pipe) + 1
<1>1. T \in Threads BY DEF ThreadFor, Threads
<1>2. thread' = [thread EXCEPT ![T].backlog = Append(thread[T].backlog, p)] /\ thread[T].alive
  BY <1>1 DEF MainConnect, CanConnect
<1>3. thread \in [Threads -> Handle] /\ \A u \in Threads : thread[u] \in Handle /\ thread[u].backlog \in Seq(Nat \ {0})
  BY DEF TypedSockets, Handle
<1>4. p \in Nat \ {0} BY DEF TypedSockets
<1> HIDE DEF T, p
<1>5. \A u \in Threads :
        /\ thread'[u].alive = thread[u].alive /\ thread'[u].work = thread[u].work /\ thread'[u].i = thread[u].i
        /\ thread'[u].at = thread[u].at /\ thread'[u].snd = thread[u].snd
        /\ thread'[u].backlog = IF u = T THEN Append(thread[u].backlog, p) ELSE thread[u].backlog
  BY <1>1, <1>2, <1>3 DEF Handle
<1>6. \A u \in Threads : \A m \in DOMAIN thread'[u].backlog :
        \/ m \in DOMAIN thread[u].backlog /\ thread'[u].backlog[m] = thread[u].backlog[m]
        \/ u = T /\ m = Len(thread[u].backlog) + 1 /\ thread'[u].backlog[m] = p
  <2>1. SUFFICES ASSUME NEW u \in Threads, NEW m \in DOMAIN thread'[u].backlog
                 PROVE  \/ m \in DOMAIN thread[u].backlog /\ thread'[u].backlog[m] = thread[u].backlog[m]
                        \/ u = T /\ m = Len(thread[u].backlog) + 1 /\ thread'[u].backlog[m] = p
    OBVIOUS
  <2> DEFINE b == thread[u].backlog
  <2>2. b \in Seq(Nat \ {0}) BY <1>3
  <2>3. thread'[u].backlog = IF u = T THEN Append(b, p) ELSE b BY <1>5
  <2> HIDE DEF b
  <2>4. CASE u = T
    <3>1. thread'[u].backlog = Append(b, p) BY <2>3, <2>4
    <3>2. m \in 1 .. Len(b) + 1 BY <1>4, <2>1, <2>2, <3>1
    <3>3. CASE m = Len(b) + 1 BY <1>4, <2>2, <2>4, <3>1, <3>3 DEF b
    <3>4. CASE m # Len(b) + 1
      <4>1. m \in 1 .. Len(b) BY <2>2, <3>2, <3>4
      <4>2. m \in DOMAIN b /\ Append(b, p)[m] = b[m] BY <1>4, <2>2, <4>1
      <4>3. QED BY <3>1, <4>2 DEF b
    <3>5. QED BY <3>3, <3>4
  <2>5. CASE u # T BY <2>1, <2>3, <2>5 DEF b
  <2>6. QED BY <2>4, <2>5
<1>7. QED BY <1>1, <1>2, <1>3, <1>5, <1>6 DEF T, p

LEMMA PipedConnect ==
  ASSUME TypedSockets, Owned, Busy, Peered, Piped, MainConnect
  PROVE  Piped'
<1> DEFINE n == Len(pipe) + 1
           T == ThreadFor(Frame)
<1>0. TypedSockets' /\ Owned' /\ SameTaken BY OwnedConnect, TypedFrame DEF MainFrame
<1>1. \A j \in Slots, p \in Nat : Leads(j, p)' <=> IF j = cutting THEN p = n ELSE Leads(j, p) BY OwnedConnect
<1>2. DOMAIN pipe' = DOMAIN pipe \cup {n} /\ n \notin DOMAIN pipe /\ n \in Nat BY Queues
<1>3. DOMAIN pipe \subseteq Nat BY DEF TypedSockets
<1>4. \A t \in Threads, i \in Slots, p \in Nat : (Taken(t, i, p)' <=> Taken(t, i, p)) /\ (Taken(t, i, p) => p \in DOMAIN pipe)
  BY <1>0, LeadsIs DEF SameTaken
<1>5. \A i \in Slots, p \in Nat : Leads(i, p) => p \in DOMAIN pipe BY LeadsIs
<1>6. \A u \in Threads : \A m \in DOMAIN thread'[u].backlog :
        \/ m \in DOMAIN thread[u].backlog /\ thread'[u].backlog[m] = thread[u].backlog[m]
        \/ u = T /\ m = Len(thread[u].backlog) + 1 /\ thread'[u].backlog[m] = n
  BY Backlogs
<1> HIDE DEF n, T
<1>7. Led' BY <1>1, <1>2, <1>4, <1>5 DEF Led
<1>8. \A u \in Threads : \A m \in DOMAIN thread[u].backlog : thread[u].backlog[m] \in DOMAIN pipe BY DEF Piped
<1>9. \A t \in Threads : \A m \in DOMAIN thread'[t].backlog : thread'[t].backlog[m] \in DOMAIN pipe' BY <1>2, <1>6, <1>8
<1>10. \A i, j \in Slots, p \in DOMAIN pipe' : Leads(i, p)' /\ Leads(j, p)' => i = j BY <1>1, <1>2, <1>3, <1>5 DEF Piped
<1>11. \A t, u \in Threads, i, j \in Slots, p \in DOMAIN pipe' : Taken(t, i, p)' /\ Taken(u, j, p)' => t = u /\ i = j
  BY <1>2, <1>3, <1>4 DEF Piped
<1>12. \A t, u \in Threads, i \in Slots, p \in DOMAIN pipe' :
         Taken(t, i, p)' => \A m \in DOMAIN thread'[u].backlog : thread'[u].backlog[m] # p
  BY <1>2, <1>3, <1>4, <1>6 DEF Piped
<1>13. \A t, u \in Threads : \A m \in DOMAIN thread'[t].backlog, x \in DOMAIN thread'[u].backlog :
         thread'[t].backlog[m] = thread'[u].backlog[x] => t = u /\ m = x
  <2>1. SUFFICES ASSUME NEW t \in Threads, NEW u \in Threads, NEW m \in DOMAIN thread'[t].backlog,
                        NEW x \in DOMAIN thread'[u].backlog, thread'[t].backlog[m] = thread'[u].backlog[x]
                 PROVE  t = u /\ m = x
    OBVIOUS
  <2>2. \/ m \in DOMAIN thread[t].backlog /\ thread'[t].backlog[m] = thread[t].backlog[m] /\ thread'[t].backlog[m] # n
        \/ t = T /\ m = Len(thread[t].backlog) + 1 /\ thread'[t].backlog[m] = n
    BY <1>2, <1>6, <1>8
  <2>3. \/ x \in DOMAIN thread[u].backlog /\ thread'[u].backlog[x] = thread[u].backlog[x] /\ thread'[u].backlog[x] # n
        \/ u = T /\ x = Len(thread[u].backlog) + 1 /\ thread'[u].backlog[x] = n
    BY <1>2, <1>6, <1>8
  <2>4. QED BY <2>1, <2>2, <2>3 DEF Piped
<1>14. Ends' BY <1>9, <1>10, <1>11, <1>12, <1>13 DEF Ends
<1>15. QED BY <1>0, <1>7, <1>14, PipedNext

\* The backlog after its head was taken
LEMMA TailIs ==
  ASSUME TypedSockets, Owned, NEW t \in Threads, ThreadAccept(t)
  PROVE  /\ Part(thread'[t].backlog, thread[t].backlog) /\ 1 \in DOMAIN thread[t].backlog
         /\ Head(thread[t].backlog) = thread[t].backlog[1]
         /\ thread[t].backlog \in Seq(Nat \ {0}) /\ thread'[t].backlog \in Seq(Nat \ {0})
         /\ \A m \in DOMAIN thread'[t].backlog :
              m + 1 \in DOMAIN thread[t].backlog /\ thread'[t].backlog[m] = thread[t].backlog[m + 1] /\ m + 1 # 1
<1> DEFINE b == thread[t].backlog
           c == thread'[t].backlog
<1>1. b \in Seq(Nat \ {0}) /\ b # <<>> BY DEF ThreadAccept, TypedSockets, Handle
<1>2. c = Tail(b) BY ThreadFields
<1> HIDE DEF b, c
<1>3. c \in Seq(Nat \ {0}) /\ Len(c) = Len(b) - 1 /\ Len(b) \in Nat /\ Len(b) # 0 BY <1>1, <1>2
<1>4. \A m \in 1 .. Len(c) : c[m] = b[m + 1] BY <1>1, <1>2, <1>3
<1>5. 1 + Len(c) <= Len(b) BY <1>3
<1>6. Part(c, b) BY <1>4, <1>5 DEF Part
<1>7. \A m \in DOMAIN c : m + 1 \in DOMAIN b /\ c[m] = b[m + 1] /\ m + 1 # 1
  <2>1. SUFFICES ASSUME NEW m \in DOMAIN c PROVE m + 1 \in DOMAIN b /\ c[m] = b[m + 1] /\ m + 1 # 1 OBVIOUS
  <2>2. m \in 1 .. Len(c) /\ Len(c) \in Nat BY <1>3
  <2>3. m \in Nat \ {0} /\ m <= Len(c) BY <2>2
  <2>3a. m + 1 \in 1 .. Len(b) BY <1>3, <2>3
  <2>3b. m + 1 # 1 BY <2>3
  <2>4. QED BY <1>1, <1>4, <2>2, <2>3a, <2>3b
<1>8. Head(b) = b[1] /\ 1 \in DOMAIN b BY <1>1
<1>9. QED BY <1>1, <1>3, <1>6, <1>7, <1>8 DEF b, c

LEMMA PipedTaken ==
  ASSUME TypedSockets, Owned, Busy, Peered, Piped, NEW t \in Threads, ThreadAccept(t), FreeSlots(thread[t].at) # {}
  PROVE  Piped'
<1> DEFINE i == Min(FreeSlots(thread[t].at))
           h == Head(thread[t].backlog)
<1>0. TypedSockets' /\ Owned' /\ SameLeads BY OwnedThreadAccept, TypedThread
<1>1. \A u \in Threads, j \in Slots, p \in Nat : Taken(u, j, p)' <=> IF u = t /\ j = i THEN p = h ELSE Taken(u, j, p)
  BY OwnedThreadAccept
<1>2. DOMAIN pipe' = DOMAIN pipe /\ DOMAIN pipe \subseteq Nat BY Queues DEF TypedSockets
<1>3. 1 \in DOMAIN thread[t].backlog /\ h = thread[t].backlog[1] BY TailIs
<1>4. h \in DOMAIN pipe /\ h \in Nat BY <1>2, <1>3 DEF Piped
<1>5. \A m \in DOMAIN thread'[t].backlog :
        m + 1 \in DOMAIN thread[t].backlog /\ thread'[t].backlog[m] = thread[t].backlog[m + 1] /\ m + 1 # 1
  BY TailIs
<1>6. \A u \in Threads \ {t} : thread'[u].backlog = thread[u].backlog BY TypedThread DEF OfThread
<1>6a. DOMAIN thread'[t].backlog \subseteq Nat
  <2>1. thread'[t].backlog \in Seq(Nat \ {0}) BY TailIs
  <2>2. QED BY <2>1
<1> HIDE DEF i, h
<1>7. \A u \in Threads, j \in Slots : ~Taken(u, j, h) BY <1>3, <1>4 DEF Piped
<1>8. \A u \in Threads : \A m \in DOMAIN thread'[u].backlog :
        thread'[u].backlog[m] # h /\ \E x \in DOMAIN thread[u].backlog : thread'[u].backlog[m] = thread[u].backlog[x]
  <2>1. SUFFICES ASSUME NEW u \in Threads, NEW m \in DOMAIN thread'[u].backlog
                 PROVE  /\ thread'[u].backlog[m] # h
                        /\ \E x \in DOMAIN thread[u].backlog : thread'[u].backlog[m] = thread[u].backlog[x]
    OBVIOUS
  <2>2. CASE u = t
    <3>1. m + 1 \in DOMAIN thread[t].backlog /\ thread'[t].backlog[m] = thread[t].backlog[m + 1] /\ m + 1 # 1
      BY <1>5, <2>1, <2>2
    <3>2. thread[t].backlog[m + 1] # h BY <1>3, <3>1 DEF Piped
    <3>3. QED BY <2>2, <3>1, <3>2
  <2>3. CASE u # t
    <3>1. m \in DOMAIN thread[u].backlog /\ thread'[u].backlog[m] = thread[u].backlog[m] BY <1>6, <2>1, <2>3
    <3>2. thread[u].backlog[m] # h BY <1>3, <2>3, <3>1 DEF Piped
    <3>3. QED BY <3>1, <3>2
  <2>4. QED BY <2>2, <2>3
<1>9. Led' BY <1>0, <1>1, <1>2, <1>4, LeadsIs DEF Led, SameLeads
<1>10. \A u \in Threads : \A m \in DOMAIN thread'[u].backlog : thread'[u].backlog[m] \in DOMAIN pipe' BY <1>2, <1>8 DEF Piped
<1>11. \A j, k \in Slots, p \in DOMAIN pipe' : Leads(j, p)' /\ Leads(k, p)' => j = k BY <1>0, <1>2 DEF Piped, SameLeads
<1>12. \A u, v \in Threads, j, k \in Slots, p \in DOMAIN pipe' : Taken(u, j, p)' /\ Taken(v, k, p)' => u = v /\ j = k
  BY <1>1, <1>2, <1>7 DEF Piped
<1>13. \A u, v \in Threads, j \in Slots, p \in DOMAIN pipe' :
         Taken(u, j, p)' => \A m \in DOMAIN thread'[v].backlog : thread'[v].backlog[m] # p
  BY <1>1, <1>2, <1>8 DEF Piped
<1>14. \A u, v \in Threads : \A m \in DOMAIN thread'[u].backlog, x \in DOMAIN thread'[v].backlog :
         thread'[u].backlog[m] = thread'[v].backlog[x] => u = v /\ m = x
  <2>1. SUFFICES ASSUME NEW u \in Threads, NEW v \in Threads, NEW m \in DOMAIN thread'[u].backlog,
                        NEW x \in DOMAIN thread'[v].backlog, thread'[u].backlog[m] = thread'[v].backlog[x]
                 PROVE  u = v /\ m = x
    OBVIOUS
  <2>2. u = v BY <1>8, <2>1 DEF Piped
  <2>3. CASE u = t
    <3>1. m + 1 = x + 1 BY <1>5, <2>1, <2>2, <2>3 DEF Piped
    <3>2. QED BY <1>6a, <2>1, <2>2, <2>3, <3>1
  <2>4. CASE u # t BY <1>6, <2>1, <2>2, <2>4 DEF Piped
  <2>5. QED BY <2>2, <2>3, <2>4
<1>15. Ends' BY <1>10, <1>11, <1>12, <1>13, <1>14 DEF Ends
<1>16. QED BY <1>0, <1>9, <1>15, PipedNext

LEMMA WholePart ==
  ASSUME NEW S, NEW b \in Seq(S)
  PROVE  Part(b, b)
<1>1. 0 + Len(b) <= Len(b) /\ \A x \in 1 .. Len(b) : b[x] = b[x + 0] OBVIOUS
<1>2. QED BY <1>1 DEF Part

LEMMA PipedStep ==
  ASSUME TypedSockets, Owned, Busy, Peered, Piped, [Next]_vars
  PROVE  Piped'
<1>0. TypedSockets' /\ Owned' BY TypedStep, OwnedStep
<1>1. \A u \in Threads : Part(thread[u].backlog, thread[u].backlog) BY WholePart DEF TypedSockets, Handle
<1>2. ASSUME UNCHANGED <<pipe, thread>>, \A i \in Slots, p \in Nat : Leads(i, p)' => Leads(i, p),
             \A u \in Threads, i \in Slots, p \in Nat : Taken(u, i, p)' => Taken(u, i, p)
      PROVE  Piped'
  BY <1>0, <1>1, <1>2, PipedKept
<1>3. ASSUME UNCHANGED <<pipe, thread, fds, slot, th>> PROVE Piped'
  <2>1. SameLeads /\ SameTaken BY <1>3, OwnedSame
  <2>2. QED BY <1>2, <1>3, <2>1 DEF SameLeads, SameTaken
<1>4. ASSUME NEW k \in Conns, OfConn(k) PROVE Piped'
  <2>1. UNCHANGED <<pipe, thread, fds, slot, th>> BY <1>4, Zenon DEF OfConn, Connect, Send, Leave, TurnedAway, others, sockets
  <2>2. QED BY <1>3, <2>1
<1>5. ASSUME NEW k \in Conns, NEW i \in Slots, Accepted(i, k) PROVE Piped'
  <2>1. SameLeads /\ SameTaken BY <1>5, OwnedAccepted
  <2>2. UNCHANGED <<pipe, thread>> BY <1>5 DEF Accepted, others
  <2>3. QED BY <1>2, <2>1, <2>2 DEF SameLeads, SameTaken
<1>6. ASSUME NEW i \in Slots, CloseSlot(i) PROVE Piped'
  <2>1. SameTaken /\ \A j \in Slots, p \in Nat : Leads(j, p)' => Leads(j, p) BY <1>6, OwnedClose
  <2>2. thread' = thread /\ DOMAIN pipe' = DOMAIN pipe BY <1>6, Queues DEF CloseSlot
  <2>3. QED BY <1>0, <1>1, <2>1, <2>2, PipedKept DEF SameTaken
<1>7. ASSUME NEW i \in Slots, MainRead(i) PROVE Piped'
  <2>1. UNCHANGED <<pipe, thread, fds, slot, th>> BY <1>7, Zenon DEF MainRead
  <2>2. QED BY <1>3, <2>1
<1>8. CASE MainFrame
  <2>1. CASE MainConnect BY <2>1, PipedConnect
  <2>2. CASE MainForward
    <3>1. UNCHANGED <<thread, fds, slot, th>> BY <2>2 DEF MainForward
    <3>2. SameLeads /\ SameTaken BY <3>1, OwnedSame
    <3>3. DOMAIN pipe' = DOMAIN pipe BY <2>2, Queues
    <3>4. QED BY <1>0, <1>1, <3>1, <3>2, <3>3, PipedKept DEF SameLeads, SameTaken
  <2>3. CASE MainObject \/ MainKill \/ MainFails
    <3>1. UNCHANGED <<pipe, thread, fds, slot, th>> BY <2>3 DEF MainObject, MainKill, MainFails
    <3>2. QED BY <1>3, <3>1
  <2>4. QED BY <1>8, <2>1, <2>2, <2>3 DEF MainFrame
<1>9. CASE Join
  <2>1. UNCHANGED <<pipe, thread>> /\ \A i \in Slots : th'[i] = None /\ \A u \in Threads : At(u, i)' = None BY <1>9, JoinIs
  <2>2. QED BY <1>2, <2>1 DEF Leads, Taken
<1>10. CASE Quiet BY <1>3, <1>10, QuietIs
<1>11. ASSUME NEW t \in Threads, ThreadStep(t) PROVE Piped'
  <2>0. \A u \in Threads \ {t} : thread'[u] = thread[u] BY <1>11, TypedThread DEF ThreadStep, OfThread
  <2>1. ASSUME SameLeads, \A u \in Threads, i \in Slots, p \in Nat : Taken(u, i, p)' => Taken(u, i, p),
               DOMAIN pipe' = DOMAIN pipe, Part(thread'[t].backlog, thread[t].backlog)
        PROVE  Piped'
    <3>1. \A u \in Threads : Part(thread'[u].backlog, thread[u].backlog) BY <1>1, <2>0, <2>1
    <3>2. QED BY <1>0, <2>1, <3>1, PipedKept DEF SameLeads
  <2>2. CASE ThreadAccept(t)
    <3>1. CASE FreeSlots(thread[t].at) # {} BY <2>2, <3>1, PipedTaken
    <3>2. CASE FreeSlots(thread[t].at) = {}
      <4>1. UNCHANGED <<fds, slot, th>> BY <2>2, <3>2 DEF ThreadAccept
      <4>2. \A u \in Threads : thread'[u].at = thread[u].at BY <2>0, <2>2, <3>2, ThreadFields
      <4>3. SameLeads /\ SameTaken BY <4>1, <4>2, OwnedSame
      <4>4. DOMAIN pipe' = DOMAIN pipe /\ Part(thread'[t].backlog, thread[t].backlog) BY <2>2, Queues, TailIs
      <4>5. QED BY <2>1, <4>3, <4>4 DEF SameTaken
    <3>3. QED BY <3>1, <3>2
  <2>3. CASE ThreadFrame(t)
    <3>1. SameLeads /\ SameTaken BY <2>3, ThreadAts, OwnedSame
    <3>2. pipe' = pipe BY <2>3 DEF ThreadFrame
    <3>3. thread'[t].backlog = thread[t].backlog BY <2>3, ThreadFields
    <3>4. QED BY <1>1, <2>1, <3>1, <3>2, <3>3 DEF SameTaken
  <2>4. ASSUME NEW i \in Slots, ThreadRead(t, i) PROVE Piped'
    <3>1. SameLeads /\ SameTaken BY <2>4, ThreadAts, OwnedSame
    <3>2. DOMAIN pipe' = DOMAIN pipe BY <2>4, Queues
    <3>3. thread'[t].backlog = thread[t].backlog BY <2>4, ThreadFields
    <3>4. QED BY <1>1, <2>1, <3>1, <3>2, <3>3 DEF SameTaken
  <2>5. CASE ThreadEnd(t)
    <3>1. SameLeads /\ \A u \in Threads, i \in Slots, p \in Nat : Taken(u, i, p)' => Taken(u, i, p) BY <2>5, OwnedThreadEnd
    <3>2. DOMAIN pipe' = DOMAIN pipe BY <2>5, Queues
    <3>3. thread'[t].backlog = <<>> BY <2>5, ThreadFields
    <3>4. Len(thread[t].backlog) \in Nat BY DEF TypedSockets, Handle
    <3>5. Part(thread'[t].backlog, thread[t].backlog) BY <3>3, <3>4, NoPart
    <3>6. QED BY <2>1, <3>1, <3>2, <3>5
  <2>6. ASSUME NEW i \in Slots, ThreadClose(t, i) PROVE Piped'
    <3>1. SameLeads /\ \A u \in Threads, j \in Slots, p \in Nat : Taken(u, j, p)' => Taken(u, j, p) BY <2>6, OwnedThreadClose
    <3>2. pipe' = pipe BY <2>6 DEF ThreadClose
    <3>3. thread'[t].backlog = thread[t].backlog BY <2>6, ThreadFields
    <3>4. QED BY <1>1, <2>1, <3>1, <3>2, <3>3
  <2>7. QED BY <1>11, <2>2, <2>3, <2>4, <2>5, <2>6 DEF ThreadStep
<1>12. QED BY <1>4, <1>5, <1>6, <1>7, <1>8, <1>9, <1>10, <1>11, Steps

-----------------------------------------------------------------------------
(* What is on its way to the cache: every step.                            *)

LEMMA ConcatParts ==
  ASSUME NEW S, NEW b \in Seq(S), NEW c \in Seq(S)
  PROVE  Part(b, b \o c) /\ Part(c, b \o c) /\ b \o c \in Seq(S)
<1>1. /\ b \o c \in Seq(S) /\ Len(b \o c) = Len(b) + Len(c) /\ Len(b) \in Nat /\ Len(c) \in Nat
      /\ \A x \in 1 .. Len(b) + Len(c) : (b \o c)[x] = IF x <= Len(b) THEN b[x] ELSE c[x - Len(b)]
  BY ConcatProperties
<1>2. 0 + Len(b) <= Len(b \o c) /\ \A x \in 1 .. Len(b) : b[x] = (b \o c)[x + 0] BY <1>1
<1>3. \A x \in 1 .. Len(c) : x + Len(b) \in 1 .. Len(b) + Len(c) /\ ~(x + Len(b) <= Len(b)) /\ (x + Len(b)) - Len(b) = x
  BY <1>1
<1>4. Len(b) + Len(c) <= Len(b \o c) /\ \A x \in 1 .. Len(c) : c[x] = (b \o c)[x + Len(b)]
  BY <1>1, <1>3
<1>5. QED BY <1>1, <1>2, <1>4 DEF Part

LEMMA Associates ==
  ASSUME NEW a \in Buffer, NEW b \in Buffer, NEW c \in Buffer
  PROVE  /\ a \o b \o c = a \o (b \o c) /\ a \o b \in Buffer /\ b \o c \in Buffer /\ a \o b \o c \in Buffer
         /\ Part(a \o b, a \o b \o c) /\ Part(b \o c, a \o b \o c) /\ Part(a, a \o b \o c)
<1> DEFINE S == Seq(Piece)
<1>1. a \in Seq(S) /\ b \in Seq(S) /\ c \in Seq(S) BY DEF Buffer
<1> HIDE DEF S
<1>2. a \o b \in Seq(S) /\ b \o c \in Seq(S) BY <1>1, ConcatProperties
<1>3. a \o b \o c = a \o (b \o c) BY <1>1, ConcatAssociative
<1>4. Part(a \o b, a \o b \o c) /\ a \o b \o c \in Seq(S) BY <1>1, <1>2, ConcatParts
<1>5. Part(b \o c, a \o (b \o c)) /\ Part(a, a \o (b \o c)) BY <1>1, <1>2, ConcatParts
<1>6. QED BY <1>2, <1>3, <1>4, <1>5 DEF Buffer, S

\* The next step adds nothing to what is on its way, or the frame that is cut.
Sends ==
  /\ Queue' \in Buffer
  /\ \/ Part(Queue', Queue)
     \/ MainObject /\ FrameCheck(Frame) /\ \E c \in Buffer : Part(c, Queue) /\ Queue' = Append(c, Frame)

LEMMA QueueIs == TypedBuffers => Queue \in Buffer /\ Part(Queue, Queue) /\ \A x \in {comn \o main, comn} : Part(proc \o x, Queue) /\ proc \o x \in Buffer
<1> SUFFICES ASSUME TypedBuffers PROVE Queue \in Buffer /\ Part(Queue, Queue) /\ \A x \in {comn \o main, comn} : Part(proc \o x, Queue) /\ proc \o x \in Buffer
  OBVIOUS
<1>1. proc \in Buffer /\ comn \in Buffer /\ main \in Buffer BY DEF TypedBuffers, Buffer
<1>2a. proc \o comn \o main = proc \o (comn \o main) BY <1>1, Associates, Zenon
<1>2b. Queue = proc \o (comn \o main) BY <1>2a DEF Queue
<1>2. Queue = proc \o (comn \o main) /\ Queue \in Buffer /\ Part(proc \o comn, Queue) /\ proc \o comn \in Buffer
  BY <1>1, <1>2b, Associates DEF Queue
<1>3. Part(Queue, Queue) BY <1>2, WholePart DEF Buffer
<1>4. QED BY <1>2, <1>3

\* What is shared is given a result.
LEMMA ShareIs ==
  ASSUME TypedBuffers, NEW s, NEW x, Share(s), Result(s, x), UNCHANGED <<proc, push>>
  PROVE  TypedBuffers' /\ Queue' = proc \o x /\ Queue' \in Buffer
<1>1. main' \in Buffer /\ comn' \in Buffer /\ msg' \in Signals /\ Len(main') <= BuffSize /\ Len(comn') <= BuffSize
    /\ comn' \o main' = x
  BY DEF Share, Result
<1>2. proc' \in Buffer /\ proc' = proc BY DEF TypedBuffers, Buffer
<1>3. TypedBuffers' BY <1>1, <1>2 DEF TypedBuffers, Buffer, Signals
<1>4. Queue' = proc' \o (comn' \o main') /\ Queue' \in Buffer BY <1>1, <1>2, Associates DEF Queue
<1>5. QED BY <1>1, <1>2, <1>3, <1>4

LEMMA BuffersStep ==
  ASSUME TypedSockets, TypedBuffers, Owned, Busy, Peered, Piped, [Next]_vars
  PROVE  TypedBuffers' /\ Sends
<1>0. proc \in Buffer /\ comn \in Buffer /\ main \in Buffer /\ msg \in Signals /\ <<>> \in Buffer /\ BuffSize \in Nat
    /\ Len(<<>>) = 0
  BY Constants DEF TypedBuffers, Buffer, Signals
<1>1. Queue \in Buffer /\ Part(Queue, Queue) /\ \A x \in {comn \o main, comn} : Part(proc \o x, Queue) /\ proc \o x \in Buffer
  BY QueueIs
<1>2. ASSUME UNCHANGED <<main, comn, proc>>, msg' \in Signals, push' \in {"loop", "gone"} PROVE TypedBuffers' /\ Sends
  <2>1. Queue' = Queue BY <1>2 DEF Queue
  <2>2. Sends BY <1>1, <2>1 DEF Sends
  <2>3. TypedBuffers' BY <1>2 DEF TypedBuffers, Signals
  <2>4. QED BY <2>2, <2>3
<1>3. ASSUME UNCHANGED <<main, comn, proc, msg, push>> PROVE TypedBuffers' /\ Sends
  <2>1. msg' \in Signals /\ push' \in {"loop", "gone"} BY <1>0, <1>3 DEF TypedBuffers
  <2>2. QED BY <1>2, <1>3, <2>1
<1>4. ASSUME NEW k \in Conns, OfConn(k) PROVE TypedBuffers' /\ Sends
  <2>1. UNCHANGED <<main, comn, proc, msg, push>> BY <1>4, Zenon DEF OfConn, Connect, Send, Leave, TurnedAway, others, buffers
  <2>2. QED BY <1>3, <2>1
<1>5. ASSUME NEW k \in Conns, NEW i \in Slots, Accepted(i, k) PROVE TypedBuffers' /\ Sends
  <2>1. UNCHANGED <<main, comn, proc, msg, push>> BY <1>5, Zenon DEF Accepted, others, buffers
  <2>2. QED BY <1>3, <2>1
<1>6. ASSUME NEW i \in Slots, CloseSlot(i) PROVE TypedBuffers' /\ Sends
  <2>1. UNCHANGED <<main, comn, proc, msg, push>> BY <1>6, Zenon DEF CloseSlot, buffers
  <2>2. QED BY <1>3, <2>1
<1>7. ASSUME NEW i \in Slots, MainRead(i) PROVE TypedBuffers' /\ Sends
  <2>1. UNCHANGED <<main, comn, proc, msg, push>> BY <1>7, Zenon DEF MainRead, buffers
  <2>2. QED BY <1>3, <2>1
<1>8. CASE MainFrame
  <2>1. CASE MainObject
    <3> DEFINE f == Frame
    <3>1. f \in Seq(Piece) BY <2>1, FrameIs DEF MainObject
    <3> DEFINE s == TakeObject(Shared, f)
    <3>2. Share(s) /\ UNCHANGED <<proc, push>> BY <2>1 DEF MainObject
    <3>3. PICK x \in {comn \o main, comn} : Result(s, x) \/ (FrameCheck(f) /\ Result(s, Append(x, f)))
      BY <3>1, TakeIs
    <3> HIDE DEF s
    <3>4. CASE Result(s, x)
      <4>1. TypedBuffers' /\ Queue' = proc \o x /\ Queue' \in Buffer BY <3>2, <3>4, ShareIs
      <4>2. QED BY <1>1, <4>1 DEF Sends
    <3>5. CASE FrameCheck(f) /\ Result(s, Append(x, f))
      <4>1. TypedBuffers' /\ Queue' = proc \o Append(x, f) /\ Queue' \in Buffer BY <3>2, <3>5, ShareIs
      <4>2. proc \o Append(x, f) = Append(proc \o x, f)
        <5> DEFINE S == Seq(Piece)
        <5>1. proc \in Seq(S) /\ f \in S BY <1>0, <3>1 DEF Buffer
        <5>2. x \in Seq(S)
          <6>1. comn \o main \in Buffer BY <1>0, Associates
          <6>2. QED BY <1>0, <6>1 DEF Buffer
        <5> HIDE DEF S, f
        <5>3. QED BY <5>1, <5>2, AppendBehind
      <4>3. Part(proc \o x, Queue) /\ proc \o x \in Buffer BY <1>1
      <4>4. QED BY <2>1, <3>5, <4>1, <4>2, <4>3 DEF Sends
    <3>6. QED BY <3>3, <3>4, <3>5
  <2>2. CASE MainKill \/ MainForward \/ MainConnect \/ MainFails
    <3>1. UNCHANGED <<main, comn, proc, msg, push>>
      BY <2>2, Zenon DEF MainKill, MainForward, MainConnect, MainFails, buffers
    <3>2. QED BY <1>3, <3>1
  <2>3. QED BY <1>8, <2>1, <2>2 DEF MainFrame
<1>9. CASE Join
  <2>1. main' = <<>> /\ comn' = <<>> /\ UNCHANGED <<proc, msg, push>> BY <1>9 DEF Join
  <2>2. proc' \in Buffer /\ msg' \in Signals /\ push' \in {"loop", "gone"} /\ 0 <= BuffSize BY <1>0, <2>1 DEF TypedBuffers
  <2>3. TypedBuffers' BY <1>0, <2>1, <2>2 DEF TypedBuffers, Buffer, Signals
  <2>4. Queue' = proc
    <3>1. Queue' = proc \o <<>> \o <<>> BY <2>1 DEF Queue
    <3>2. proc \o <<>> = proc BY <1>0, ConcatEmptySeq DEF Buffer
    <3>3. QED BY <3>1, <3>2
  <2>5. Part(proc, Queue) BY <1>0, Associates DEF Queue
  <2>6. QED BY <1>0, <2>3, <2>4, <2>5 DEF Sends
<1>10. CASE Quiet
  <2>1. CASE Push
    <3> DEFINE s == Main2Comn(Shared)
    <3>1. Share(s) /\ UNCHANGED <<proc, push>> BY <2>1 DEF Push
    <3>2. \E x \in {comn \o main, comn} : Result(s, x) BY Main2CommonIs
    <3> HIDE DEF s
    <3>3. PICK x \in {comn \o main, comn} : Result(s, x) BY <3>2
    <3>4. TypedBuffers' /\ Queue' = proc \o x /\ Queue' \in Buffer BY <3>1, <3>3, ShareIs
    <3>5. QED BY <1>1, <3>4 DEF Sends
  <2>2. CASE MsgTake
    <3>1. proc' = proc \o comn /\ comn' = <<>> /\ main' = main /\ push' = push /\ msg' \in Signals
      BY <2>2 DEF MsgTake, Signals
    <3>2. proc \o comn \in Buffer BY <1>1
    <3>3. TypedBuffers' BY <1>0, <3>1, <3>2 DEF TypedBuffers, Buffer, Signals
    <3>4. Queue' = Queue
      <4>1. Queue' = proc \o comn \o <<>> \o main BY <3>1 DEF Queue
      <4>2. proc \o comn \o <<>> = proc \o comn BY <3>2, ConcatEmptySeq DEF Buffer
      <4>3. QED BY <4>1, <4>2 DEF Queue
    <3>5. QED BY <1>1, <3>3, <3>4 DEF Sends
  <2>3. CASE MsgPuts
    <3>1. proc' = <<>> /\ UNCHANGED <<main, comn, push>> /\ msg' \in Signals BY <2>3 DEF MsgPuts, Signals
    <3>2. TypedBuffers' BY <1>0, <3>1 DEF TypedBuffers, Buffer, Signals
    <3>3. Queue' = comn \o main
      <4>1. Queue' = <<>> \o comn \o main BY <3>1 DEF Queue
      <4>2. <<>> \o comn = comn BY <1>0, ConcatEmptySeq DEF Buffer
      <4>3. QED BY <4>1, <4>2
    <3>4. comn \o main \in Buffer /\ Part(comn \o main, Queue) BY <1>0, Associates DEF Queue
    <3>5. QED BY <3>2, <3>3, <3>4 DEF Sends
  <2>4. CASE PushEnd \/ MsgTest \/ MsgWait \/ LeaveLoop
    <3>1. UNCHANGED <<main, comn, proc>>
      BY <2>4, Zenon DEF PushEnd, MsgTest, MsgWait, LeaveLoop, buffers
    <3>2. msg' \in Signals
      BY <1>0, <2>4 DEF PushEnd, MsgTest, MsgWait, LeaveLoop, Signals, LastSignal, Signalled
    <3>3. push' \in {"loop", "gone"} BY <2>4 DEF PushEnd, MsgTest, MsgWait, LeaveLoop, TypedBuffers
    <3>4. QED BY <1>2, <3>1, <3>2, <3>3
  <2>5. CASE Sigcatch \/ (\E f \in Findings : Monitor(f.memory, f.cobs, f.file)) \/ UNCHANGED vars
    <3>1. UNCHANGED <<main, comn, proc, msg, push>> BY <2>5 DEF Sigcatch, Monitor, vars, buffers
    <3>2. QED BY <1>3, <3>1
  <2>6. QED BY <1>10, <2>1, <2>2, <2>3, <2>4, <2>5 DEF Quiet
<1>11. ASSUME NEW t \in Threads, ThreadStep(t) PROVE TypedBuffers' /\ Sends
  <2>1. UNCHANGED <<main, comn, proc, msg, push>> BY <1>11, TypedThread DEF ThreadStep, OfThread, buffers
  <2>2. QED BY <1>3, <2>1
<1>12. QED BY <1>4, <1>5, <1>6, <1>7, <1>8, <1>9, <1>10, <1>11, Steps

-----------------------------------------------------------------------------
(* Questions and answers: every step.                                      *)

\* What is asked on connection p, and the socket to answer, remain what they were.
Kept(p) ==
  /\ \A r \in Requests : Travels(r, p) => Travels(r, p)'
  /\ \A s : Target(s, p) => Target(s, p)'

LEMMA KeptIf ==
  ASSUME \A x \in Conns : conn[x].at \in {"up", "down"} =>
           conn'[x].at \in {"up", "down"} /\ (conn'[x].at = "up" => conn[x].at = "up"),
         NEW p,
         \A j \in Slots, x \in Conns : Holds(j, x) /\ Leads(j, p) /\ conn'[x].at = "up" => Holds(j, x)' /\ Leads(j, p)',
         \A j \in Slots : Leads(j, p)' /\ j \notin heir' => Leads(j, p) /\ j \notin heir /\ slot'[j] = slot[j]
  PROVE  Kept(p)
<1>1. ASSUME NEW r \in Requests, Travels(r, p) PROVE Travels(r, p)'
  <2>1. PICK x \in Conns : r[1] = x BY DEF Requests
  <2>2. conn[x].at \in {"up", "down"} /\ (conn[x].at = "up" => \E j \in Slots : Holds(j, x) /\ Leads(j, p))
    BY <1>1, <2>1 DEF Travels
  <2>3. conn'[x].at \in {"up", "down"} /\ (conn'[x].at = "up" => \E j \in Slots : Holds(j, x)' /\ Leads(j, p)') BY <2>2
  <2>4. QED BY <2>1, <2>3 DEF Travels
<1>2. ASSUME NEW s, Target(s, p) PROVE Target(s, p)'
  BY <1>2 DEF Target
<1>3. QED BY <1>1, <1>2 DEF Kept

\* How the peers' ends change, whatever happens
LEMMA Ats ==
  ASSUME TypedSockets, Owned, Busy, Peered, Piped, [Next]_vars, NEW x \in Conns
  PROVE  /\ conn[x].at \in {"up", "down"} => conn'[x].at \in {"up", "down"} /\ (conn'[x].at = "up" => conn[x].at = "up")
         /\ conn'[x].asks \in Seq(Kinds) /\ Len(conn'[x].asks) \in Nat
         /\ Len(conn[x].asks) \in Nat /\ Len(conn'[x].asks) <= Len(conn[x].asks)
<1>0. conn \in [Conns -> End] /\ conn[x] \in End /\ conn[x].asks \in Seq(Kinds) /\ Len(conn[x].asks) \in Nat
    /\ Len(<<>>) = 0 /\ <<>> \in Seq(Kinds)
  BY DEF TypedSockets, End
<1> DEFINE Goal == /\ conn[x].at \in {"up", "down"} => conn'[x].at \in {"up", "down"} /\ (conn'[x].at = "up" => conn[x].at = "up")
                   /\ conn'[x].asks = conn[x].asks \/ conn'[x].asks = <<>>
                        \/ (conn[x].asks # <<>> /\ conn'[x].asks = Tail(conn[x].asks))
<1>1. ASSUME NEW k \in Conns, OfConn(k) PROVE Goal
  <2>1. ASSUME Connect(k) PROVE Goal
    <3>1. conn' = [conn EXCEPT ![k].at = "arrived"] /\ conn[k].at = "off" BY <2>1 DEF Connect
    <3>2. QED BY <1>0, <3>1 DEF End
  <2>2. ASSUME Send(k) PROVE Goal
    <3> DEFINE o == conn[k].out \o Pieces(k, Len(conn[k].asks), Head(conn[k].asks))
    <3>1. conn' = [conn EXCEPT ![k].asks = Tail(conn[k].asks), ![k].out = o] BY <2>2, Zenon DEF Send
    <3> HIDE DEF o
    <3>2. conn[k].asks # <<>> BY <2>2 DEF Send
    <3>3. QED BY <1>0, <3>1, <3>2 DEF End
  <2>3. ASSUME NEW how, Leave(k, how) PROVE Goal
    <3> DEFINE o == IF how = "reset" THEN <<>> ELSE conn[k].out
    <3>1. conn' = [conn EXCEPT ![k].end = how, ![k].asks = <<>>, ![k].out = o] BY <2>3, Zenon DEF Leave
    <3> HIDE DEF o
    <3>2. QED BY <1>0, <3>1 DEF End
  <2>4. ASSUME TurnedAway(k) PROVE Goal
    <3>1. conn' = [conn EXCEPT ![k].at = "down", ![k].asks = <<>>] BY <2>4 DEF TurnedAway
    <3>2. QED BY <1>0, <3>1 DEF End
  <2>5. QED BY <1>1, <2>1, <2>2, <2>3, <2>4 DEF OfConn
<1>2. ASSUME NEW k \in Conns, NEW i \in Slots, Accepted(i, k) PROVE Goal
  <2> DEFINE d == Dropped(conn, slot[i])
  <2>1. d \in [Conns -> End] /\ d[x] \in End BY DroppedTyped
  <2>2. IF Holds(i, x) THEN d[x].at = "down" /\ d[x].asks = <<>> /\ d[x].out = <<>> ELSE d[x] = conn[x] BY DroppedIs
  <2>3. conn' = [d EXCEPT ![k].at = "up"] /\ conn[k].at = "arrived" BY <1>2 DEF Accepted
  <2> HIDE DEF d
  <2>4. conn'[x].asks = d[x].asks /\ (x # k => conn'[x] = d[x]) BY <2>1, <2>3 DEF End
  <2>5. QED BY <2>2, <2>3, <2>4
<1>3. ASSUME NEW i \in Slots, CloseSlot(i) PROVE Goal
  <2>1. IF Holds(i, x) THEN conn'[x].at = "down" /\ conn'[x].asks = <<>> /\ conn'[x].out = <<>> ELSE conn'[x] = conn[x]
    BY <1>3, DroppedIs DEF CloseSlot
  <2>2. QED BY <2>1
<1>4. ASSUME NEW i \in Slots, MainRead(i) PROVE Goal
  <2>1. PICK k \in Conns, n \in Nat : conn' = [conn EXCEPT ![k].out = SubSeq(conn[k].out, n + 1, Len(conn[k].out))]
    BY <1>4, TypedRead
  <2>2. QED BY <1>0, <2>1 DEF End
<1>5. ASSUME MainFrame PROVE Goal
  <2>1. conn' = conn BY <1>5, Zenon DEF MainFrame, MainObject, MainKill, MainForward, MainConnect, MainFails
  <2>2. conn'[x].at = conn[x].at /\ conn'[x].asks = conn[x].asks BY <2>1
  <2>3. QED BY <2>2
<1>6. ASSUME Join PROVE Goal
  <2>1. conn'[x].at = "down" /\ conn'[x].asks = <<>> BY <1>6 DEF Join
  <2>2. QED BY <2>1
<1>7. ASSUME Quiet PROVE Goal
  <2>1. conn' = conn BY <1>7, QuietIs
  <2>2. conn'[x].at = conn[x].at /\ conn'[x].asks = conn[x].asks BY <2>1
  <2>3. QED BY <2>2
<1>8. ASSUME NEW t \in Threads, ThreadStep(t) PROVE Goal
  <2>1. conn' = conn BY <1>8, TypedThread DEF ThreadStep, OfThread
  <2>2. conn'[x].at = conn[x].at /\ conn'[x].asks = conn[x].asks BY <2>1
  <2>3. QED BY <2>2
<1> HIDE DEF Goal
<1>9. Goal BY <1>1, <1>2, <1>3, <1>4, <1>5, <1>6, <1>7, <1>8, Steps
<1>10. conn[x].asks # <<>> => Tail(conn[x].asks) \in Seq(Kinds) /\ Len(Tail(conn[x].asks)) = Len(conn[x].asks) - 1
  BY <1>0
<1>11. conn'[x].asks \in Seq(Kinds) /\ Len(conn'[x].asks) \in Nat /\ Len(conn'[x].asks) <= Len(conn[x].asks)
  <2>1. conn'[x].asks = conn[x].asks \/ conn'[x].asks = <<>> \/ (conn[x].asks # <<>> /\ conn'[x].asks = Tail(conn[x].asks))
    BY <1>9, Zenon DEF Goal
  <2> DEFINE a == conn[x].asks
             b == conn'[x].asks
  <2>2. a \in Seq(Kinds) /\ Len(a) \in Nat /\ (a # <<>> => Tail(a) \in Seq(Kinds) /\ Len(Tail(a)) = Len(a) - 1)
    BY <1>0, <1>10
  <2>3. b = a \/ b = <<>> \/ (a # <<>> /\ b = Tail(a)) BY <2>1
  <2> HIDE DEF a, b
  <2>3a. <<>> \in Seq(Kinds) OBVIOUS
  <2>4. b \in Seq(Kinds) BY <2>2, <2>3, <2>3a
  <2>4a. Len(b) = Len(a) \/ Len(b) = 0 \/ Len(b) = Len(a) - 1 BY <1>0, <2>2, <2>3
  <2>4b. Len(b) \in Nat BY <2>4
  <2>4c. Len(b) <= Len(a) BY <2>2, <2>4a, <2>4b
  <2>5. QED BY <2>4, <2>4b, <2>4c DEF a, b
<1>12. QED BY <1>0, <1>9, <1>11, Zenon DEF Goal

LEMMA KeptStep ==
  ASSUME TypedSockets, Owned, Busy, Peered, Piped, [Next]_vars, NEW p \in DOMAIN pipe
  PROVE  Kept(p)
<1>0. /\ p \in Nat
      /\ \A x \in Conns : conn[x].at \in {"up", "down"} =>
           conn'[x].at \in {"up", "down"} /\ (conn'[x].at = "up" => conn[x].at = "up")
  BY Ats DEF TypedSockets
<1>0a. Conns \subseteq Nat BY Constants
<1>1. ASSUME \A j \in Slots, x \in Conns : Holds(j, x) /\ Leads(j, p) /\ conn'[x].at = "up" => Holds(j, x)' /\ Leads(j, p)',
             \A j \in Slots : Leads(j, p)' /\ j \notin heir' => Leads(j, p) /\ j \notin heir /\ slot'[j] = slot[j]
      PROVE  Kept(p)
  BY <1>0, <1>1, KeptIf
<1>2. ASSUME SameHolds, SameLeads, slot' = slot, heir' = heir PROVE Kept(p)
  BY <1>0, <1>0a, <1>1, <1>2 DEF SameHolds, SameLeads
<1>3. ASSUME NEW k \in Conns, OfConn(k) PROVE Kept(p)
  <2>1. UNCHANGED <<fds, slot, th, heir, thread>> BY <1>3, Zenon DEF OfConn, Connect, Send, Leave, TurnedAway, others, sockets
  <2>2. SameHolds /\ SameLeads BY <2>1, OwnedSame
  <2>3. QED BY <1>2, <2>1, <2>2
<1>4. ASSUME NEW k \in Conns, NEW i \in Slots, Accepted(i, k) PROVE Kept(p)
  <2>1. SameLeads /\ \A j \in Slots, x \in Nat : Holds(j, x)' <=> IF j = i THEN x = k ELSE Holds(j, x)
    BY <1>4, OwnedAccepted
  <2>2. /\ slot' = [slot EXCEPT ![i] = LowestFree(fds)]
        /\ heir' = IF slot[i] = None THEN heir ELSE heir \cup {i}
        /\ conn[k].at = "arrived"
    BY <1>4 DEF Accepted
  <2>3. \A j \in Slots : Leads(j, p)' /\ j \notin heir' => Leads(j, p) /\ j \notin heir /\ slot'[j] = slot[j]
    <3>1. SUFFICES ASSUME NEW j \in Slots, Leads(j, p)', j \notin heir'
                   PROVE  Leads(j, p) /\ j \notin heir /\ slot'[j] = slot[j]
      OBVIOUS
    <3>2. Leads(j, p) /\ j \notin heir BY <1>0, <2>1, <2>2, <3>1 DEF SameLeads
    <3>3. slot[j] # None BY <3>2 DEF Leads, Busy
    <3>4. j # i BY <2>2, <3>1, <3>3
    <3>5. QED BY <2>2, <3>2, <3>4 DEF TypedSockets
  <2>4. \A x \in Conns : Holds(i, x) => conn'[x].at # "up"
    <3>1. SUFFICES ASSUME NEW x \in Conns, Holds(i, x) PROVE conn'[x].at # "up" OBVIOUS
    <3>2. Dropped(conn, slot[i])[x].at = "down" BY <3>1, DroppedIs
    <3>3. x # k
      <4>1. PICK y \in Conns : Holds(i, y) /\ conn[y].at = "up" BY <3>1 DEF Holds, Peered
      <4>2. x = y BY <3>1, <4>1 DEF Holds
      <4>3. QED BY <2>2, <4>1, <4>2
    <3>4. conn' = [Dropped(conn, slot[i]) EXCEPT ![k].at = "up"] BY <1>4 DEF Accepted
    <3>5. Dropped(conn, slot[i]) \in [Conns -> End] BY DroppedTyped
    <3> DEFINE d == Dropped(conn, slot[i])
    <3> HIDE DEF d
    <3>6. d \in [Conns -> End] /\ conn' = [d EXCEPT ![k].at = "up"] /\ d[x].at = "down" BY <3>2, <3>4, <3>5 DEF d
    <3>7. QED BY <3>3, <3>6
  <2>5. \A j \in Slots, x \in Conns : Holds(j, x) /\ Leads(j, p) /\ conn'[x].at = "up" => Holds(j, x)' /\ Leads(j, p)'
    BY <1>0, <1>0a, <2>1, <2>4 DEF SameLeads
  <2>6. QED BY <1>1, <2>3, <2>5
<1>5. ASSUME NEW i \in Slots, CloseSlot(i) PROVE Kept(p)
  <2>1. /\ \A j \in Slots, x \in Nat : Holds(j, x)' <=> j # i /\ Holds(j, x)
        /\ \A j \in Slots, q \in Nat : Leads(j, q)' <=> j # i /\ Leads(j, q)
    BY <1>5, OwnedClose
  <2>2. slot' = [slot EXCEPT ![i] = None] /\ heir' = heir \ {i} BY <1>5 DEF CloseSlot
  <2>3. \A j \in Slots : Leads(j, p)' /\ j \notin heir' => Leads(j, p) /\ j \notin heir /\ slot'[j] = slot[j]
    BY <1>0, <2>1, <2>2 DEF TypedSockets
  <2>4. \A x \in Conns : Holds(i, x) => conn'[x].at # "up"
    BY <1>5, DroppedIs DEF CloseSlot
  <2>5. \A j \in Slots, x \in Conns : Holds(j, x) /\ Leads(j, p) /\ conn'[x].at = "up" => Holds(j, x)' /\ Leads(j, p)'
    BY <1>0, <1>0a, <2>1, <2>4
  <2>6. QED BY <1>1, <2>3, <2>5
<1>6. ASSUME NEW i \in Slots, MainRead(i) PROVE Kept(p)
  <2>1. UNCHANGED <<fds, slot, th, heir, thread>> BY <1>6, Zenon DEF MainRead
  <2>2. SameHolds /\ SameLeads BY <2>1, OwnedSame
  <2>3. QED BY <1>2, <2>1, <2>2
<1>7. CASE MainFrame
  <2>1. CASE MainConnect
    <3>1. SameHolds /\ \A j \in Slots, q \in Nat : Leads(j, q)' <=> IF j = cutting THEN q = Len(pipe) + 1 ELSE Leads(j, q)
      BY <2>1, OwnedConnect
    <3>2. ~Leads(cutting, p) /\ slot' = slot /\ heir' = heir BY <2>1 DEF MainConnect, Leads
    <3>3. p # Len(pipe) + 1 BY <2>1, Queues
    <3>4. \A j \in Slots : Leads(j, p)' <=> Leads(j, p) BY <1>0, <3>1, <3>2, <3>3
    <3>5. QED BY <1>0a, <1>1, <3>1, <3>2, <3>4 DEF SameHolds
  <2>2. CASE MainObject \/ MainKill \/ MainForward \/ MainFails
    <3>1. UNCHANGED <<fds, slot, th, heir, thread>> BY <2>2, Zenon DEF MainObject, MainKill, MainForward, MainFails
    <3>2. SameHolds /\ SameLeads BY <3>1, OwnedSame
    <3>3. QED BY <1>2, <3>1, <3>2
  <2>3. QED BY <1>7, <2>1, <2>2 DEF MainFrame
<1>8. CASE Join
  <2>1. \A j \in Slots : ~Leads(j, p)' BY <1>8, JoinIs DEF Leads
  <2>2. \A x \in Conns : conn'[x].at = "down" BY <1>8 DEF Join
  <2>3. QED BY <1>1, <2>1, <2>2
<1>9. CASE Quiet
  <2>1. UNCHANGED <<fds, slot, th, heir, thread>> BY <1>9, QuietIs
  <2>2. SameHolds /\ SameLeads BY <2>1, OwnedSame
  <2>3. QED BY <1>2, <2>1, <2>2
<1>10. ASSUME NEW t \in Threads, ThreadStep(t) PROVE Kept(p)
  <2>1. slot' = slot /\ heir' = heir BY <1>10, TypedThread DEF ThreadStep, OfThread
  <2>2. SameHolds BY <1>10, HoldsKept
  <2>3. SameLeads
    <3>1. CASE ThreadAccept(t)
      <4>1. CASE FreeSlots(thread[t].at) = {}
        <5>1. UNCHANGED <<fds, th>> BY <3>1, <4>1 DEF ThreadAccept
        <5>2. QED BY <5>1 DEF SameLeads, Leads
      <4>2. CASE FreeSlots(thread[t].at) # {} BY <3>1, <4>2, OwnedThreadAccept
      <4>3. QED BY <4>1, <4>2
    <3>2. CASE ThreadFrame(t) \/ \E i \in Slots : ThreadRead(t, i)
      <4>1. UNCHANGED <<fds, th>> BY <3>2, ThreadAts
      <4>2. QED BY <4>1 DEF SameLeads, Leads
    <3>3. CASE ThreadEnd(t) BY <3>3, OwnedThreadEnd
    <3>4. CASE \E i \in Slots : ThreadClose(t, i) BY <3>4, OwnedThreadClose
    <3>5. QED BY <1>10, <3>1, <3>2, <3>3, <3>4 DEF ThreadStep
  <2>4. QED BY <1>2, <2>1, <2>2, <2>3
<1>11. QED BY <1>3, <1>4, <1>5, <1>6, <1>7, <1>8, <1>9, <1>10, Steps

\* A slot of a thread that is not connected names no socket.
Unnamed == \A t \in Threads, i \in Slots : thread[t].alive /\ At(t, i) = None => thread[t].snd[i] = None

\* No question is added and none is taken to a thread.
LEMMA ServingKept ==
  ASSUME Serving, Unnamed', \A p \in DOMAIN pipe : Kept(p),
         DOMAIN pipe' = DOMAIN pipe, DOMAIN pipe \subseteq Nat, \A p \in DOMAIN pipe : pipe'[p].q = pipe[p].q,
         \A t \in Threads, p \in DOMAIN pipe : Waits(t, p)' => Waits(t, p),
         \A t \in Threads, i \in Slots, p \in Nat :
           Taken(t, i, p)' => Taken(t, i, p) /\ Work(t, i)' = Work(t, i) /\ thread'[t].snd[i] = thread[t].snd[i]
  PROVE  Serving'
<1>1. \A p \in DOMAIN pipe', r \in Requests : Asking(pipe'[p].q, r) => Travels(r, p)' BY DEF Serving, Kept
<1>2. \A t \in Threads, p \in DOMAIN pipe' : Waits(t, p)' => \E s \in Fds : Named(pipe'[p].q, s) /\ Target(s, p)'
  BY DEF Serving, Kept
<1>3. \A t \in Threads, i \in Slots, p \in DOMAIN pipe', r \in Requests :
        Taken(t, i, p)' /\ Asking(Work(t, i)', r) => Travels(r, p)'
  BY DEF Serving, Kept
<1>4. \A t \in Threads, i \in Slots, p \in DOMAIN pipe' : Taken(t, i, p)' => \E s \in Fds : Target(s, p)' /\ Stage(t, i, p, s)'
  <2>1. SUFFICES ASSUME NEW t \in Threads, NEW i \in Slots, NEW p \in DOMAIN pipe', Taken(t, i, p)'
                 PROVE  \E s \in Fds : Target(s, p)' /\ Stage(t, i, p, s)'
    OBVIOUS
  <2>2. p \in DOMAIN pipe /\ Taken(t, i, p) /\ Work(t, i)' = Work(t, i) /\ thread'[t].snd[i] = thread[t].snd[i] BY <2>1
  <2>3. PICK s \in Fds : Target(s, p) /\ Stage(t, i, p, s) BY <2>2 DEF Serving
  <2>4. Target(s, p)' BY <2>2, <2>3 DEF Kept
  <2>5. pipe'[p].q = pipe[p].q BY <2>2
  <2>6. Stage(t, i, p, s)' BY <2>2, <2>3, <2>5 DEF Stage
  <2>7. QED BY <2>4, <2>6
<1>5. QED BY <1>1, <1>2, <1>3, <1>4 DEF Serving, Unnamed

\* The frames of a connection after a question was appended
LEMMA AppendAsk ==
  ASSUME NEW q \in Seq(Names \cup Asked), NEW a \in Requests, NEW w, w = Append(q, [ask |-> a])
  PROVE  /\ w \in Seq(Names \cup Asked)
         /\ \A r : Asking(w, r) => Asking(q, r) \/ r = a
         /\ \A s : Named(q, s) => Named(w, s)
         /\ OnlyAsks(q) => OnlyAsks(w)
<1> DEFINE m == [ask |-> a]
<1>1. m \in Asked /\ \A r : m = [ask |-> r] => r = a
  <2>1. m \in Asked BY DEF Asked, Requests
  <2>2. \A r : m = [ask |-> r] => m.ask = r OBVIOUS
  <2>3. m.ask = a OBVIOUS
  <2>4. QED BY <2>1, <2>2, <2>3
<1> HIDE DEF m
<1>2. w = Append(q, m) BY DEF m
<1>3. w \in Seq(Names \cup Asked) /\ Len(q) \in Nat /\ DOMAIN w = 1 .. Len(q) + 1 /\ DOMAIN q = 1 .. Len(q)
    /\ w[Len(q) + 1] = m /\ \A x \in 1 .. Len(q) : w[x] = q[x]
  BY <1>1, <1>2
<1>4. \A x \in DOMAIN w : (x \in DOMAIN q /\ w[x] = q[x]) \/ w[x] = m
  <2>1. \A x \in 1 .. Len(q) + 1 : x \in 1 .. Len(q) \/ x = Len(q) + 1 BY <1>3
  <2>2. QED BY <1>3, <2>1
<1>5. ASSUME NEW r, Asking(w, r) PROVE Asking(q, r) \/ r = a BY <1>1, <1>4, <1>5 DEF Asking
<1>6. ASSUME NEW s, Named(q, s) PROVE Named(w, s)
  <2>1. q # <<>> /\ q[1] = [sock |-> s] BY <1>6 DEF Named
  <2>2. Len(q) # 0 BY <2>1
  <2>3. 1 \in 1 .. Len(q) BY <1>3, <2>2
  <2>4. w[1] = [sock |-> s] /\ 1 \in DOMAIN w /\ w # <<>> BY <1>3, <2>1, <2>3
  <2>5. \A x \in DOMAIN w : x # 1 => w[x] \in Asked BY <1>1, <1>4, <1>6 DEF Named
  <2>6. QED BY <2>4, <2>5 DEF Named
<1>7. ASSUME OnlyAsks(q) PROVE OnlyAsks(w) BY <1>1, <1>4, <1>7 DEF OnlyAsks
<1>8. QED BY <1>3, <1>5, <1>6, <1>7

\* A frame either names a socket or asks.
LEMMA Frames ==
  /\ \A s : ~([sock |-> s] \in Asked) /\ "sock" \in DOMAIN [sock |-> s] /\ [sock |-> s].sock = s
  /\ \A x \in Asked : ~("sock" \in DOMAIN x)
  /\ \A s, r : [sock |-> s] # [ask |-> r]
<1>1. \A x \in Asked : DOMAIN x = {"ask"} BY DEF Asked
<1>2. \A s : DOMAIN [sock |-> s] = {"sock"} /\ [sock |-> s].sock = s OBVIOUS
<1>3. \A r : DOMAIN [ask |-> r] = {"ask"} OBVIOUS
<1>4. "ask" # "sock" OBVIOUS
<1>5. ASSUME NEW s, NEW r PROVE [sock |-> s] # [ask |-> r] BY <1>2, <1>3, <1>4
<1>6. QED BY <1>1, <1>2, <1>4, <1>5

\* Steps that no thread has a part in
Apart ==
  \/ \E k \in Conns : OfConn(k)
  \/ \E k \in Conns, i \in Slots : Accepted(i, k)
  \/ \E i \in Slots : CloseSlot(i) \/ MainRead(i)
  \/ MainObject \/ MainKill \/ MainForward \/ MainFails \/ Join \/ Quiet

LEMMA ApartIs ==
  ASSUME TypedSockets, Owned, Busy, Piped, Apart
  PROVE  thread' = thread /\ SameTaken
<1>1. ASSUME NEW k \in Conns, OfConn(k) PROVE UNCHANGED <<thread, fds>>
  BY <1>1, Zenon DEF OfConn, Connect, Send, Leave, TurnedAway, others, sockets
<1>2. ASSUME NEW k \in Conns, NEW i \in Slots, Accepted(i, k) PROVE thread' = thread /\ SameTaken
  BY <1>2, OwnedAccepted DEF Accepted, others
<1>3. ASSUME NEW i \in Slots, CloseSlot(i) PROVE thread' = thread /\ SameTaken
  BY <1>3, OwnedClose DEF CloseSlot
<1>4. ASSUME NEW i \in Slots, MainRead(i) PROVE UNCHANGED <<thread, fds>> BY <1>4, Zenon DEF MainRead
<1>5. ASSUME MainObject \/ MainKill \/ MainForward \/ MainFails PROVE UNCHANGED <<thread, fds>>
  BY <1>5, Zenon DEF MainObject, MainKill, MainForward, MainFails
<1>6. ASSUME Join PROVE thread' = thread /\ SameTaken
  <2>1. thread' = thread /\ \A t \in Threads, i \in Slots : At(t, i) = None /\ At(t, i)' = None BY <1>6, JoinIs
  <2>2. QED BY <2>1 DEF SameTaken, Taken
<1>7. ASSUME Quiet PROVE UNCHANGED <<thread, fds>> BY <1>7, QuietIs
<1>8. ASSUME UNCHANGED <<thread, fds>> PROVE thread' = thread /\ SameTaken BY <1>8 DEF SameTaken, Taken, At
<1>9. QED BY <1>1, <1>2, <1>3, <1>4, <1>5, <1>6, <1>7, <1>8 DEF Apart

\* The steps once more: those of which Serving needs to know what they take and append
LEMMA ServingSteps ==
  ASSUME TypedSockets, [Next]_vars
  PROVE  Apart \/ MainConnect \/ \E t \in Threads : ThreadStep(t)
BY Steps, Zenon DEF Apart, MainFrame

\* A slot of a thread that is connected remains so, or is emptied.
LEMMA ThreadLeft ==
  ASSUME TypedSockets, Owned, Busy, Peered, Piped, NEW t \in Threads, ThreadStep(t), NEW i \in Slots,
         thread'[t].alive, At(t, i)' = None
  PROVE  thread[t].alive /\ (At(t, i) = None \/ ThreadClose(t, i))
<1>1. CASE ThreadAccept(t)
  <2>1. thread[t].alive BY <1>1 DEF ThreadAccept
  <2>2. CASE FreeSlots(thread[t].at) = {}
    <3>1. thread'[t].at = thread[t].at BY <1>1, <2>2, ThreadFields
    <3>2. QED BY <2>1, <3>1 DEF At
  <2>3. CASE FreeSlots(thread[t].at) # {}
    <3> DEFINE j == Min(FreeSlots(thread[t].at))
    <3>1. At(t, j) = None /\ j \in Slots
          /\ \A u \in Threads, x \in Slots, p \in Nat :
               Taken(u, x, p)' <=> IF u = t /\ x = j THEN p = Head(thread[t].backlog) ELSE Taken(u, x, p)
      BY <1>1, <2>3, OwnedThreadAccept
    <3> HIDE DEF j
    <3>2. ASSUME At(t, i) # None PROVE FALSE
      <4>1. PICK p \in DOMAIN pipe : Taken(t, i, p) BY <3>2, LeadsIs
      <4>2. p \in Nat BY DEF TypedSockets
      <4>3. Taken(t, i, p)' BY <3>1, <3>2, <4>1, <4>2
      <4>4. QED BY <4>3 DEF Taken
    <3>3. QED BY <2>1, <3>2
  <2>4. QED BY <2>2, <2>3
<1>2. CASE ThreadFrame(t) \/ \E j \in Slots : ThreadRead(t, j)
  <2>1. thread'[t].at = thread[t].at BY <1>2, ThreadAts
  <2>2. thread'[t].alive = thread[t].alive BY <1>2, ThreadFields
  <2>3. QED BY <2>1, <2>2 DEF At
<1>3. CASE ThreadEnd(t) BY <1>3, ThreadFields
<1>4. ASSUME NEW j \in Slots, ThreadClose(t, j) PROVE thread[t].alive /\ (At(t, i) = None \/ ThreadClose(t, i))
  <2>1. thread'[t].at = [thread[t].at EXCEPT ![j] = None] /\ thread'[t].alive = thread[t].alive BY <1>4, ThreadFields
  <2>2. thread[t].at \in [Slots -> Number] BY DEF TypedSockets, Handle
  <2>3. CASE i = j BY <1>4, <2>1, <2>3
  <2>4. CASE i # j BY <2>1, <2>2, <2>4 DEF At
  <2>5. QED BY <2>3, <2>4
<1>5. QED BY <1>1, <1>2, <1>3, <1>4 DEF ThreadStep

LEMMA UnnamedStep ==
  ASSUME TypedSockets, Owned, Busy, Peered, Piped, Unnamed, [Next]_vars
  PROVE  Unnamed'
<1>1. CASE Apart
  <2>1. thread' = thread BY <1>1, ApartIs
  <2>2. QED BY <2>1 DEF Unnamed, At
<1>2. CASE MainConnect
  <2>1. \A u \in Threads : thread'[u].alive = thread[u].alive /\ thread'[u].at = thread[u].at /\ thread'[u].snd = thread[u].snd
    BY <1>2, Backlogs
  <2>2. QED BY <2>1 DEF Unnamed, At
<1>3. ASSUME NEW t \in Threads, ThreadStep(t) PROVE Unnamed'
  <2>0. \A u \in Threads \ {t} : thread'[u] = thread[u] BY <1>3, TypedThread DEF ThreadStep, OfThread
  <2>1. SUFFICES ASSUME NEW i \in Slots, thread'[t].alive, At(t, i)' = None PROVE thread'[t].snd[i] = None
    BY <2>0 DEF Unnamed, At
  <2>2. thread[t].alive /\ (At(t, i) = None \/ ThreadClose(t, i)) BY <1>3, <2>1, ThreadLeft
  <2>3. thread[t].snd \in [Slots -> Number] BY DEF TypedSockets, Handle
  <2>4. CASE ThreadClose(t, i)
    <3>1. thread'[t].snd = [thread[t].snd EXCEPT ![i] = None] BY <2>4, ThreadFields
    <3>2. QED BY <2>3, <3>1
  <2>5. CASE At(t, i) = None
    <3>1. thread[t].snd[i] = None BY <2>2, <2>5 DEF Unnamed
    <3>2. CASE ThreadAccept(t) \/ (\E j \in Slots : ThreadRead(t, j)) \/ ThreadEnd(t)
      <4>1. thread'[t].snd = thread[t].snd BY <3>2, ThreadFields
      <4>2. QED BY <3>1, <4>1
    <3>3. ASSUME NEW j \in Slots, ThreadClose(t, j) PROVE thread'[t].snd[i] = None
      <4>1. thread'[t].snd = [thread[t].snd EXCEPT ![j] = None] BY <3>3, ThreadFields
      <4>2. QED BY <2>3, <3>1, <4>1
    <3>4. CASE ThreadFrame(t)
      <4>1. At(t, thread[t].i) # None BY <3>4 DEF Busy, ThreadFrame
      <4>2. i # thread[t].i BY <2>5, <4>1
      <4>3. thread'[t].snd = thread[t].snd \/ \E s : thread'[t].snd = [thread[t].snd EXCEPT ![thread[t].i] = s]
        BY <3>4, ThreadFields
      <4>4. QED BY <2>3, <3>1, <4>2, <4>3
    <3>5. QED BY <1>3, <3>2, <3>3, <3>4 DEF ThreadStep
  <2>6. QED BY <2>2, <2>4, <2>5
<1>4. QED BY <1>1, <1>2, <1>3, ServingSteps

LEMMA ServingApart ==
  ASSUME TypedSockets, Owned, Busy, Peered, Piped, Serving, [Next]_vars, Apart, ~MainForward
  PROVE  Serving'
<1>1. DOMAIN pipe' = DOMAIN pipe /\ \A p \in DOMAIN pipe : pipe'[p].q = pipe[p].q
  <2>1. ASSUME NEW k \in Conns, OfConn(k) PROVE pipe' = pipe
    BY <2>1, Zenon DEF OfConn, Connect, Send, Leave, TurnedAway, others
  <2>2. ASSUME NEW k \in Conns, NEW i \in Slots, Accepted(i, k) PROVE pipe' = pipe BY <2>2 DEF Accepted, others
  <2>3. ASSUME NEW i \in Slots, MainRead(i) PROVE pipe' = pipe BY <2>3, Zenon DEF MainRead
  <2>4. CASE MainObject \/ MainKill \/ MainFails BY <2>4, Zenon DEF MainObject, MainKill, MainFails
  <2>5. CASE Join BY <2>5, JoinIs
  <2>6. CASE Quiet BY <2>6, QuietIs
  <2>7. ASSUME NEW i \in Slots, CloseSlot(i) PROVE DOMAIN pipe' = DOMAIN pipe /\ \A p \in DOMAIN pipe : pipe'[p].q = pipe[p].q
    BY <2>7, Queues
  <2>8. QED BY <2>1, <2>2, <2>3, <2>4, <2>5, <2>6, <2>7 DEF Apart
<1>2. thread' = thread /\ SameTaken BY ApartIs
<1>3. \A t \in Threads, p \in DOMAIN pipe : Waits(t, p)' => Waits(t, p) BY <1>2 DEF Waits
<1>4. \A t \in Threads, i \in Slots, p \in Nat :
        Taken(t, i, p)' => Taken(t, i, p) /\ Work(t, i)' = Work(t, i) /\ thread'[t].snd[i] = thread[t].snd[i]
  BY <1>2 DEF SameTaken, Work
<1>5. Unnamed' BY UnnamedStep DEF Serving, Unnamed
<1>6. \A p \in DOMAIN pipe : Kept(p) BY KeptStep
<1>7. DOMAIN pipe \subseteq Nat BY DEF TypedSockets
<1>8. QED BY <1>1, <1>3, <1>4, <1>5, <1>6, <1>7, ServingKept

\* Who asks what is at the head of the buffer
LEMMA FrameFrom ==
  ASSUME TypedSockets, Busy, Peered, cutting # NoSlot
  PROVE  /\ Frame[1].of \in Requests /\ cutting \in Slots
         /\ conn[Frame[1].of[1]].at \in {"up", "down"}
         /\ conn[Frame[1].of[1]].at = "up" => Holds(cutting, Frame[1].of[1])
<1>1. /\ cutting \in Slots /\ Frame \in Seq(Piece) /\ Len(Frame) \in {1, 3} /\ rest[cutting] \in Seq(Piece)
      /\ Len(Frame) <= Len(rest[cutting]) /\ \A m \in 1 .. Len(Frame) : Frame[m] = rest[cutting][m]
  BY FrameIs
<1>2. 1 \in 1 .. Len(Frame) /\ 1 \in DOMAIN rest[cutting]
  <2>0. PICK l \in {1, 3} : l = Len(Frame) BY <1>1
  <2>1. 1 <= Len(Frame) /\ Len(Frame) \in Nat BY <2>0
  <2>2. 1 \in 1 .. Len(Frame) BY <2>1
  <2> DEFINE b == rest[cutting]
  <2>3. b \in Seq(Piece) /\ Len(Frame) <= Len(b) BY <1>1
  <2> HIDE DEF b
  <2>4. Len(b) \in Nat /\ DOMAIN b = 1 .. Len(b) BY <2>3
  <2>5. 1 \in DOMAIN b BY <2>1, <2>3, <2>4
  <2>6. QED BY <2>2, <2>5 DEF b
<1>3. Frame[1] \in Piece /\ Frame[1] = rest[cutting][1] BY <1>1, <1>2
<1>4. Frame[1].of \in Requests BY <1>3 DEF Piece, Requests
<1>5. PICK k \in Conns : k = Frame[1].of[1] BY <1>4 DEF Requests
<1>6. From(cutting, k) BY <1>2, <1>3, <1>5 DEF From
<1>7. QED BY <1>1, <1>4, <1>5, <1>6 DEF Peered

LEMMA ServingForward ==
  ASSUME TypedSockets, Owned, Busy, Peered, Piped, Serving, [Next]_vars, MainForward
  PROVE  Serving'
<1>0. PICK a : a = Frame[1].of OBVIOUS
<1>1. cutting # NoSlot BY DEF MainForward, Asks
<1>2. a \in Requests /\ cutting \in Slots /\ conn[a[1]].at \in {"up", "down"} /\ (conn[a[1]].at = "up" => Holds(cutting, a[1]))
  BY <1>0, <1>1, FrameFrom
<1>3. DOMAIN pipe' = DOMAIN pipe BY Queues
<1>4. PICK r \in DOMAIN pipe :
        /\ Leads(cutting, r)
        /\ \A p \in DOMAIN pipe : pipe'[p].q = IF p = r THEN Append(pipe[p].q, [ask |-> a]) ELSE pipe[p].q
  BY <1>0, Queues
<1>5. Travels(a, r) BY <1>2, <1>4 DEF Travels
<1>6. \A p \in DOMAIN pipe : pipe[p].q \in Seq(Names \cup Asked) /\ p \in Nat
  <2>1. pipe \in Seq(Pipe) BY DEF TypedSockets
  <2>2. \A p \in DOMAIN pipe : pipe[p] \in Pipe /\ p \in Nat BY <2>1
  <2>3. QED BY <2>2 DEF Pipe
<1>7. ASSUME NEW p \in DOMAIN pipe
      PROVE  /\ \A x : Asking(pipe'[p].q, x) => Asking(pipe[p].q, x) \/ (p = r /\ x = a)
             /\ \A s : Named(pipe[p].q, s) => Named(pipe'[p].q, s)
             /\ OnlyAsks(pipe[p].q) => OnlyAsks(pipe'[p].q)
  <2>1. CASE p = r
    <3>1. PICK q, w : q = pipe[p].q /\ w = pipe'[p].q OBVIOUS
    <3>2. w = Append(q, [ask |-> a]) /\ q \in Seq(Names \cup Asked) BY <1>4, <1>6, <2>1, <3>1
    <3>3. \A x : Asking(w, x) => Asking(q, x) \/ x = a BY <1>2, <3>2, AppendAsk
    <3>4. \A s : Named(q, s) => Named(w, s) BY <1>2, <3>2, AppendAsk
    <3>5. OnlyAsks(q) => OnlyAsks(w) BY <1>2, <3>2, AppendAsk DEF OnlyAsks
    <3>6. QED BY <2>1, <3>1, <3>3, <3>4, <3>5
  <2>2. CASE p # r
    <3>1. pipe'[p].q = pipe[p].q BY <1>4, <2>2
    <3>2. QED BY <3>1
  <2>3. QED BY <2>1, <2>2
<1>8. \A p \in DOMAIN pipe : Kept(p) BY KeptStep
<1>9. thread' = thread /\ SameTaken BY ApartIs DEF Apart
<1>10. \A p \in DOMAIN pipe', x \in Requests : Asking(pipe'[p].q, x) => Travels(x, p)'
  BY <1>2, <1>3, <1>5, <1>7, <1>8 DEF Serving, Kept
<1>11. \A t \in Threads, p \in DOMAIN pipe' : Waits(t, p)' => \E s \in Fds : Named(pipe'[p].q, s) /\ Target(s, p)'
  <2>1. \A t \in Threads, p \in DOMAIN pipe : Waits(t, p)' => Waits(t, p) BY <1>9 DEF Waits
  <2>2. QED BY <1>3, <1>7, <1>8, <2>1 DEF Serving, Kept
<1>12. Unnamed' BY UnnamedStep DEF Serving, Unnamed
<1>13. \A t \in Threads, i \in Slots : Work(t, i)' = Work(t, i) BY <1>9 DEF Work
<1>14. \A t \in Threads, i \in Slots, p \in DOMAIN pipe', x \in Requests :
         Taken(t, i, p)' /\ Asking(Work(t, i)', x) => Travels(x, p)'
  BY <1>3, <1>6, <1>8, <1>9, <1>13 DEF Serving, Kept, SameTaken
<1>15. \A t \in Threads, i \in Slots, p \in DOMAIN pipe' : Taken(t, i, p)' => \E s \in Fds : Target(s, p)' /\ Stage(t, i, p, s)'
  <2>1. SUFFICES ASSUME NEW t \in Threads, NEW i \in Slots, NEW p \in DOMAIN pipe', Taken(t, i, p)'
                 PROVE  \E s \in Fds : Target(s, p)' /\ Stage(t, i, p, s)'
    OBVIOUS
  <2>2. p \in DOMAIN pipe /\ Taken(t, i, p) BY <1>3, <1>6, <1>9, <2>1 DEF SameTaken
  <2>3. PICK s \in Fds : Target(s, p) /\ Stage(t, i, p, s) BY <2>2 DEF Serving
  <2>4. Target(s, p)' BY <1>8, <2>2, <2>3 DEF Kept
  <2>5. Stage(t, i, p, s)' BY <1>7, <1>9, <1>13, <2>2, <2>3 DEF Stage
  <2>6. QED BY <2>4, <2>5
<1>16. QED BY <1>10, <1>11, <1>12, <1>14, <1>15 DEF Serving, Unnamed

LEMMA ServingConnect ==
  ASSUME TypedSockets, Owned, Busy, Peered, Piped, Serving, [Next]_vars, MainConnect
  PROVE  Serving'
<1>0. PICK a, P, T, z, c : a = Frame[1].of /\ P = Len(pipe) + 1 /\ T = ThreadFor(Frame) /\ z = slot[cutting] /\ c = cutting
  OBVIOUS
<1> DEFINE w == <<[sock |-> z], [ask |-> a]>>
<1>1. cutting # NoSlot BY DEF MainConnect, Asks
<1>2. a \in Requests /\ c \in Slots /\ conn[a[1]].at \in {"up", "down"} /\ (conn[a[1]].at = "up" => Holds(c, a[1]))
  BY <1>0, <1>1, FrameFrom
<1>3. /\ DOMAIN pipe' = DOMAIN pipe \cup {P} /\ P \notin DOMAIN pipe /\ P \in Nat
      /\ pipe'[P].q = w /\ \A p \in DOMAIN pipe : pipe'[p].q = pipe[p].q
  BY <1>0, Queues
<1>4. SameHolds /\ SameTaken /\ \A j \in Slots, p \in Nat : Leads(j, p)' <=> IF j = c THEN p = P ELSE Leads(j, p)
  BY <1>0, OwnedConnect
<1>5. \A u \in Threads :
        /\ thread'[u].work = thread[u].work /\ thread'[u].i = thread[u].i /\ thread'[u].snd = thread[u].snd
        /\ \A m \in DOMAIN thread'[u].backlog :
             \/ m \in DOMAIN thread[u].backlog /\ thread'[u].backlog[m] = thread[u].backlog[m]
             \/ u = T /\ m = Len(thread[u].backlog) + 1 /\ thread'[u].backlog[m] = P
  BY <1>0, Backlogs
<1>6. z \in Fds
  <2>1. z # None BY <1>0, <1>1 DEF Busy
  <2>2. z \in Number BY <1>0, <1>2 DEF TypedSockets
  <2>3. QED BY <2>1, <2>2, Constants
<1>7. \A r : Asking(w, r) => r = a
  <2>1. SUFFICES ASSUME NEW r, Asking(w, r) PROVE r = a OBVIOUS
  <2>2. [ask |-> r] = [sock |-> z] \/ [ask |-> r] = [ask |-> a] BY <2>1 DEF Asking
  <2>3. [ask |-> r] = [ask |-> a] BY <2>2, Frames
  <2>4. [ask |-> r].ask = r /\ [ask |-> a].ask = a OBVIOUS
  <2>5. QED BY <2>3, <2>4
<1>8. Named(w, z)
  <2>1. [ask |-> a] \in Asked BY <1>2 DEF Asked, Requests
  <2>2. QED BY <2>1 DEF Named
<1> HIDE DEF w
<1>9. conn' = conn /\ slot' = slot BY DEF MainConnect
<1>10. Travels(a, P)'
  <2>1. PICK k \in Conns : k = a[1] BY <1>2 DEF Requests
  <2>2. k \in Nat BY Constants
  <2>3. Leads(c, P)' BY <1>2, <1>3, <1>4
  <2>4. Holds(c, k)' <=> Holds(c, k) BY <1>2, <1>4, <2>2 DEF SameHolds
  <2>5. conn'[a[1]].at \in {"up", "down"} BY <1>2, <1>9
  <2>6. conn'[a[1]].at = "up" => \E j \in Slots : Holds(j, a[1])' /\ Leads(j, P)' BY <1>2, <1>9, <2>1, <2>3, <2>4
  <2>7. QED BY <2>5, <2>6 DEF Travels
<1>11. Target(z, P)'
  <2>1. SUFFICES ASSUME NEW j \in Slots, Leads(j, P)' PROVE z = slot'[j] BY DEF Target
  <2>2. j = c BY <1>3, <1>4, <2>1, LeadsIs
  <2>3. QED BY <1>0, <1>9, <2>2
<1>12. \A p \in DOMAIN pipe : Kept(p) BY KeptStep
<1>13. \A p \in DOMAIN pipe', x \in Requests : Asking(pipe'[p].q, x) => Travels(x, p)'
  BY <1>3, <1>7, <1>10, <1>12 DEF Serving, Kept
<1>14. \A t \in Threads, p \in DOMAIN pipe' : Waits(t, p)' => \E s \in Fds : Named(pipe'[p].q, s) /\ Target(s, p)'
  <2>1. SUFFICES ASSUME NEW t \in Threads, NEW p \in DOMAIN pipe', Waits(t, p)'
                 PROVE  \E s \in Fds : Named(pipe'[p].q, s) /\ Target(s, p)'
    OBVIOUS
  <2>2. CASE p = P BY <1>3, <1>6, <1>8, <1>11, <2>2
  <2>3. CASE p # P
    <3>1. p \in DOMAIN pipe BY <1>3, <2>3
    <3>2. Waits(t, p) BY <1>5, <2>1, <2>3 DEF Waits
    <3>3. QED BY <1>3, <1>12, <3>1, <3>2 DEF Serving, Kept
  <2>4. QED BY <2>2, <2>3
<1>15. Unnamed' BY UnnamedStep DEF Serving, Unnamed
<1>16. \A t \in Threads, i \in Slots : Work(t, i)' = Work(t, i) BY <1>5 DEF Work
<1>17. \A t \in Threads, i \in Slots, p \in DOMAIN pipe' : Taken(t, i, p)' => p \in DOMAIN pipe /\ Taken(t, i, p)
  <2>1. DOMAIN pipe' \subseteq Nat BY <1>3 DEF TypedSockets
  <2>2. QED BY <1>4, <2>1, LeadsIs DEF SameTaken
<1>18. \A t \in Threads, i \in Slots, p \in DOMAIN pipe', x \in Requests :
         Taken(t, i, p)' /\ Asking(Work(t, i)', x) => Travels(x, p)'
  BY <1>12, <1>16, <1>17 DEF Serving, Kept
<1>19. \A t \in Threads, i \in Slots, p \in DOMAIN pipe' : Taken(t, i, p)' => \E s \in Fds : Target(s, p)' /\ Stage(t, i, p, s)'
  <2>1. SUFFICES ASSUME NEW t \in Threads, NEW i \in Slots, NEW p \in DOMAIN pipe', Taken(t, i, p)'
                 PROVE  \E s \in Fds : Target(s, p)' /\ Stage(t, i, p, s)'
    OBVIOUS
  <2>2. p \in DOMAIN pipe /\ Taken(t, i, p) BY <1>17, <2>1
  <2>3. PICK s \in Fds : Target(s, p) /\ Stage(t, i, p, s) BY <2>2 DEF Serving
  <2>4. Target(s, p)' BY <1>12, <2>2, <2>3 DEF Kept
  <2>5. pipe'[p].q = pipe[p].q BY <1>3, <2>2
  <2>6. Stage(t, i, p, s)' BY <1>5, <1>16, <2>2, <2>3, <2>5 DEF Stage
  <2>7. QED BY <2>4, <2>6
<1>20. QED BY <1>13, <1>14, <1>15, <1>18, <1>19 DEF Serving, Unnamed

\* What is left in a backlog
LEMMA WaitsLess ==
  ASSUME TypedSockets, Owned, NEW t \in Threads, ThreadStep(t), \A u \in Threads \ {t} : thread'[u] = thread[u]
  PROVE  \A u \in Threads, p \in Nat : Waits(u, p)' => Waits(u, p)
<1>1. \A m \in DOMAIN thread'[t].backlog : \E n \in DOMAIN thread[t].backlog : thread'[t].backlog[m] = thread[t].backlog[n]
  <2>1. CASE ThreadAccept(t) BY <2>1, TailIs
  <2>2. CASE ThreadEnd(t)
    <3>1. thread'[t].backlog = <<>> BY <2>2, ThreadFields
    <3>2. QED BY <3>1
  <2>3. CASE ThreadFrame(t) \/ \E i \in Slots : ThreadRead(t, i) \/ ThreadClose(t, i)
    <3>1. thread'[t].backlog = thread[t].backlog BY <2>3, ThreadFields
    <3>2. QED BY <3>1
  <2>4. QED BY <2>1, <2>2, <2>3 DEF ThreadStep
<1>2. QED BY <1>1 DEF Waits

\* A connection is taken off, or off the backlog only.
LEMMA ServingLoose ==
  ASSUME TypedSockets, Owned, Busy, Peered, Piped, Serving, [Next]_vars, NEW t \in Threads,
         \/ ThreadAccept(t) /\ FreeSlots(thread[t].at) = {}
         \/ ThreadEnd(t) \/ \E i \in Slots : ThreadClose(t, i)
  PROVE  Serving'
<1>0. ThreadStep(t) BY DEF ThreadStep
<1>1. \A u \in Threads \ {t} : thread'[u] = thread[u] BY <1>0, TypedThread DEF ThreadStep, OfThread
<1>2. DOMAIN pipe' = DOMAIN pipe /\ \A p \in DOMAIN pipe : pipe'[p].q = pipe[p].q
  <2>1. CASE ThreadAccept(t) \/ ThreadEnd(t) BY <2>1, Queues
  <2>2. CASE \E i \in Slots : ThreadClose(t, i)
    <3>1. pipe' = pipe BY <2>2, Zenon DEF ThreadClose
    <3>2. QED BY <3>1
  <2>3. QED BY <2>1, <2>2
<1>3. DOMAIN pipe \subseteq Nat BY DEF TypedSockets
<1>4. \A u \in Threads, p \in DOMAIN pipe : Waits(u, p)' => Waits(u, p) BY <1>0, <1>1, <1>3, WaitsLess
<1>5. \A u \in Threads, i \in Slots, p \in Nat :
        Taken(u, i, p)' => Taken(u, i, p) /\ Work(u, i)' = Work(u, i) /\ thread'[u].snd[i] = thread[u].snd[i]
  <2>1. ASSUME NEW u \in Threads, thread'[u].work = thread[u].work, thread'[u].i = thread[u].i
        PROVE  \A i \in Slots : Work(u, i)' = Work(u, i)
    BY <2>1 DEF Work
  <2>2. CASE ThreadAccept(t) /\ FreeSlots(thread[t].at) = {}
    <3>1. /\ thread'[t].snd = thread[t].snd /\ thread'[t].work = thread[t].work /\ thread'[t].i = thread[t].i
          /\ thread'[t].at = thread[t].at
      BY <2>2, ThreadFields
    <3>2. fds' = fds BY <2>2 DEF ThreadAccept
    <3>3. QED BY <1>1, <2>1, <3>1, <3>2 DEF Taken, At
  <2>3. CASE ThreadEnd(t)
    <3>1. \A u \in Threads, i \in Slots, p \in Nat : Taken(u, i, p)' => u # t /\ Taken(u, i, p) BY <2>3, OwnedThreadEnd
    <3>2. QED BY <1>1, <2>1, <3>1
  <2>4. ASSUME NEW i \in Slots, ThreadClose(t, i)
        PROVE  \A u \in Threads, j \in Slots, p \in Nat :
                 Taken(u, j, p)' => Taken(u, j, p) /\ Work(u, j)' = Work(u, j) /\ thread'[u].snd[j] = thread[u].snd[j]
    <3>1. \A u \in Threads, j \in Slots, p \in Nat : Taken(u, j, p)' => ~(u = t /\ j = i) /\ Taken(u, j, p)
      BY <2>4, OwnedThreadClose
    <3>2. /\ thread'[t].snd = [thread[t].snd EXCEPT ![i] = None]
          /\ thread'[t].work = thread[t].work /\ thread'[t].i = thread[t].i
      BY <2>4, ThreadFields
    <3>3. thread[t].snd \in [Slots -> Number] BY DEF TypedSockets, Handle
    <3>4. \A j \in Slots : j # i => thread'[t].snd[j] = thread[t].snd[j] BY <3>2, <3>3
    <3>5. QED BY <1>1, <2>1, <3>1, <3>2, <3>4
  <2>5. QED BY <2>2, <2>3, <2>4
<1>6. Unnamed' BY UnnamedStep DEF Serving, Unnamed
<1>7. \A p \in DOMAIN pipe : Kept(p) BY KeptStep
<1>8. QED BY <1>2, <1>3, <1>4, <1>5, <1>6, <1>7, ServingKept

LEMMA ServingTaken ==
  ASSUME TypedSockets, Owned, Busy, Peered, Piped, Serving, [Next]_vars, NEW t \in Threads,
         ThreadAccept(t), FreeSlots(thread[t].at) # {}
  PROVE  Serving'
<1>0. PICK i, h : i = Min(FreeSlots(thread[t].at)) /\ h = Head(thread[t].backlog) OBVIOUS
<1>1. \A u \in Threads \ {t} : thread'[u] = thread[u] BY TypedThread DEF OfThread
<1>2. DOMAIN pipe' = DOMAIN pipe /\ \A p \in DOMAIN pipe : pipe'[p].q = pipe[p].q BY Queues
<1>3. DOMAIN pipe \subseteq Nat BY DEF TypedSockets
<1>4. \A u \in Threads, p \in DOMAIN pipe : Waits(u, p)' => Waits(u, p) BY <1>1, <1>3, WaitsLess DEF ThreadStep
<1>5. /\ i \in Slots /\ At(t, i) = None
      /\ \A u \in Threads, j \in Slots, p \in Nat : Taken(u, j, p)' <=> IF u = t /\ j = i THEN p = h ELSE Taken(u, j, p)
  BY <1>0, OwnedThreadAccept
<1>6. thread'[t].snd = thread[t].snd /\ thread'[t].work = thread[t].work /\ thread'[t].i = thread[t].i
  BY ThreadFields
<1>7. thread[t].work = <<>> /\ thread[t].alive BY DEF ThreadAccept, Working
<1>8. thread[t].snd[i] = None BY <1>5, <1>7 DEF Serving
<1>9. Waits(t, h) /\ h \in DOMAIN pipe
  <2>1. 1 \in DOMAIN thread[t].backlog /\ h = thread[t].backlog[1] BY <1>0, TailIs
  <2>2. QED BY <2>1 DEF Waits, Piped
<1>10. \A u \in Threads, j \in Slots : Work(u, j)' = Work(u, j) /\ thread'[u].snd[j] = thread[u].snd[j]
  BY <1>1, <1>6 DEF Work
<1>11. Work(t, i) = <<>> BY <1>7 DEF Work
<1>12. \A p \in DOMAIN pipe : Kept(p) BY KeptStep
<1>13. \A p \in DOMAIN pipe', r \in Requests : Asking(pipe'[p].q, r) => Travels(r, p)'
  BY <1>2, <1>12 DEF Serving, Kept
<1>14. \A u \in Threads, p \in DOMAIN pipe' : Waits(u, p)' => \E s \in Fds : Named(pipe'[p].q, s) /\ Target(s, p)'
  BY <1>2, <1>4, <1>12 DEF Serving, Kept
<1>15. \A u \in Threads, j \in Slots, p \in DOMAIN pipe', r \in Requests :
         Taken(u, j, p)' /\ Asking(Work(u, j)', r) => Travels(r, p)'
  <2>1. SUFFICES ASSUME NEW u \in Threads, NEW j \in Slots, NEW p \in DOMAIN pipe', NEW r \in Requests,
                        Taken(u, j, p)', Asking(Work(u, j)', r)
                 PROVE  Travels(r, p)'
    OBVIOUS
  <2>2. ~(u = t /\ j = i)
    <3>1. ~Asking(<<>>, r) BY DEF Asking
    <3>2. QED BY <1>10, <1>11, <2>1, <3>1
  <2>3. p \in DOMAIN pipe /\ Taken(u, j, p) /\ Asking(Work(u, j), r) BY <1>2, <1>3, <1>5, <1>10, <2>1, <2>2
  <2>4. QED BY <1>12, <2>3 DEF Serving, Kept
<1>16. \A u \in Threads, j \in Slots, p \in DOMAIN pipe' : Taken(u, j, p)' => \E s \in Fds : Target(s, p)' /\ Stage(u, j, p, s)'
  <2>1. SUFFICES ASSUME NEW u \in Threads, NEW j \in Slots, NEW p \in DOMAIN pipe', Taken(u, j, p)'
                 PROVE  \E s \in Fds : Target(s, p)' /\ Stage(u, j, p, s)'
    OBVIOUS
  <2>2. CASE u = t /\ j = i
    <3>1. p = h BY <1>2, <1>3, <1>5, <2>1, <2>2
    <3>2. PICK s \in Fds : Named(pipe[h].q, s) /\ Target(s, h) BY <1>9 DEF Serving
    <3>3. Target(s, h)' BY <1>9, <1>12, <3>2 DEF Kept
    <3>4. Named(pipe'[h].q, s) BY <1>2, <1>9, <3>2
    <3>5. Work(t, i)' = <<>> /\ thread'[t].snd[i] = None BY <1>5, <1>8, <1>10, <1>11
    <3>6. Stage(t, i, h, s)' BY <3>4, <3>5 DEF Stage
    <3>7. QED BY <2>2, <3>1, <3>3, <3>6
  <2>3. CASE ~(u = t /\ j = i)
    <3>1. p \in DOMAIN pipe /\ Taken(u, j, p) BY <1>2, <1>3, <1>5, <2>1, <2>3
    <3>2. PICK s \in Fds : Target(s, p) /\ Stage(u, j, p, s) BY <3>1 DEF Serving
    <3>3. Target(s, p)' BY <1>12, <3>1, <3>2 DEF Kept
    <3>4. pipe'[p].q = pipe[p].q BY <1>2, <3>1
    <3>5. Stage(u, j, p, s)' BY <1>10, <3>2, <3>4 DEF Stage
    <3>6. QED BY <3>3, <3>5
  <2>4. QED BY <2>2, <2>3
<1>17. Unnamed' BY UnnamedStep DEF Serving, Unnamed
<1>18. QED BY <1>13, <1>14, <1>15, <1>16, <1>17 DEF Serving, Unnamed

LEMMA ServingRead ==
  ASSUME TypedSockets, Owned, Busy, Peered, Piped, Serving, [Next]_vars, NEW t \in Threads, NEW i \in Slots,
         ThreadRead(t, i)
  PROVE  Serving'
<1>1. \A u \in Threads \ {t} : thread'[u] = thread[u] BY TypedThread DEF OfThread
<1>2. DOMAIN pipe' = DOMAIN pipe BY Queues
<1>3. PICK r \in DOMAIN pipe :
        /\ r = fds[At(t, i)].of /\ Taken(t, i, r)
        /\ \A p \in DOMAIN pipe : pipe'[p].q = IF p = r THEN <<>> ELSE pipe[p].q
  BY Queues
<1>4. DOMAIN pipe \subseteq Nat BY DEF TypedSockets
<1>5. \A u \in Threads, p \in DOMAIN pipe : Waits(u, p)' => Waits(u, p) BY <1>1, <1>4, WaitsLess DEF ThreadStep
<1>6. \A u \in Threads, j \in Slots, p \in Nat : Taken(u, j, p)' <=> Taken(u, j, p)
  BY ThreadAts, OwnedSame DEF SameTaken
<1>7. /\ thread'[t].snd = thread[t].snd /\ thread'[t].work = pipe[r].q /\ thread'[t].i = i
  <2>1. thread'[t].snd = thread[t].snd /\ thread'[t].work = pipe[fds[At(t, i)].of].q /\ thread'[t].i = i
    BY ThreadFields
  <2>2. pipe[fds[At(t, i)].of].q = pipe[r].q BY <1>3, Zenon
  <2>3. QED BY <2>1, <2>2
<1>8. thread[t].work = <<>> BY Zenon DEF ThreadRead, Working
<1>9. /\ \A j \in Slots : Work(t, j) = <<>>
      /\ Work(t, i)' = pipe[r].q /\ \A j \in Slots : j # i => Work(t, j)' = <<>>
  BY <1>7, <1>8 DEF Work
<1>10. \A u \in Threads, j \in Slots : /\ thread'[u].snd[j] = thread[u].snd[j]
                                       /\ ~(u = t /\ j = i) => Work(u, j)' = Work(u, j)
  <2>1. \A u \in Threads, j \in Slots : thread'[u].snd[j] = thread[u].snd[j] BY <1>1, <1>7
  <2>2. \A u \in Threads, j \in Slots : u # t => Work(u, j)' = Work(u, j) BY <1>1 DEF Work
  <2>3. QED BY <1>9, <2>1, <2>2
<1>11. \A u \in Threads, j \in Slots : Taken(u, j, r) => u = t /\ j = i BY <1>3 DEF Piped
<1>12. \A p \in DOMAIN pipe : Taken(t, i, p) => p = r BY <1>3 DEF Taken
<1>13. \A u \in Threads : ~Waits(u, r) BY <1>3 DEF Waits, Piped
<1>14. \A p \in DOMAIN pipe : Kept(p) BY KeptStep
<1>15. \A x, s : ~Asking(<<>>, x) /\ ~Named(<<>>, s) BY DEF Asking, Named
<1>15a. OnlyAsks(<<>>) BY DEF OnlyAsks
<1>16. \A p \in DOMAIN pipe', x \in Requests : Asking(pipe'[p].q, x) => Travels(x, p)'
  BY <1>2, <1>3, <1>14, <1>15 DEF Serving, Kept
<1>17. \A u \in Threads, p \in DOMAIN pipe' : Waits(u, p)' => \E s \in Fds : Named(pipe'[p].q, s) /\ Target(s, p)'
  <2>1. SUFFICES ASSUME NEW u \in Threads, NEW p \in DOMAIN pipe', Waits(u, p)'
                 PROVE  \E s \in Fds : Named(pipe'[p].q, s) /\ Target(s, p)'
    OBVIOUS
  <2>2. p \in DOMAIN pipe /\ Waits(u, p) BY <1>2, <1>5, <2>1
  <2>3. pipe'[p].q = pipe[p].q BY <1>3, <1>13, <2>2
  <2>4. PICK s \in Fds : Named(pipe[p].q, s) /\ Target(s, p) BY <2>2 DEF Serving
  <2>5. Target(s, p)' BY <1>14, <2>2, <2>4 DEF Kept
  <2>6. QED BY <2>3, <2>4, <2>5
<1>18. \A u \in Threads, j \in Slots, p \in DOMAIN pipe', x \in Requests :
         Taken(u, j, p)' /\ Asking(Work(u, j)', x) => Travels(x, p)'
  <2>1. SUFFICES ASSUME NEW u \in Threads, NEW j \in Slots, NEW p \in DOMAIN pipe', NEW x \in Requests,
                        Taken(u, j, p)', Asking(Work(u, j)', x)
                 PROVE  Travels(x, p)'
    OBVIOUS
  <2>2. p \in DOMAIN pipe /\ Taken(u, j, p) BY <1>2, <1>4, <1>6, <2>1
  <2>3. CASE u = t /\ j = i
    <3>1. p = r /\ Asking(pipe[r].q, x) BY <1>9, <1>12, <2>1, <2>2, <2>3
    <3>2. Travels(x, p) BY <2>2, <3>1 DEF Serving
    <3>3. QED BY <1>14, <2>2, <3>2 DEF Kept
  <2>4. CASE ~(u = t /\ j = i)
    <3>1. Asking(Work(u, j), x) BY <1>10, <2>1, <2>4
    <3>2. Travels(x, p) BY <2>2, <3>1 DEF Serving
    <3>3. QED BY <1>14, <2>2, <3>2 DEF Kept
  <2>5. QED BY <2>3, <2>4
<1>19. \A u \in Threads, j \in Slots, p \in DOMAIN pipe' : Taken(u, j, p)' => \E s \in Fds : Target(s, p)' /\ Stage(u, j, p, s)'
  <2>1. SUFFICES ASSUME NEW u \in Threads, NEW j \in Slots, NEW p \in DOMAIN pipe', Taken(u, j, p)'
                 PROVE  \E s \in Fds : Target(s, p)' /\ Stage(u, j, p, s)'
    OBVIOUS
  <2>2. p \in DOMAIN pipe /\ Taken(u, j, p) BY <1>2, <1>4, <1>6, <2>1
  <2>3. PICK s \in Fds : Target(s, p) /\ Stage(u, j, p, s) BY <2>2 DEF Serving
  <2>4. Target(s, p)' BY <1>14, <2>2, <2>3 DEF Kept
  <2>5. CASE u = t /\ j = i
    <3>1. p = r BY <1>12, <2>2, <2>5
    <3>2. Work(t, i)' = pipe[r].q /\ pipe'[r].q = <<>> /\ Work(t, i) = <<>> /\ thread'[t].snd[i] = thread[t].snd[i]
      BY <1>3, <1>9, <1>10
    <3>3. \/ Named(pipe[r].q, s)
          \/ thread[t].snd[i] = s /\ OnlyAsks(pipe[r].q)
      BY <1>15, <2>3, <2>5, <3>1, <3>2 DEF Stage
    <3>4. Stage(t, i, r, s)' BY <1>15a, <3>2, <3>3 DEF Stage
    <3>5. QED BY <2>4, <2>5, <3>1, <3>4
  <2>6. CASE ~(u = t /\ j = i)
    <3>1. p # r BY <1>11, <2>2, <2>6
    <3>2. pipe'[p].q = pipe[p].q BY <1>3, <2>2, <3>1
    <3>3. Work(u, j)' = Work(u, j) /\ thread'[u].snd[j] = thread[u].snd[j] BY <1>10, <2>6
    <3>4. Stage(u, j, p, s)' BY <2>3, <3>2, <3>3 DEF Stage
    <3>5. QED BY <2>4, <3>4
  <2>7. QED BY <2>5, <2>6
<1>20. Unnamed' BY UnnamedStep DEF Serving, Unnamed
<1>21. QED BY <1>16, <1>17, <1>18, <1>19, <1>20 DEF Serving, Unnamed

\* The frames that are left when the first was processed
LEMMA TailFrames ==
  ASSUME NEW q \in Seq(Names \cup Asked), q # <<>>, NEW w, w = Tail(q)
  PROVE  /\ \A r : Asking(w, r) => Asking(q, r)
         /\ \A s : Named(q, s) => OnlyAsks(w) /\ Head(q) = [sock |-> s]
         /\ OnlyAsks(q) => OnlyAsks(w) /\ Head(q) \in Asked
         /\ Head(q) = q[1] /\ 1 \in DOMAIN q
<1>1. /\ w \in Seq(Names \cup Asked) /\ Len(q) \in Nat /\ Len(q) # 0 /\ Len(w) = Len(q) - 1
      /\ DOMAIN q = 1 .. Len(q) /\ DOMAIN w = 1 .. Len(q) - 1
  OBVIOUS
<1>2. \A m \in 1 .. Len(q) - 1 : w[m] = q[m + 1] /\ m + 1 \in 1 .. Len(q) /\ m + 1 # 1
  <2>1. SUFFICES ASSUME NEW m \in 1 .. Len(q) - 1 PROVE w[m] = q[m + 1] /\ m + 1 \in 1 .. Len(q) /\ m + 1 # 1 OBVIOUS
  <2>2. m \in Nat \ {0} /\ m <= Len(q) - 1 BY <1>1
  <2>3. m + 1 \in 1 .. Len(q) BY <1>1, <2>2
  <2>4. m + 1 # 1 BY <2>2
  <2>5. QED BY <1>1, <2>1, <2>3, <2>4
<1>3. \A m \in DOMAIN w : \E n \in DOMAIN q : n # 1 /\ w[m] = q[n] BY <1>1, <1>2
<1>4. Head(q) = q[1] /\ 1 \in DOMAIN q BY <1>1
<1>5. \A r : Asking(w, r) => Asking(q, r) BY <1>3 DEF Asking
<1>6. \A s : Named(q, s) => OnlyAsks(w) /\ Head(q) = [sock |-> s] BY <1>3, <1>4 DEF Named, OnlyAsks
<1>7. OnlyAsks(q) => OnlyAsks(w) /\ Head(q) \in Asked BY <1>3, <1>4 DEF OnlyAsks
<1>8. QED BY <1>4, <1>5, <1>6, <1>7

LEMMA ServingFrame ==
  ASSUME TypedSockets, Owned, Busy, Peered, Piped, Serving, [Next]_vars, NEW t \in Threads, ThreadFrame(t)
  PROVE  Serving'
<1>0. PICK i, q, w : i = thread[t].i /\ q = thread[t].work /\ w = Tail(q) OBVIOUS
<1>1. \A u \in Threads \ {t} : thread'[u] = thread[u] BY TypedThread DEF OfThread
<1>2. pipe' = pipe BY DEF ThreadFrame
<1>3. DOMAIN pipe \subseteq Nat BY DEF TypedSockets
<1>4. \A u \in Threads, p \in DOMAIN pipe : Waits(u, p)' => Waits(u, p) BY <1>1, <1>3, WaitsLess DEF ThreadStep
<1>5. \A u \in Threads, j \in Slots, p \in Nat : Taken(u, j, p)' <=> Taken(u, j, p)
  BY ThreadAts, OwnedSame DEF SameTaken
<1>6. /\ thread'[t].work = w /\ thread'[t].i = i
      /\ thread'[t].snd = IF "sock" \in DOMAIN Head(q) THEN [thread[t].snd EXCEPT ![i] = Head(q).sock] ELSE thread[t].snd
  BY <1>0, ThreadFields
<1>7. /\ q \in Seq(Names \cup Asked) /\ i \in Slots /\ thread[t].snd \in [Slots -> Number]
  BY <1>0 DEF TypedSockets, Handle
<1>8. q # <<>> BY <1>0 DEF ThreadFrame, Working
<1>9. Work(t, i) = q /\ Work(t, i)' = w BY <1>0, <1>6 DEF Work
<1>10. \A u \in Threads, j \in Slots : ~(u = t /\ j = i) => Work(u, j)' = Work(u, j) /\ thread'[u].snd[j] = thread[u].snd[j]
  <2>1. \A u \in Threads, j \in Slots : u # t => Work(u, j)' = Work(u, j) /\ thread'[u].snd[j] = thread[u].snd[j]
    BY <1>1 DEF Work
  <2>2. \A j \in Slots : j # i => Work(t, j)' = <<>> /\ Work(t, j) = <<>> BY <1>0, <1>6 DEF Work
  <2>3. \A j \in Slots : j # i => thread'[t].snd[j] = thread[t].snd[j] BY <1>6, <1>7
  <2>4. QED BY <2>1, <2>2, <2>3
<1>11. \A p \in DOMAIN pipe : Kept(p) BY KeptStep
<1>12. /\ \A r : Asking(w, r) => Asking(q, r)
       /\ \A s : Named(q, s) => OnlyAsks(w) /\ Head(q) = [sock |-> s]
       /\ OnlyAsks(q) => OnlyAsks(w) /\ Head(q) \in Asked
  BY <1>0, <1>7, <1>8, TailFrames
<1>13. \A p \in DOMAIN pipe', x \in Requests : Asking(pipe'[p].q, x) => Travels(x, p)' BY <1>2, <1>11 DEF Serving, Kept
<1>14. \A u \in Threads, p \in DOMAIN pipe' : Waits(u, p)' => \E s \in Fds : Named(pipe'[p].q, s) /\ Target(s, p)'
  BY <1>2, <1>4, <1>11 DEF Serving, Kept
<1>15. \A u \in Threads, j \in Slots : \A x : Asking(Work(u, j)', x) => Asking(Work(u, j), x) BY <1>9, <1>10, <1>12
<1>16. \A u \in Threads, j \in Slots, p \in DOMAIN pipe', x \in Requests :
         Taken(u, j, p)' /\ Asking(Work(u, j)', x) => Travels(x, p)'
  <2>1. SUFFICES ASSUME NEW u \in Threads, NEW j \in Slots, NEW p \in DOMAIN pipe', NEW x \in Requests,
                        Taken(u, j, p)', Asking(Work(u, j)', x)
                 PROVE  Travels(x, p)'
    OBVIOUS
  <2>2. p \in DOMAIN pipe /\ Taken(u, j, p) BY <1>2, <1>3, <1>5, <2>1
  <2>3. Travels(x, p) BY <1>15, <2>1, <2>2 DEF Serving
  <2>4. QED BY <1>11, <2>2, <2>3 DEF Kept
<1>17. \A u \in Threads, j \in Slots, p \in DOMAIN pipe' : Taken(u, j, p)' => \E s \in Fds : Target(s, p)' /\ Stage(u, j, p, s)'
  <2>1. SUFFICES ASSUME NEW u \in Threads, NEW j \in Slots, NEW p \in DOMAIN pipe', Taken(u, j, p)'
                 PROVE  \E s \in Fds : Target(s, p)' /\ Stage(u, j, p, s)'
    OBVIOUS
  <2>2. p \in DOMAIN pipe /\ Taken(u, j, p) BY <1>2, <1>3, <1>5, <2>1
  <2>3. PICK s \in Fds : Target(s, p) /\ Stage(u, j, p, s) BY <2>2 DEF Serving
  <2>4. Target(s, p)' BY <1>11, <2>2, <2>3 DEF Kept
  <2>5. CASE u = t /\ j = i
    <3>1. \/ Named(q, s) /\ OnlyAsks(pipe[p].q)
          \/ thread[t].snd[i] = s /\ OnlyAsks(q) /\ OnlyAsks(pipe[p].q)
      BY <1>8, <1>9, <2>3, <2>5 DEF Stage
    <3>2. CASE Named(q, s)
      <4>1. OnlyAsks(w) /\ Head(q) = [sock |-> s] BY <1>12, <3>2
      <4>2. "sock" \in DOMAIN Head(q) /\ Head(q).sock = s BY <4>1, Frames
      <4>3. thread'[t].snd[i] = s BY <1>6, <1>7, <4>2
      <4>4. Stage(t, i, p, s)' BY <1>2, <1>9, <3>1, <4>1, <4>3 DEF Stage
      <4>5. QED BY <2>4, <2>5, <4>4
    <3>3. CASE thread[t].snd[i] = s /\ OnlyAsks(q) /\ OnlyAsks(pipe[p].q)
      <4>1. OnlyAsks(w) /\ Head(q) \in Asked BY <1>12, <3>3
      <4>2. ~("sock" \in DOMAIN Head(q)) BY <4>1, Frames
      <4>3. thread'[t].snd[i] = s BY <1>6, <3>3, <4>2
      <4>4. Stage(t, i, p, s)' BY <1>2, <1>9, <3>3, <4>1, <4>3 DEF Stage
      <4>5. QED BY <2>4, <2>5, <4>4
    <3>4. QED BY <3>1, <3>2, <3>3
  <2>6. CASE ~(u = t /\ j = i)
    <3>1. Work(u, j)' = Work(u, j) /\ thread'[u].snd[j] = thread[u].snd[j] BY <1>10, <2>6
    <3>2. Stage(u, j, p, s)' BY <1>2, <2>3, <3>1 DEF Stage
    <3>3. QED BY <2>4, <3>2
  <2>7. QED BY <2>5, <2>6
<1>18. Unnamed' BY UnnamedStep DEF Serving, Unnamed
<1>19. QED BY <1>13, <1>14, <1>16, <1>17, <1>18 DEF Serving, Unnamed

LEMMA ServingStep ==
  ASSUME TypedSockets, Owned, Busy, Peered, Piped, Serving, [Next]_vars
  PROVE  Serving'
<1>1. CASE Apart BY <1>1, ServingApart, ServingForward
<1>2. CASE MainConnect BY <1>2, ServingConnect
<1>3. ASSUME NEW t \in Threads, ThreadStep(t) PROVE Serving'
  <2>1. CASE ThreadAccept(t) BY <2>1, ServingLoose, ServingTaken
  <2>2. CASE ThreadFrame(t) BY <2>2, ServingFrame
  <2>3. CASE ThreadEnd(t) \/ \E i \in Slots : ThreadClose(t, i) BY <2>3, ServingLoose
  <2>4. CASE \E i \in Slots : ThreadRead(t, i) BY <2>4, ServingRead
  <2>5. QED BY <1>3, <2>1, <2>2, <2>3, <2>4 DEF ThreadStep
<1>4. QED BY <1>1, <1>2, <1>3, ServingSteps

-----------------------------------------------------------------------------
(* Objects: what is read, cut and left.                                    *)

\* c is what is left of b when its first elements are taken off.
Suffix(c, b) == c = <<>> \/ \E d \in Nat : d + Len(c) = Len(b) /\ \A x \in 1 .. Len(c) : c[x] = b[x + d]

LEMMA WholeSuffix ==
  ASSUME NEW S, NEW b \in Seq(S)
  PROVE  Suffix(b, b) /\ Suffix(<<>>, b)
<1>1. PICK z \in Nat : z = 0 OBVIOUS
<1>2. z + Len(b) = Len(b) /\ \A x \in 1 .. Len(b) : b[x] = b[x + z] BY <1>1
<1>3. Suffix(b, b) BY <1>2 DEF Suffix
<1>4. Suffix(<<>>, b) BY DEF Suffix
<1>5. QED BY <1>3, <1>4

LEMMA SubSeqSuffix ==
  ASSUME NEW S, NEW b \in Seq(S), NEW m \in 1 .. Len(b)
  PROVE  Suffix(SubSeq(b, m, Len(b)), b)
<1> DEFINE c == SubSeq(b, m, Len(b))
<1>1. Len(b) \in Nat /\ m \in Nat /\ m - 1 \in Nat OBVIOUS
<1>2. c \in Seq(S) /\ Len(c) = Len(b) - m + 1 /\ \A x \in 1 .. Len(b) - m + 1 : c[x] = b[m + x - 1]
  BY <1>1, SubSeqProperties
<1> HIDE DEF c
<1>3. \A x \in 1 .. Len(c) : c[x] = b[x + (m - 1)] BY <1>1, <1>2
<1>4. (m - 1) + Len(c) = Len(b) BY <1>1, <1>2
<1>5. Suffix(c, b) BY <1>1, <1>3, <1>4 DEF Suffix
<1>6. QED BY <1>5 DEF c

LEMMA SuffixOfSuffix ==
  ASSUME NEW S, NEW b \in Seq(S), NEW c \in Seq(S), NEW r \in Seq(S), Suffix(c, r), Suffix(r, b)
  PROVE  Suffix(c, b)
<1>1. CASE c = <<>> BY <1>1 DEF Suffix
<1>2. CASE c # <<>>
  <2>1. PICK d \in Nat : d + Len(c) = Len(r) /\ \A x \in 1 .. Len(c) : c[x] = r[x + d] BY <1>2 DEF Suffix
  <2>2. Len(b) \in Nat /\ Len(c) \in Nat /\ Len(c) # 0 /\ Len(r) \in Nat BY <1>2
  <2>3. r # <<>>
    <3>1. Len(r) # 0 BY <2>1, <2>2
    <3>2. QED BY <3>1
  <2>4. PICK e \in Nat : e + Len(r) = Len(b) /\ \A x \in 1 .. Len(r) : r[x] = b[x + e] BY <2>3 DEF Suffix
  <2>5. d + e \in Nat /\ (d + e) + Len(c) = Len(b) BY <2>1, <2>2, <2>4
  <2>6. \A x \in 1 .. Len(c) : c[x] = b[x + (d + e)]
    <3>1. SUFFICES ASSUME NEW x \in 1 .. Len(c) PROVE c[x] = b[x + (d + e)] OBVIOUS
    <3>2. x + d \in 1 .. Len(r) /\ (x + d) + e = x + (d + e) BY <2>1, <2>2
    <3>3. QED BY <2>1, <2>4, <3>2
  <2>7. QED BY <2>5, <2>6 DEF Suffix
<1>3. QED BY <1>1, <1>2

\* An element of b \o c is one of b or one of c.
LEMMA ConcatIs ==
  ASSUME NEW S, NEW b \in Seq(S), NEW c \in Seq(S)
  PROVE  /\ b \o c \in Seq(S) /\ Len(b \o c) = Len(b) + Len(c) /\ Len(b) \in Nat /\ Len(c) \in Nat
         /\ DOMAIN (b \o c) = 1 .. Len(b) + Len(c) /\ DOMAIN b = 1 .. Len(b) /\ DOMAIN c = 1 .. Len(c)
         /\ \A m \in 1 .. Len(b) : m \in DOMAIN (b \o c) /\ (b \o c)[m] = b[m]
         /\ \A m \in 1 .. Len(c) : m + Len(b) \in DOMAIN (b \o c) /\ (b \o c)[m + Len(b)] = c[m]
         /\ \A m \in DOMAIN (b \o c) : \/ m \in 1 .. Len(b)
                                       \/ m - Len(b) \in 1 .. Len(c) /\ (b \o c)[m] = c[m - Len(b)]
<1>1. /\ b \o c \in Seq(S) /\ Len(b \o c) = Len(b) + Len(c) /\ Len(b) \in Nat /\ Len(c) \in Nat
      /\ \A x \in 1 .. Len(b) + Len(c) : (b \o c)[x] = IF x <= Len(b) THEN b[x] ELSE c[x - Len(b)]
  BY ConcatProperties
<1> DEFINE w == b \o c
<1> HIDE DEF w
<1>2. DOMAIN w = 1 .. Len(b) + Len(c) /\ DOMAIN b = 1 .. Len(b) /\ DOMAIN c = 1 .. Len(c) BY <1>1 DEF w
<1>3. \A m \in 1 .. Len(b) : m \in 1 .. Len(b) + Len(c) /\ m <= Len(b) BY <1>1
<1>4. \A m \in 1 .. Len(c) : m + Len(b) \in 1 .. Len(b) + Len(c) /\ ~(m + Len(b) <= Len(b)) /\ m + Len(b) - Len(b) = m
  BY <1>1
<1>5. \A m \in 1 .. Len(b) + Len(c) : m <= Len(b) \/ m - Len(b) \in 1 .. Len(c)
  <2>1. SUFFICES ASSUME NEW m \in 1 .. Len(b) + Len(c), ~(m <= Len(b)) PROVE m - Len(b) \in 1 .. Len(c) OBVIOUS
  <2>2. m \in Nat /\ m <= Len(b) + Len(c) BY <1>1
  <2>3. QED BY <1>1, <2>1, <2>2
<1>6. \A m \in 1 .. Len(b) : m \in DOMAIN w /\ w[m] = b[m] BY <1>1, <1>2, <1>3 DEF w
<1>7. \A m \in 1 .. Len(c) : m + Len(b) \in DOMAIN w /\ w[m + Len(b)] = c[m] BY <1>1, <1>2, <1>4 DEF w
<1>8. \A m \in DOMAIN w : m \in 1 .. Len(b) \/ (m - Len(b) \in 1 .. Len(c) /\ w[m] = c[m - Len(b)])
  <2>1. SUFFICES ASSUME NEW m \in 1 .. Len(b) + Len(c)
                 PROVE  m \in 1 .. Len(b) \/ (m - Len(b) \in 1 .. Len(c) /\ w[m] = c[m - Len(b)])
    BY <1>2
  <2>2. CASE m <= Len(b) BY <1>1, <2>2
  <2>3. CASE ~(m <= Len(b)) BY <1>1, <1>5, <2>3 DEF w
  <2>4. QED BY <2>2, <2>3
<1>9. QED BY <1>1, <1>2, <1>6, <1>7, <1>8 DEF w

\* Taking off at the front, or giving up what is behind, leaves a part.
LEMMA SuffixPart ==
  ASSUME NEW S, NEW b \in Seq(S), NEW c \in Seq(S), NEW r \in Seq(S), NEW q \in Seq(S), Suffix(c, b), q = r \/ q = <<>>
  PROVE  Part(c \o q, b \o r)
<1>0. Part(b, b \o r) /\ Part(r, b \o r) /\ b \o r \in Seq(S) BY ConcatParts
<1>1. CASE c = <<>>
  <2>1. c \o q = q BY <1>1, ConcatEmptySeq
  <2>2. Len(b \o r) \in Nat BY <1>0
  <2>3. QED BY <1>0, <2>1, <2>2, NoPart
<1>2. CASE c # <<>>
  <2>1. PICK d \in Nat : d + Len(c) = Len(b) /\ \A x \in 1 .. Len(c) : c[x] = b[x + d] BY <1>2 DEF Suffix
  <2>2. Len(b) \in Nat /\ Len(c) \in Nat /\ Len(r) \in Nat OBVIOUS
  <2>3. CASE q = <<>>
    <3>1. c \o q = c BY <2>3, ConcatEmptySeq
    <3>1a. d + Len(c) <= Len(b) BY <2>1, <2>2
    <3>2. Part(c, b) BY <2>1, <3>1a DEF Part
    <3>3. QED BY <1>0, <3>1, <3>2, PartOfPart
  <2>4. CASE q = r
    <3>1. Len(c \o r) = Len(c) + Len(r) /\ Len(b \o r) = Len(b) + Len(r) BY ConcatIs
    <3>2. d + Len(c \o r) <= Len(b \o r) BY <2>1, <2>2, <3>1
    <3>3. \A x \in 1 .. Len(c \o r) : (c \o r)[x] = (b \o r)[x + d]
      <4>1. SUFFICES ASSUME NEW x \in 1 .. Len(c) + Len(r) PROVE (c \o r)[x] = (b \o r)[x + d] BY <3>1
      <4>2. DOMAIN (c \o r) = 1 .. Len(c) + Len(r) BY ConcatIs
      <4>3. x \in Nat \ {0} BY <2>2
      <4>4. CASE x \in 1 .. Len(c)
        <5>1. (c \o r)[x] = c[x] BY <4>4, ConcatIs
        <5>2. x + d \in 1 .. Len(b) BY <2>1, <2>2, <4>3, <4>4
        <5>3. (b \o r)[x + d] = b[x + d] BY <5>2, ConcatIs
        <5>4. QED BY <2>1, <4>4, <5>1, <5>3
      <4>5. CASE ~(x \in 1 .. Len(c))
        <5>1. x - Len(c) \in 1 .. Len(r) /\ (c \o r)[x] = r[x - Len(c)] BY <4>1, <4>2, <4>5, ConcatIs
        <5>2. (b \o r)[(x - Len(c)) + Len(b)] = r[x - Len(c)] BY <5>1, ConcatIs
        <5>3. (x - Len(c)) + Len(b) = x + d
          <6>1. d \in Nat /\ d + Len(c) = Len(b) BY <2>1
          <6>2. x \in Nat /\ Len(c) \in Nat /\ Len(b) \in Nat BY <2>2, <4>3
          <6> DEFINE u == Len(c)
                     v == Len(b)
          <6> HIDE DEF u, v
          <6>3. d \in Nat /\ d + u = v /\ x \in Nat /\ u \in Nat /\ v \in Nat BY <6>1, <6>2 DEF u, v
          <6>4. (x - u) + v = x + d BY <6>3
          <6>5. QED BY <6>4 DEF u, v
        <5>4. QED BY <5>1, <5>2, <5>3
      <4>6. QED BY <4>4, <4>5
    <3>4. QED BY <2>4, <3>2, <3>3 DEF Part
  <2>5. QED BY <2>3, <2>4
<1>3. QED BY <1>1, <1>2

LEMMA SplitIs ==
  ASSUME NEW S, NEW o \in Seq(S), NEW n \in 1 .. Len(o)
  PROVE  /\ SubSeq(o, 1, n) \in Seq(S) /\ SubSeq(o, n + 1, Len(o)) \in Seq(S)
         /\ SubSeq(o, 1, n) \o SubSeq(o, n + 1, Len(o)) = o
<1> DEFINE a == SubSeq(o, 1, n)
           c == SubSeq(o, n + 1, Len(o))
<1>1. Len(o) \in Nat /\ n \in Nat /\ n # 0 /\ n <= Len(o) OBVIOUS
<1>2. a \in Seq(S) /\ Len(a) = n /\ \A m \in 1 .. n : a[m] = o[m] BY <1>1, SubSeqProperties
<1>3. c \in Seq(S) /\ Len(c) = Len(o) - n /\ \A m \in 1 .. Len(o) - n : c[m] = o[m + n]
  <2>1. CASE n = Len(o)
    <3>1. c = <<>> BY <1>1, <2>1
    <3>2. <<>> \in Seq(S) OBVIOUS
    <3>3. Len(<<>>) = Len(o) - n /\ \A m \in 1 .. Len(o) - n : FALSE BY <1>1, <2>1
    <3>4. QED BY <3>1, <3>2, <3>3
  <2>2. CASE n # Len(o)
    <3>1. n + 1 \in 1 .. Len(o) BY <1>1, <2>2
    <3>2. /\ c \in Seq(S) /\ Len(c) = Len(o) - (n + 1) + 1
          /\ \A m \in 1 .. Len(o) - (n + 1) + 1 : c[m] = o[(n + 1) + m - 1]
      BY <1>1, <3>1, SubSeqProperties
    <3>3. Len(o) - (n + 1) + 1 = Len(o) - n /\ \A m \in Nat : (n + 1) + m - 1 = m + n BY <1>1
    <3> HIDE DEF c
    <3>4. Len(c) = Len(o) - n /\ \A m \in 1 .. Len(o) - n : c[m] = o[(n + 1) + m - 1] BY <3>2, <3>3
    <3>5. \A m \in 1 .. Len(o) - n : m \in Nat BY <1>1
    <3>6. \A m \in 1 .. Len(o) - n : c[m] = o[m + n] BY <3>3, <3>4, <3>5
    <3>7. QED BY <3>2, <3>4, <3>6
  <2>3. QED BY <2>1, <2>2
<1> HIDE DEF a, c
<1>4. a \o c \in Seq(S) /\ Len(a \o c) = Len(o) BY <1>1, <1>2, <1>3, ConcatIs
<1>5. \A x \in 1 .. Len(o) : (a \o c)[x] = o[x]
  <2>1. SUFFICES ASSUME NEW x \in 1 .. Len(o) PROVE (a \o c)[x] = o[x] OBVIOUS
  <2>2. x \in DOMAIN (a \o c) BY <1>4
  <2>3. x \in 1 .. n \/ (x - n \in 1 .. Len(c) /\ (a \o c)[x] = c[x - n]) BY <1>2, <1>3, <2>2, ConcatIs
  <2>4. CASE x \in 1 .. n
    <3>1. (a \o c)[x] = a[x] BY <1>2, <1>3, <2>4, ConcatIs
    <3>2. QED BY <1>2, <2>4, <3>1
  <2>5. CASE x - n \in 1 .. Len(c) /\ (a \o c)[x] = c[x - n]
    <3>1. c[x - n] = o[(x - n) + n] BY <1>3, <2>5
    <3>2. (x - n) + n = x BY <1>1
    <3>3. QED BY <2>5, <3>1, <3>2
  <2>6. QED BY <2>3, <2>4, <2>5
<1>6. a \o c = o BY <1>4, <1>5, SeqEqual
<1>7. QED BY <1>2, <1>3, <1>6 DEF a, c

LEMMA FromHeaderSuffix ==
  ASSUME NEW b \in Seq(Piece)
  PROVE  Suffix(FromHeader(b), b)
<1> DEFINE heads == {j \in DOMAIN b : b[j].part = "header"}
<1>0. Len(b) \in Nat /\ DOMAIN b = 1 .. Len(b) OBVIOUS
<1>1. CASE heads = {}
  <2>1. FromHeader(b) = <<>> BY <1>1 DEF FromHeader
  <2>2. QED BY <2>1 DEF Suffix
<1>2. CASE heads # {}
  <2>1. heads \subseteq Nat BY <1>0
  <2>2. Min(heads) \in heads BY <1>2, <2>1, MinIn
  <2> DEFINE m == Min(heads)
  <2>3. FromHeader(b) = SubSeq(b, m, Len(b)) BY <1>2 DEF FromHeader
  <2>4. m \in 1 .. Len(b) BY <1>0, <2>2
  <2> HIDE DEF m
  <2>5. QED BY <2>3, <2>4, SubSeqSuffix
<1>3. QED BY <1>1, <1>2

\* What is left of the buffer of the slot that is cut
LEMMA CutsSuffix ==
  ASSUME TypedSockets, Busy, cutting # NoSlot, CutOn \/ GiveUp
  PROVE  \E c \in Seq(Piece) : Trimmed(cutting, c) /\ Part(c, Behind) /\ Suffix(c, rest[cutting])
<1>1. /\ cutting \in Slots /\ Behind \in Seq(Piece) /\ rest[cutting] \in Seq(Piece)
      /\ Len(Frame) \in Nat /\ Len(rest[cutting]) \in Nat
      /\ Len(Behind) = Len(rest[cutting]) - Len(Frame)
      /\ \A m \in 1 .. Len(Behind) : Behind[m] = rest[cutting][m + Len(Frame)]
  BY FrameIs
<1>2. CASE CutOn
  <2>1. Cut(cutting, Behind) BY <1>2 DEF CutOn
  <2>2. Trimmed(cutting, FromHeader(Behind)) /\ FromHeader(Behind) \in Seq(Piece) /\ Part(FromHeader(Behind), Behind)
    BY <1>1, <2>1, CutTrims
  <2>3. Suffix(FromHeader(Behind), Behind) BY <1>1, FromHeaderSuffix
  <2>4. PICK z \in Nat : z = Len(Frame) BY <1>1
  <2>5. z + Len(Behind) = Len(rest[cutting]) BY <1>1, <2>4
  <2>6. Suffix(Behind, rest[cutting]) BY <1>1, <2>4, <2>5 DEF Suffix
  <2>7. Suffix(FromHeader(Behind), rest[cutting]) BY <1>1, <2>2, <2>3, <2>6, SuffixOfSuffix
  <2>8. QED BY <2>2, <2>7
<1>3. CASE GiveUp
  <2>1. Trimmed(cutting, <<>>) BY <1>1, <1>3, Constants DEF GiveUp, Trimmed
  <2>2. Len(Behind) \in Nat BY <1>1
  <2>3. Part(<<>>, Behind) BY <2>2, NoPart
  <2>4. <<>> \in Seq(Piece) OBVIOUS
  <2>5. Suffix(<<>>, rest[cutting]) BY DEF Suffix
  <2>6. QED BY <2>1, <2>3, <2>4, <2>5
<1>4. QED BY <1>2, <1>3

\* The connection k of slot i is read: what was to come is a, which is read, and c.
ReadOf(i, k, a, c) ==
  /\ Holds(i, k) /\ conn[k].at = "up" /\ conn[k].out = a \o c
  /\ conn'[k].out = c /\ conn'[k].asks = conn[k].asks /\ conn'[k].at = "up"
  /\ \A x \in Conns \ {k} : conn'[x] = conn[x]
  /\ rest[i] \o a \in Seq(Piece) /\ rest'[i] = FromHeader(rest[i] \o a)
  /\ rest'[i] \in Seq(Piece) /\ (rest'[i] # <<>> => rest'[i][1].part = "header")
  /\ \A j \in Slots \ {i} : rest'[j] = rest[j]

LEMMA ReadIs ==
  ASSUME TypedSockets, Owned, Busy, Peered, Piped, NEW i \in Slots, MainRead(i)
  PROVE  \E k \in Conns, a \in Seq(Piece), c \in Seq(Piece) : ReadOf(i, k, a, c)
<1>1. PICK k \in Conns, n \in Nat :
        /\ Holds(i, k) /\ n \in 1 .. Len(conn[k].out)
        /\ conn' = [conn EXCEPT ![k].out = SubSeq(conn[k].out, n + 1, Len(conn[k].out))]
        /\ rest[i] \o SubSeq(conn[k].out, 1, n) \in Seq(Piece)
        /\ Cut(i, rest[i] \o SubSeq(conn[k].out, 1, n))
  BY TypedRead
<1>2. PICK o, a, c : o = conn[k].out /\ a = SubSeq(o, 1, n) /\ c = SubSeq(o, n + 1, Len(o)) OBVIOUS
<1>3. conn \in [Conns -> End] /\ conn[k] \in End /\ o \in Seq(Piece) BY <1>2 DEF TypedSockets, End
<1>4. n \in 1 .. Len(o) /\ conn' = [conn EXCEPT ![k].out = c] /\ rest[i] \o a \in Seq(Piece) /\ Cut(i, rest[i] \o a)
  BY <1>1, <1>2
<1>5. a \in Seq(Piece) /\ c \in Seq(Piece) /\ o = a \o c BY <1>2, <1>3, <1>4, SplitIs
<1>6. conn[k].at = "up"
  <2>1. PICK x \in Conns : Holds(i, x) /\ conn[x].at = "up" BY <1>1 DEF Holds, Peered
  <2>2. x = k BY <1>1, <2>1 DEF Holds
  <2>3. QED BY <2>1, <2>2
<1>7. /\ conn'[k].out = c /\ conn'[k].asks = conn[k].asks /\ conn'[k].at = "up"
      /\ \A x \in Conns \ {k} : conn'[x] = conn[x]
  BY <1>3, <1>4, <1>6 DEF End
<1>8. Trimmed(i, FromHeader(rest[i] \o a)) /\ FromHeader(rest[i] \o a) \in Seq(Piece) BY <1>4, CutTrims
<1> DEFINE r == FromHeader(rest[i] \o a)
<1>9. rest' = [rest EXCEPT ![i] = r] /\ r \in Seq(Piece) /\ (r # <<>> => r[1].part = "header") BY <1>8 DEF Trimmed
<1> HIDE DEF r
<1>10. /\ rest'[i] = r /\ rest'[i] \in Seq(Piece) /\ (rest'[i] # <<>> => rest'[i][1].part = "header")
       /\ \A j \in Slots \ {i} : rest'[j] = rest[j]
  BY <1>9 DEF TypedSockets
<1>11. rest'[i] = FromHeader(rest[i] \o a) BY <1>10 DEF r
<1>11a. Holds(i, k) /\ conn[k].out = a \o c /\ rest[i] \o a \in Seq(Piece) BY <1>1, <1>2, <1>4, <1>5, Zenon
<1>12. ReadOf(i, k, a, c) BY <1>6, <1>7, <1>10, <1>11, <1>11a, Zenon DEF ReadOf
<1>13. QED BY <1>5, <1>12

\* A buffer, when nothing is read
LEMMA RestStep ==
  ASSUME TypedSockets, Owned, Busy, Peered, Piped, [Next]_vars, NEW i \in Slots, ~MainRead(i)
  PROVE  /\ rest'[i] \in Seq(Piece) /\ Suffix(rest'[i], rest[i])
         /\ rest'[i] = rest[i] \/ (rest'[i] # <<>> => rest'[i][1].part = "header")
         /\ MainFrame /\ i = cutting => Part(rest'[i], Behind)
<1>0. rest[i] \in Seq(Piece) /\ rest \in [Slots -> Seq(Piece)] /\ <<>> \in Seq(Piece) BY DEF TypedSockets
<1> DEFINE Goal == /\ rest'[i] \in Seq(Piece) /\ Suffix(rest'[i], rest[i])
                   /\ rest'[i] = rest[i] \/ (rest'[i] # <<>> => rest'[i][1].part = "header")
<1>1. ASSUME rest'[i] = rest[i] PROVE Goal
  <2>1. Suffix(rest[i], rest[i]) BY <1>0, WholeSuffix
  <2>2. QED BY <1>0, <1>1, <2>1
<1>2. ASSUME rest'[i] = <<>> PROVE Goal
  <2>1. Suffix(<<>>, rest[i]) BY <1>0, WholeSuffix
  <2>2. QED BY <1>0, <1>2, <2>1
<1>3. CASE MainFrame
  <2>1. cutting # NoSlot /\ (CutOn \/ GiveUp)
    BY <1>3, Zenon DEF MainFrame, MainObject, MainKill, MainForward, MainConnect, MainFails, Asks
  <2>2. PICK c \in Seq(Piece) : Trimmed(cutting, c) /\ Part(c, Behind) /\ Suffix(c, rest[cutting]) BY <2>1, CutsSuffix
  <2>3. cutting \in Slots /\ rest' = [rest EXCEPT ![cutting] = c] /\ (c # <<>> => c[1].part = "header") BY <2>2 DEF Trimmed
  <2>4. CASE i = cutting
    <3>1. rest'[i] = c BY <1>0, <2>3, <2>4
    <3>2. QED BY <2>2, <2>3, <2>4, <3>1
  <2>5. CASE i # cutting
    <3>1. rest'[i] = rest[i] BY <1>0, <2>3, <2>5
    <3>2. QED BY <1>1, <2>5, <3>1
  <2>6. QED BY <2>4, <2>5
<1>4. ASSUME ~MainFrame PROVE Goal
  <2>1. ASSUME NEW k \in Conns, OfConn(k) PROVE rest'[i] = rest[i]
    <3>1. rest' = rest BY <2>1, Zenon DEF OfConn, Connect, Send, Leave, TurnedAway, sockets
    <3>2. QED BY <3>1
  <2>2. ASSUME NEW k \in Conns, NEW j \in Slots, Accepted(j, k) PROVE rest'[i] = rest[i] \/ rest'[i] = <<>>
    <3>1. rest' = rest \/ rest' = [rest EXCEPT ![j] = <<>>] BY <2>2 DEF Accepted
    <3>2. QED BY <1>0, <3>1
  <2>3. ASSUME NEW j \in Slots, CloseSlot(j) PROVE rest'[i] = rest[i] \/ rest'[i] = <<>>
    <3>1. rest' = rest \/ rest' = [rest EXCEPT ![j] = <<>>] BY <2>3, Zenon DEF CloseSlot
    <3>2. QED BY <1>0, <3>1
  <2>4. ASSUME NEW j \in Slots, MainRead(j) PROVE rest'[i] = rest[i]
    <3>1. j # i BY <2>4
    <3>2. QED BY <2>4, <3>1, ReadIs DEF ReadOf
  <2>5. ASSUME Join \/ Quiet PROVE rest'[i] = rest[i]
    <3>1. rest' = rest BY <2>5, JoinIs, QuietIs
    <3>2. QED BY <3>1
  <2>6. ASSUME NEW t \in Threads, ThreadStep(t) PROVE rest'[i] = rest[i]
    <3>1. rest' = rest BY <2>6, TypedThread DEF ThreadStep, OfThread
    <3>2. QED BY <3>1
  <2>7. rest'[i] = rest[i] \/ rest'[i] = <<>> BY <1>4, <2>1, <2>2, <2>3, <2>4, <2>5, <2>6, Steps
  <2>8. QED BY <1>1, <1>2, <2>7
<1> HIDE DEF Goal
<1>5. CASE ~MainFrame
  <2>1. Goal BY <1>4, <1>5
  <2>2. QED BY <1>5, <2>1 DEF Goal
<1>6. QED BY <1>3, <1>5

\* What is to come from a peer, when nothing is read: it remains, it is given up, or the
\* peer sends.
SendsNow(x) ==
  /\ Send(x) /\ conn[x].at = "up" /\ Len(conn[x].asks) \in Nat /\ Head(conn[x].asks) \in Kinds
  /\ conn'[x].out = conn[x].out \o Pieces(x, Len(conn[x].asks), Head(conn[x].asks))
  /\ Len(conn'[x].asks) < Len(conn[x].asks)
  /\ conn'[x].at = "up"

LEMMA OutStep ==
  ASSUME TypedSockets, Owned, Busy, Peered, Piped, [Next]_vars, ~ \E i \in Slots : MainRead(i), NEW x \in Conns
  PROVE  conn'[x].out = conn[x].out \/ conn'[x].out = <<>> \/ SendsNow(x)
<1>0. conn \in [Conns -> End] /\ conn[x] \in End BY DEF TypedSockets
<1> DEFINE Goal == conn'[x].out = conn[x].out \/ conn'[x].out = <<>> \/ SendsNow(x)
<1>1. ASSUME NEW k \in Conns, OfConn(k) PROVE Goal
  <2>1. ASSUME Connect(k) PROVE Goal
    <3>1. conn' = [conn EXCEPT ![k].at = "arrived"] BY <2>1 DEF Connect
    <3>2. QED BY <1>0, <3>1 DEF End
  <2>2. ASSUME Send(k) PROVE Goal
    <3>1. PICK o, a : /\ o = conn[k].out \o Pieces(k, Len(conn[k].asks), Head(conn[k].asks))
                      /\ a = Tail(conn[k].asks)
      OBVIOUS
    <3>2. conn' = [conn EXCEPT ![k].asks = a, ![k].out = o] BY <2>2, <3>1, Zenon DEF Send
    <3>3. conn[k].at = "up" /\ conn[k].asks # <<>> BY <2>2 DEF Send
    <3>4. conn[k].asks \in Seq(Kinds) /\ conn[k] \in End BY <1>0 DEF End
    <3>5. Len(conn[k].asks) \in Nat /\ Head(conn[k].asks) \in Kinds /\ Len(a) < Len(conn[k].asks)
      <4>1. PICK b : b = conn[k].asks OBVIOUS
      <4>2. b \in Seq(Kinds) /\ b # <<>> /\ a = Tail(b) BY <3>1, <3>3, <3>4, <4>1
      <4>3. Len(b) \in Nat /\ Head(b) \in Kinds /\ Len(Tail(b)) = Len(b) - 1 BY <4>2
      <4>4. Len(a) < Len(b) BY <4>2, <4>3
      <4>5. QED BY <4>1, <4>3, <4>4
    <3>6. CASE x # k
      <4>1. conn'[x] = conn[x] BY <1>0, <3>2, <3>6
      <4>2. QED BY <4>1
    <3>7. CASE x = k
      <4>1. conn'[k].out = o /\ conn'[k].asks = a /\ conn'[k].at = "up" BY <1>0, <3>2, <3>3, <3>4 DEF End
      <4>2. SendsNow(k) BY <2>2, <3>1, <3>3, <3>5, <4>1 DEF SendsNow
      <4>3. QED BY <3>7, <4>2
    <3>8. QED BY <3>6, <3>7
  <2>3. ASSUME NEW how, Leave(k, how) PROVE Goal
    <3> DEFINE o == IF how = "reset" THEN <<>> ELSE conn[k].out
    <3>1. conn' = [conn EXCEPT ![k].end = how, ![k].asks = <<>>, ![k].out = o] BY <2>3, Zenon DEF Leave
    <3>2. o = <<>> \/ o = conn[k].out OBVIOUS
    <3> HIDE DEF o
    <3>3. QED BY <1>0, <3>1, <3>2 DEF End
  <2>4. ASSUME TurnedAway(k) PROVE Goal
    <3>1. conn' = [conn EXCEPT ![k].at = "down", ![k].asks = <<>>] BY <2>4 DEF TurnedAway
    <3>2. QED BY <1>0, <3>1 DEF End
  <2>5. QED BY <1>1, <2>1, <2>2, <2>3, <2>4 DEF OfConn
<1>2. ASSUME NEW k \in Conns, NEW i \in Slots, Accepted(i, k) PROVE Goal
  <2> DEFINE d == Dropped(conn, slot[i])
  <2>1. d \in [Conns -> End] /\ d[x] \in End BY DroppedTyped
  <2>2. IF Holds(i, x) THEN d[x].at = "down" /\ d[x].asks = <<>> /\ d[x].out = <<>> ELSE d[x] = conn[x] BY DroppedIs
  <2>3. conn' = [d EXCEPT ![k].at = "up"] BY <1>2 DEF Accepted
  <2> HIDE DEF d
  <2>4. conn'[x].out = d[x].out BY <2>1, <2>3 DEF End
  <2>5. QED BY <2>2, <2>4
<1>3. ASSUME NEW i \in Slots, CloseSlot(i) PROVE Goal
  <2>1. IF Holds(i, x) THEN conn'[x].at = "down" /\ conn'[x].asks = <<>> /\ conn'[x].out = <<>> ELSE conn'[x] = conn[x]
    BY <1>3, DroppedIs DEF CloseSlot
  <2>2. QED BY <2>1
<1>4. ASSUME Join PROVE Goal
  <2>1. conn'[x].out = <<>> BY <1>4 DEF Join
  <2>2. QED BY <2>1
<1>5. ASSUME conn' = conn PROVE Goal
  <2>1. conn'[x].out = conn[x].out BY <1>5
  <2>2. QED BY <2>1
<1>6. ASSUME MainFrame PROVE conn' = conn
  BY <1>6, Zenon DEF MainFrame, MainObject, MainKill, MainForward, MainConnect, MainFails
<1>7. ASSUME Quiet PROVE conn' = conn BY <1>7, QuietIs
<1>8. ASSUME NEW t \in Threads, ThreadStep(t) PROVE conn' = conn BY <1>8, TypedThread DEF ThreadStep, OfThread
<1> HIDE DEF Goal
<1>9. Goal BY <1>1, <1>2, <1>3, <1>4, <1>5, <1>6, <1>7, <1>8, Steps
<1>10. QED BY <1>9 DEF Goal

\* Only who has just arrived gets a slot.
LEMMA HoldsStep ==
  ASSUME TypedSockets, Owned, Busy, Peered, Piped, [Next]_vars, NEW i \in Slots, NEW x \in Conns, Holds(i, x)'
  PROVE  Holds(i, x) \/ conn[x].at = "arrived"
<1>0. x \in Nat BY Constants
<1>1. ASSUME SameHolds PROVE Holds(i, x) BY <1>0, <1>1 DEF SameHolds
<1>2. ASSUME NEW k \in Conns, NEW j \in Slots, Accepted(j, k) PROVE Holds(i, x) \/ conn[x].at = "arrived"
  BY <1>0, <1>2, OwnedAccepted DEF Accepted
<1>3. ASSUME NEW j \in Slots, CloseSlot(j) PROVE Holds(i, x) BY <1>0, <1>3, OwnedClose
<1>4. ASSUME Join PROVE FALSE BY <1>4, JoinIs DEF Holds
<1>5. QED BY <1>1, <1>2, <1>3, <1>4, Steps, HoldsKept

\* What is to come in a slot is to come from the connection that has it.
Lefts ==
  \A i \in Slots :
    /\ Left(i) \in Seq(Piece)
    /\ slot[i] = None => Left(i) = <<>>
    /\ \A k \in Conns : Holds(i, k) => Left(i) = conn[k].out /\ conn[k].at = "up"
    /\ slot[i] # None => \E k \in Conns : Holds(i, k) /\ conn[k].at = "up"

LEMMA LeftIs == TypedSockets /\ Peered => Lefts
<1>1. SUFFICES ASSUME TypedSockets, Peered, NEW i \in Slots
               PROVE  /\ Left(i) \in Seq(Piece)
                      /\ slot[i] = None => Left(i) = <<>>
                      /\ \A k \in Conns : Holds(i, k) => Left(i) = conn[k].out /\ conn[k].at = "up"
                      /\ slot[i] # None => \E k \in Conns : Holds(i, k) /\ conn[k].at = "up"
  BY DEF Lefts
<1>2. \A k \in Conns : conn[k].out \in Seq(Piece)
  <2>1. \A k \in Conns : conn[k] \in End BY <1>1 DEF TypedSockets
  <2>2. QED BY <2>1 DEF End
<1>3. slot[i] # None => \E k \in Conns : Holds(i, k) /\ conn[k].at = "up" BY <1>1 DEF Peered
<1>4. \A k \in Conns : Holds(i, k) => Left(i) = conn[k].out /\ slot[i] # None BY DEF Holds, Left
<1>5. \A k, x \in Conns : Holds(i, k) /\ Holds(i, x) => k = x BY DEF Holds
<1>6. slot[i] = None => Left(i) = <<>> BY DEF Left
<1>7. <<>> \in Seq(Piece) OBVIOUS
<1>8. Left(i) \in Seq(Piece) BY <1>2, <1>3, <1>4, <1>6, <1>7
<1>9. QED BY <1>3, <1>4, <1>5, <1>6, <1>8

LEMMA LeftNext == (TypedSockets /\ Peered)' => Lefts'
BY LeftIs, PTL

LEMMA ConcatPieces ==
  ASSUME NEW a \in Seq(Piece), NEW b \in Seq(Piece), NEW c \in Seq(Piece)
  PROVE  (a \o b) \o c = a \o (b \o c)
<1> DEFINE S == Piece
<1>1. a \in Seq(S) /\ b \in Seq(S) /\ c \in Seq(S) OBVIOUS
<1> HIDE DEF S
<1>2. QED BY <1>1, ConcatAssociative

\* The stream of a slot grows only by what its peer sends.
LEMMA StreamStep ==
  ASSUME TypedSockets, Owned, Busy, Peered, Piped, [Next]_vars, NEW i \in Slots
  PROVE  \/ Part(Stream(i)', Stream(i))
         \/ \E k \in Conns : /\ Holds(i, k) /\ SendsNow(k) /\ rest'[i] = rest[i]
                             /\ Left(i)' = Left(i) \o Pieces(k, Len(conn[k].asks), Head(conn[k].asks))
<1>0. TypedSockets' /\ Peered' BY TypedStep, PeeredStep
<1>1. rest[i] \in Seq(Piece) /\ Left(i) \in Seq(Piece) /\ Left(i)' \in Seq(Piece) BY <1>0, LeftIs, LeftNext DEF TypedSockets, Lefts
<1>2. CASE MainRead(i)
  <2>1. PICK k \in Conns, a \in Seq(Piece), c \in Seq(Piece) : ReadOf(i, k, a, c) BY <1>2, ReadIs
  <2>2. Holds(i, k) /\ conn[k].out = a \o c /\ conn'[k].out = c /\ rest[i] \o a \in Seq(Piece)
      /\ rest'[i] = FromHeader(rest[i] \o a) /\ rest'[i] \in Seq(Piece)
    BY <2>1, Zenon DEF ReadOf
  <2>3. SameHolds BY <1>2, HoldsKept
  <2>4. Holds(i, k)' BY <2>2, <2>3, Constants DEF SameHolds
  <2>5. Left(i)' = c /\ Left(i) = a \o c BY <1>0, <2>2, <2>4, LeftIs, LeftNext DEF Lefts
  <2>6. PICK b, r : b = rest[i] \o a /\ r = rest'[i] OBVIOUS
  <2>7. b \in Seq(Piece) /\ r \in Seq(Piece) /\ r = FromHeader(b) BY <2>2, <2>6
  <2>8. Suffix(r, b) BY <2>7, FromHeaderSuffix
  <2>9. Part(r \o c, b \o c) BY <2>7, <2>8, SuffixPart
  <2>10. b \o c = rest[i] \o (a \o c)
    <3>1. PICK r0 \in Seq(Piece) : r0 = rest[i] BY <1>1
    <3>2. (r0 \o a) \o c = r0 \o (a \o c) BY <2>1, <3>1, ConcatPieces
    <3>3. QED BY <2>6, <3>1, <3>2
  <2>11. Stream(i)' = r \o c /\ Stream(i) = b \o c BY <2>5, <2>6, <2>10 DEF Stream
  <2>12. QED BY <2>9, <2>11
<1>3. CASE ~MainRead(i)
  <2>1. rest'[i] \in Seq(Piece) /\ Suffix(rest'[i], rest[i]) BY <1>3, RestStep
  <2>2. ASSUME Left(i)' = Left(i) \/ Left(i)' = <<>> PROVE Part(Stream(i)', Stream(i))
    <3>1. PICK b, c, r, q : b = rest[i] /\ c = rest'[i] /\ r = Left(i) /\ q = Left(i)' OBVIOUS
    <3>2. Part(c \o q, b \o r) BY <1>1, <2>1, <2>2, <3>1, SuffixPart
    <3>3. Stream(i)' = c \o q /\ Stream(i) = b \o r BY <3>1 DEF Stream
    <3>4. QED BY <3>2, <3>3
  <2>3. CASE slot'[i] = None BY <1>0, <2>2, <2>3, LeftNext DEF Lefts
  <2>4. CASE slot'[i] # None
    <3>1. PICK x \in Conns : Holds(i, x)' BY <1>0, <2>4, LeftNext DEF Lefts
    <3>2. Left(i)' = conn'[x].out /\ conn'[x].at = "up" BY <1>0, <3>1, LeftNext DEF Lefts
    <3>3. CASE ~Holds(i, x)
      <4>1. conn[x].at = "arrived" BY <3>1, <3>3, HoldsStep
      <4>2. conn[x].out = <<>> BY <4>1 DEF Peered
      <4>3. conn'[x].out = <<>>
        <5>1. CASE \E j \in Slots : MainRead(j)
          <6>1. PICK j \in Slots : MainRead(j) BY <5>1
          <6>2. SameHolds BY <6>1, HoldsKept
          <6>3. QED BY <3>1, <3>3, <6>2, Constants DEF SameHolds
        <5>2. CASE ~ \E j \in Slots : MainRead(j) BY <4>1, <4>2, <5>2, OutStep DEF SendsNow
        <5>3. QED BY <5>1, <5>2
      <4>4. QED BY <2>2, <3>2, <4>3
    <3>4. CASE Holds(i, x)
      <4>1. Left(i) = conn[x].out BY <3>4, LeftIs DEF Lefts
      <4>2. CASE \E j \in Slots : MainRead(j)
        <5>1. PICK j \in Slots : MainRead(j) BY <4>2
        <5>2. PICK k \in Conns, a \in Seq(Piece), c \in Seq(Piece) : ReadOf(j, k, a, c) BY <5>1, ReadIs
        <5>3. Holds(j, k) /\ \A y \in Conns \ {k} : conn'[y] = conn[y] BY <5>2, Zenon DEF ReadOf
        <5>4. x # k BY <1>3, <3>4, <5>1, <5>3 DEF Peered
        <5>5. Left(i)' = Left(i) BY <3>2, <4>1, <5>3, <5>4
        <5>6. QED BY <2>2, <5>5
      <4>3. CASE ~ \E j \in Slots : MainRead(j)
        <5>1. CASE SendsNow(x)
          <6>1. Left(i)' = Left(i) \o Pieces(x, Len(conn[x].asks), Head(conn[x].asks)) BY <3>2, <4>1, <5>1 DEF SendsNow
          <6>2. rest'[i] = rest[i]
            <7>1. rest' = rest BY <5>1, Zenon DEF SendsNow, Send, sockets
            <7>2. QED BY <7>1
          <6>3. QED BY <3>4, <5>1, <6>1, <6>2
        <5>2. CASE ~SendsNow(x)
          <6>1. conn'[x].out = conn[x].out \/ conn'[x].out = <<>> BY <4>3, <5>2, OutStep
          <6>2. QED BY <2>2, <3>2, <4>1, <6>1
        <5>3. QED BY <5>1, <5>2
      <4>4. QED BY <4>2, <4>3
    <3>5. QED BY <3>3, <3>4
  <2>5. QED BY <2>3, <2>4
<1>4. QED BY <1>2, <1>3

\* Taking off at the front or at the end keeps the order.
LEMMA JoinedPart ==
  ASSUME NEW b \in Seq(Piece), NEW c \in Seq(Piece), Joined(b), Part(c, b)
  PROVE  Joined(c)
<1>1. PICK d \in Nat : d + Len(c) <= Len(b) /\ \A x \in 1 .. Len(c) : c[x] = b[x + d] BY DEF Part
<1>2. Len(b) \in Nat /\ Len(c) \in Nat /\ DOMAIN c = 1 .. Len(c) /\ DOMAIN b = 1 .. Len(b) OBVIOUS
<1>3. \A x \in DOMAIN c : x \in Nat \ {0} /\ x + d \in DOMAIN b /\ c[x] = b[x + d] BY <1>1, <1>2
<1>4. ASSUME NEW m \in DOMAIN c, m # 1, c[m].part = "end"
      PROVE  c[m - 1].part = "body" /\ c[m - 1].of = c[m].of
  <2>1. m \in Nat \ {0} /\ m + d \in DOMAIN b /\ c[m] = b[m + d] BY <1>3
  <2>2. m - 1 \in DOMAIN c /\ (m - 1) + d = (m + d) - 1 /\ m + d # 1 BY <1>1, <1>2, <1>4, <2>1
  <2>3. c[m - 1] = b[(m + d) - 1] BY <1>3, <2>2
  <2>4. b[(m + d) - 1].part = "body" /\ b[(m + d) - 1].of = b[m + d].of BY <1>4, <2>1, <2>2 DEF Joined
  <2>5. QED BY <2>1, <2>3, <2>4
<1>5. ASSUME NEW m \in DOMAIN c, NEW n \in DOMAIN c, m < n, c[m].part = "header", c[n].part = "header",
             c[m].of[1] = c[n].of[1]
      PROVE  c[m].of[2] > c[n].of[2]
  <2>1. m + d \in DOMAIN b /\ c[m] = b[m + d] /\ n + d \in DOMAIN b /\ c[n] = b[n + d] BY <1>3
  <2>2. m + d < n + d BY <1>1, <1>3, <1>5
  <2>3. QED BY <1>5, <2>1, <2>2 DEF Joined
<1>6. QED BY <1>4, <1>5 DEF Joined

\* What a peer sends has a lower number than all it has sent.
LEMMA JoinedSend ==
  ASSUME NEW b \in Seq(Piece), Joined(b), NEW k \in Conns, NEW n \in Nat, NEW what \in Kinds,
         \A m \in DOMAIN b : b[m].part = "header" /\ b[m].of[1] = k => b[m].of[2] > n
  PROVE  Joined(b \o Pieces(k, n, what))
<1>1. PICK p : p = Pieces(k, n, what) OBVIOUS
<1>2. /\ p \in Seq(Piece) /\ Len(p) \in 1 .. 3
      /\ \A m \in DOMAIN p : p[m].of = <<k, n>> /\ p[m].part = <<"header", "body", "end">>[m]
  BY <1>1, PiecesTyped
<1>3. PICK w : w = b \o p OBVIOUS
<1>4. /\ w \in Seq(Piece) /\ Len(b) \in Nat /\ DOMAIN w = 1 .. Len(b) + Len(p) /\ DOMAIN b = 1 .. Len(b)
      /\ DOMAIN p = 1 .. Len(p)
      /\ \A m \in 1 .. Len(b) : w[m] = b[m]
      /\ \A m \in 1 .. Len(p) : w[m + Len(b)] = p[m]
  BY <1>2, <1>3, ConcatIs
<1>5. \A m \in DOMAIN w : \/ m \in 1 .. Len(b) /\ w[m] = b[m]
                          \/ m - Len(b) \in 1 .. Len(p) /\ w[m] = p[m - Len(b)]
  BY <1>2, <1>3, <1>4, ConcatIs
<1>6. \A x \in 1 .. Len(p) : /\ p[x].of = <<k, n>> /\ x \in 1 .. 3
                             /\ p[x].part = "header" => x = 1
                             /\ p[x].part = "end" => x = 3
                             /\ x = 2 => p[x].part = "body"
  <2>1. SUFFICES ASSUME NEW x \in 1 .. Len(p)
                 PROVE  /\ p[x].of = <<k, n>> /\ x \in 1 .. 3
                        /\ p[x].part = "header" => x = 1
                        /\ p[x].part = "end" => x = 3
                        /\ x = 2 => p[x].part = "body"
    OBVIOUS
  <2>1a. x \in DOMAIN p BY <1>4
  <2>1b. x \in {1, 2, 3}
    <3>1. PICK l \in 1 .. 3 : l = Len(p) BY <1>2
    <3>2. x \in 1 .. l BY <3>1
    <3>3. x \in Nat /\ 1 <= x /\ x <= 3 BY <3>2
    <3>4. QED BY <3>3
  <2>2. x \in {1, 2, 3} /\ p[x].of = <<k, n>> /\ p[x].part = <<"header", "body", "end">>[x] BY <1>2, <2>1a, <2>1b
  <2>3. CASE x = 1 BY <2>2, <2>3
  <2>4. CASE x = 2 BY <2>2, <2>4
  <2>5. CASE x = 3 BY <2>2, <2>5
  <2>6. QED BY <2>2, <2>3, <2>4, <2>5
<1>7. ASSUME NEW m \in DOMAIN w, m # 1, w[m].part = "end"
      PROVE  w[m - 1].part = "body" /\ w[m - 1].of = w[m].of
  <2>0. m \in Nat \ {0} BY <1>4
  <2>1. CASE m \in 1 .. Len(b) /\ w[m] = b[m]
    <3>1. m - 1 \in 1 .. Len(b) BY <1>4, <1>7, <2>0, <2>1
    <3>2. b[m - 1].part = "body" /\ b[m - 1].of = b[m].of BY <1>4, <1>7, <2>1 DEF Joined
    <3>3. QED BY <1>4, <2>1, <3>1, <3>2
  <2>2. CASE m - Len(b) \in 1 .. Len(p) /\ w[m] = p[m - Len(b)]
    <3>1. m - Len(b) = 3 BY <1>6, <1>7, <2>2
    <3>2. 2 \in 1 .. Len(p) /\ m - 1 = 2 + Len(b) BY <1>2, <1>4, <2>0, <2>2, <3>1
    <3>3. w[m - 1] = p[2] BY <1>4, <3>2
    <3>4. QED BY <1>6, <2>2, <3>2, <3>3
  <2>3. QED BY <1>5, <2>1, <2>2
<1>8. ASSUME NEW x \in DOMAIN w, NEW y \in DOMAIN w, x < y, w[x].part = "header", w[y].part = "header",
             w[x].of[1] = w[y].of[1]
      PROVE  w[x].of[2] > w[y].of[2]
  <2>0. x \in Nat \ {0} /\ y \in Nat \ {0} BY <1>4
  <2>1. CASE y \in 1 .. Len(b) /\ w[y] = b[y]
    <3>1. x \in 1 .. Len(b) BY <1>4, <1>8, <2>0, <2>1
    <3>2. w[x] = b[x] BY <1>4, <3>1
    <3>3. QED BY <1>4, <1>8, <2>1, <3>1, <3>2 DEF Joined
  <2>2. CASE y - Len(b) \in 1 .. Len(p) /\ w[y] = p[y - Len(b)]
    <3>1. y - Len(b) = 1 /\ w[y].of = <<k, n>> BY <1>6, <1>8, <2>2
    <3>2. x \in 1 .. Len(b) BY <1>4, <1>8, <2>0, <3>1
    <3>3. w[x] = b[x] /\ x \in DOMAIN b BY <1>4, <3>2
    <3>4. b[x].of[1] = k BY <1>8, <3>1, <3>3
    <3>5. b[x].of[2] > n BY <1>8, <3>3, <3>4
    <3>6. QED BY <3>1, <3>3, <3>5
  <2>3. QED BY <1>5, <2>1, <2>2
<1>9. QED BY <1>1, <1>3, <1>7, <1>8 DEF Joined

LEMMA InSuffix ==
  ASSUME NEW S, NEW b \in Seq(S), NEW c \in Seq(S), Suffix(c, b), NEW m \in DOMAIN c
  PROVE  \E n \in DOMAIN b : c[m] = b[n]
<1>1. c # <<>> OBVIOUS
<1>2. PICK d \in Nat : d + Len(c) = Len(b) /\ \A x \in 1 .. Len(c) : c[x] = b[x + d] BY <1>1 DEF Suffix
<1>3. Len(b) \in Nat /\ Len(c) \in Nat /\ m \in 1 .. Len(c) /\ DOMAIN b = 1 .. Len(b) OBVIOUS
<1>4. m + d \in 1 .. Len(b) BY <1>2, <1>3
<1>5. QED BY <1>2, <1>3, <1>4

\* Pieces of a connection come into a slot by a read of its peer only.
LEMMA FromStep ==
  ASSUME TypedSockets, Owned, Busy, Peered, Piped, [Next]_vars, NEW i \in Slots, NEW x \in Conns, From(i, x)'
  PROVE  From(i, x) \/ Holds(i, x)
<1>0. rest[i] \in Seq(Piece) BY DEF TypedSockets
<1>1. PICK m \in DOMAIN rest'[i] : rest'[i][m].of[1] = x BY DEF From
<1>2. CASE MainRead(i)
  <2>1. PICK k \in Conns, a \in Seq(Piece), c \in Seq(Piece) : ReadOf(i, k, a, c) BY <1>2, ReadIs
  <2>2. Holds(i, k) /\ conn[k].out = a \o c /\ rest'[i] = FromHeader(rest[i] \o a) /\ rest[i] \o a \in Seq(Piece)
    BY <2>1, Zenon DEF ReadOf
  <2>3. PICK b, r : b = rest[i] \o a /\ r = rest'[i] OBVIOUS
  <2>4. b \in Seq(Piece) /\ r = FromHeader(b) /\ m \in DOMAIN r BY <1>1, <2>2, <2>3
  <2>5. Part(r, b) /\ r \in Seq(Piece) BY <2>4, FromHeaderIs
  <2>6. PICK n \in DOMAIN b : r[m] = b[n] BY <2>4, <2>5, InPart
  <2>7. PICK r0 : r0 = rest[i] OBVIOUS
  <2>8. r0 \in Seq(Piece) /\ a \in Seq(Piece) /\ b = r0 \o a /\ n \in DOMAIN (r0 \o a) BY <1>0, <2>1, <2>3, <2>6, <2>7
  <2>9. DOMAIN r0 = 1 .. Len(r0) /\ DOMAIN a = 1 .. Len(a) BY <2>8
  <2>10. \/ n \in DOMAIN r0 /\ b[n] = r0[n]
         \/ n - Len(r0) \in DOMAIN a /\ b[n] = a[n - Len(r0)]
    BY <2>8, <2>9, ConcatIs
  <2>11. CASE n \in DOMAIN r0 /\ b[n] = r0[n] BY <1>1, <2>3, <2>6, <2>7, <2>11 DEF From
  <2>12. CASE n - Len(r0) \in DOMAIN a /\ b[n] = a[n - Len(r0)]
    <3>1. a \in Seq(Piece) /\ c \in Seq(Piece) BY <2>1
    <3>2. PICK o : o = a \o c OBVIOUS
    <3>3. n - Len(r0) \in DOMAIN o /\ o[n - Len(r0)] = a[n - Len(r0)] BY <2>9, <2>12, <3>1, <3>2, ConcatIs
    <3>4. o = conn[k].out /\ \A y \in DOMAIN o : o[y].of[1] = k BY <2>2, <3>2 DEF Peered
    <3>5. o[n - Len(r0)].of[1] = k BY <3>3, <3>4
    <3>6. x = k BY <1>1, <2>3, <2>6, <2>12, <3>3, <3>5
    <3>7. QED BY <2>2, <3>6
  <2>13. QED BY <2>10, <2>11, <2>12
<1>3. CASE ~MainRead(i)
  <2>1. rest'[i] \in Seq(Piece) /\ Suffix(rest'[i], rest[i]) BY <1>3, RestStep
  <2>2. PICK b, r : b = rest[i] /\ r = rest'[i] OBVIOUS
  <2>3. \E n \in DOMAIN b : r[m] = b[n] BY <1>0, <1>1, <2>1, <2>2, InSuffix
  <2>4. QED BY <1>1, <2>2, <2>3 DEF From
<1>4. QED BY <1>2, <1>3

\* What k has sent and is not yet cut
LEMMA ComingStep ==
  ASSUME TypedSockets, Owned, Busy, Peered, Piped, [Next]_vars, NEW k \in Conns, NEW x \in Nat, Coming(k, x)'
  PROVE  \/ Coming(k, x)
         \/ conn[k].at = "up" /\ x = Len(conn[k].asks) /\ Len(conn'[k].asks) < x
<1>0. (\A i \in Slots : rest[i] \in Seq(Piece)) /\ conn[k].out \in Seq(Piece)
  <2>1. conn[k] \in End BY DEF TypedSockets
  <2>2. QED BY <2>1 DEF TypedSockets, End
<1>1. ASSUME NEW i \in Slots, Heads(rest[i], k, x)' PROVE Coming(k, x)
  <2>1. PICK m \in DOMAIN rest'[i] : rest'[i][m].part = "header" /\ rest'[i][m].of = <<k, x>> BY <1>1 DEF Heads
  <2>2. CASE MainRead(i)
    <3>1. PICK y \in Conns, a \in Seq(Piece), c \in Seq(Piece) : ReadOf(i, y, a, c) BY <2>2, ReadIs
    <3>2. Holds(i, y) /\ conn[y].out = a \o c /\ rest'[i] = FromHeader(rest[i] \o a) /\ rest[i] \o a \in Seq(Piece)
      BY <3>1, Zenon DEF ReadOf
    <3>3. PICK b, r, r0, o : b = rest[i] \o a /\ r = rest'[i] /\ r0 = rest[i] /\ o = a \o c OBVIOUS
    <3>4. /\ b \in Seq(Piece) /\ r = FromHeader(b) /\ m \in DOMAIN r
          /\ r0 \in Seq(Piece) /\ a \in Seq(Piece) /\ c \in Seq(Piece) /\ b = r0 \o a
      BY <1>0, <2>1, <3>1, <3>2, <3>3
    <3>5. Part(r, b) /\ r \in Seq(Piece) BY <3>4, FromHeaderIs
    <3>5a. b \in Seq(Piece) /\ m \in DOMAIN r BY <3>4
    <3>6. PICK n \in DOMAIN b : r[m] = b[n] BY <3>5, <3>5a, InPart
    <3>7. DOMAIN r0 = 1 .. Len(r0) /\ DOMAIN a = 1 .. Len(a) BY <3>4
    <3>8. \/ n \in DOMAIN r0 /\ b[n] = r0[n]
          \/ n - Len(r0) \in DOMAIN a /\ b[n] = a[n - Len(r0)]
      BY <3>4, <3>6, <3>7, ConcatIs
    <3>9. CASE n \in DOMAIN r0 /\ b[n] = r0[n] BY <2>1, <3>3, <3>6, <3>9 DEF Heads, Coming
    <3>10. CASE n - Len(r0) \in DOMAIN a /\ b[n] = a[n - Len(r0)]
      <4>1. n - Len(r0) \in DOMAIN o /\ o[n - Len(r0)] = a[n - Len(r0)] BY <3>3, <3>4, <3>7, <3>10, ConcatIs
      <4>2. o = conn[y].out /\ \A z \in DOMAIN o : o[z].of[1] = y BY <3>2, <3>3 DEF Peered
      <4>3. o[n - Len(r0)].of = <<k, x>> /\ o[n - Len(r0)].part = "header" BY <2>1, <3>3, <3>6, <3>10, <4>1
      <4>4. y = k BY <4>1, <4>2, <4>3
      <4>5. Heads(conn[k].out, k, x) BY <4>1, <4>2, <4>3, <4>4 DEF Heads
      <4>6. QED BY <4>5 DEF Coming
    <3>11. QED BY <3>8, <3>9, <3>10
  <2>3. CASE ~MainRead(i)
    <3>1. rest'[i] \in Seq(Piece) /\ Suffix(rest'[i], rest[i]) BY <2>3, RestStep
    <3>2. PICK b, r : b = rest[i] /\ r = rest'[i] OBVIOUS
    <3>3. \E n \in DOMAIN b : r[m] = b[n] BY <1>0, <2>1, <3>1, <3>2, InSuffix
    <3>4. QED BY <2>1, <3>2, <3>3 DEF Heads, Coming
  <2>4. QED BY <2>2, <2>3
<1>2. ASSUME Heads(conn[k].out, k, x)'
      PROVE  Heads(conn[k].out, k, x) \/ (conn[k].at = "up" /\ x = Len(conn[k].asks) /\ Len(conn'[k].asks) < x)
  <2>1. PICK m \in DOMAIN conn'[k].out : conn'[k].out[m].part = "header" /\ conn'[k].out[m].of = <<k, x>>
    BY <1>2 DEF Heads
  <2>2. CASE conn'[k].out = conn[k].out BY <2>1, <2>2 DEF Heads
  <2>3. CASE conn'[k].out = <<>> BY <2>1, <2>3
  <2>4. CASE SendsNow(k)
    <3>1. PICK o, p, n, h : o = conn[k].out /\ p = Pieces(k, n, h) /\ n = Len(conn[k].asks) /\ h = Head(conn[k].asks) OBVIOUS
    <3>2. /\ n \in Nat /\ h \in Kinds /\ conn'[k].out = o \o p /\ conn[k].at = "up" /\ Len(conn'[k].asks) < n
          /\ o \in Seq(Piece)
      BY <1>0, <2>4, <3>1 DEF SendsNow
    <3>3. p \in Seq(Piece) /\ \A z \in DOMAIN p : p[z].of = <<k, n>> BY <3>1, <3>2, PiecesTyped
    <3>4. PICK w : w = o \o p OBVIOUS
    <3>5. m \in DOMAIN w /\ w[m].part = "header" /\ w[m].of = <<k, x>> BY <2>1, <3>2, <3>4
    <3>6. DOMAIN o = 1 .. Len(o) /\ DOMAIN p = 1 .. Len(p) BY <3>2, <3>3
    <3>7. \/ m \in DOMAIN o /\ w[m] = o[m]
          \/ m - Len(o) \in DOMAIN p /\ w[m] = p[m - Len(o)]
      BY <3>2, <3>3, <3>4, <3>5, <3>6, ConcatIs
    <3>8. CASE m \in DOMAIN o /\ w[m] = o[m] BY <3>1, <3>5, <3>8 DEF Heads
    <3>9. CASE m - Len(o) \in DOMAIN p /\ w[m] = p[m - Len(o)]
      <4>1. <<k, x>> = <<k, n>> BY <3>3, <3>5, <3>9
      <4>2. x = n BY <4>1
      <4>3. QED BY <3>1, <3>2, <4>2
    <3>10. QED BY <3>7, <3>8, <3>9
  <2>5. CASE \E j \in Slots : MainRead(j)
    <3>1. PICK j \in Slots : MainRead(j) BY <2>5
    <3>2. PICK y \in Conns, a \in Seq(Piece), c \in Seq(Piece) : ReadOf(j, y, a, c) BY <3>1, ReadIs
    <3>3. conn[y].out = a \o c /\ conn'[y].out = c /\ \A z \in Conns \ {y} : conn'[z] = conn[z]
      BY <3>2, Zenon DEF ReadOf
    <3>4. CASE y # k BY <2>2, <3>3, <3>4
    <3>5. CASE y = k
      <4>1. a \in Seq(Piece) /\ c \in Seq(Piece) BY <3>2
      <4>2. PICK o : o = a \o c OBVIOUS
      <4>3. Part(c, o) /\ o \in Seq(Piece) BY <4>1, <4>2, ConcatParts
      <4>4. m \in DOMAIN c /\ c[m].part = "header" /\ c[m].of = <<k, x>> /\ o = conn[k].out BY <2>1, <3>3, <3>5, <4>2
      <4>5. \E n \in DOMAIN o : c[m] = o[n] BY <4>1, <4>3, <4>4, InPart
      <4>6. QED BY <4>4, <4>5 DEF Heads
    <3>6. QED BY <3>4, <3>5
  <2>6. QED BY <2>2, <2>3, <2>4, <2>5, OutStep
<1>3. QED BY <1>1, <1>2 DEF Coming

LEMMA StreamsStep ==
  ASSUME TypedSockets, Owned, Busy, Peered, Piped, Streams, [Next]_vars
  PROVE  Streams'
<1>0. TypedSockets' /\ Peered' BY TypedStep, PeeredStep
<1>1. ASSUME NEW i \in Slots PROVE Joined(Stream(i)')
  <2>1. rest[i] \in Seq(Piece) /\ Left(i) \in Seq(Piece) /\ rest'[i] \in Seq(Piece) /\ Left(i)' \in Seq(Piece)
    BY <1>0, LeftIs, LeftNext DEF TypedSockets, Lefts
  <2>2. PICK b, c : b = Stream(i) /\ c = Stream(i)' OBVIOUS
  <2>3. b \in Seq(Piece) /\ c \in Seq(Piece)
    <3>1. PICK x, y, z, w : x = rest[i] /\ y = Left(i) /\ z = rest'[i] /\ w = Left(i)' OBVIOUS
    <3>2. x \in Seq(Piece) /\ y \in Seq(Piece) /\ z \in Seq(Piece) /\ w \in Seq(Piece) BY <2>1, <3>1
    <3>3. x \o y \in Seq(Piece) /\ z \o w \in Seq(Piece) BY <3>2, ConcatIs
    <3>4. b = x \o y /\ c = z \o w BY <2>2, <3>1 DEF Stream
    <3>5. QED BY <3>3, <3>4
  <2>4. Joined(b) BY <2>2 DEF Streams
  <2>5. CASE Part(Stream(i)', Stream(i)) BY <2>2, <2>3, <2>4, <2>5, JoinedPart
  <2>6. CASE \E k \in Conns : /\ Holds(i, k) /\ SendsNow(k) /\ rest'[i] = rest[i]
                              /\ Left(i)' = Left(i) \o Pieces(k, Len(conn[k].asks), Head(conn[k].asks))
    <3>1. PICK k \in Conns : /\ Holds(i, k) /\ SendsNow(k) /\ rest'[i] = rest[i]
                             /\ Left(i)' = Left(i) \o Pieces(k, Len(conn[k].asks), Head(conn[k].asks))
      BY <2>6
    <3>2. PICK x, y, n, h, p : /\ x = rest[i] /\ y = Left(i) /\ n = Len(conn[k].asks) /\ h = Head(conn[k].asks)
                               /\ p = Pieces(k, n, h)
      OBVIOUS
    <3>3. x \in Seq(Piece) /\ y \in Seq(Piece) /\ n \in Nat /\ h \in Kinds BY <2>1, <3>1, <3>2 DEF SendsNow
    <3>4. p \in Seq(Piece) BY <3>2, <3>3, PiecesTyped
    <3>5. b = x \o y /\ c = x \o (y \o p) BY <2>2, <3>1, <3>2 DEF Stream
    <3>6. x \o (y \o p) = (x \o y) \o p BY <3>3, <3>4, ConcatPieces
    <3>7. ASSUME NEW m \in DOMAIN b, b[m].part = "header", b[m].of[1] = k PROVE b[m].of[2] > n
      <4>1. b[m] \in Piece BY <2>3
      <4>2. PICK v \in Nat : b[m].of = <<k, v>>
        <5>1. b[m].of \in Conns \X Nat BY <4>1 DEF Piece
        <5>2. QED BY <3>7, <5>1
      <4>3. DOMAIN x = 1 .. Len(x) /\ DOMAIN y = 1 .. Len(y) BY <3>3
      <4>4. m \in DOMAIN (x \o y) BY <3>5
      <4>5. \/ m \in DOMAIN x /\ b[m] = x[m]
            \/ m - Len(x) \in DOMAIN y /\ b[m] = y[m - Len(x)]
        BY <3>3, <3>5, <4>3, <4>4, ConcatIs
      <4>6. CASE m \in DOMAIN x /\ b[m] = x[m]
        <5>1. Heads(rest[i], k, v) BY <3>2, <3>7, <4>2, <4>6 DEF Heads
        <5>2. Coming(k, v) BY <5>1 DEF Coming
        <5>3. QED BY <3>2, <4>2, <5>2 DEF Streams
      <4>7. CASE m - Len(x) \in DOMAIN y /\ b[m] = y[m - Len(x)]
        <5>1. Left(i) = conn[k].out BY <3>1, LeftIs DEF Lefts
        <5>2. Heads(conn[k].out, k, v) BY <3>2, <3>7, <4>2, <4>7, <5>1 DEF Heads
        <5>3. Coming(k, v) BY <5>2 DEF Coming
        <5>4. QED BY <3>2, <4>2, <5>3 DEF Streams
      <4>8. QED BY <4>5, <4>6, <4>7
    <3>8. Joined(b \o p) BY <2>3, <2>4, <3>2, <3>3, <3>7, JoinedSend
    <3>9. QED BY <2>2, <3>5, <3>6, <3>8
  <2>7. QED BY <2>5, <2>6, StreamStep
<1>2. ASSUME NEW i \in Slots, rest'[i] # <<>> PROVE rest'[i][1].part = "header"
  <2>1. CASE MainRead(i)
    <3>1. PICK k \in Conns, a \in Seq(Piece), c \in Seq(Piece) : ReadOf(i, k, a, c) BY <2>1, ReadIs
    <3>2. QED BY <1>2, <3>1, Zenon DEF ReadOf
  <2>2. CASE ~MainRead(i)
    <3>1. rest'[i] = rest[i] \/ (rest'[i] # <<>> => rest'[i][1].part = "header") BY <2>2, RestStep
    <3>2. rest[i] # <<>> => rest[i][1].part = "header" BY DEF Streams
    <3>3. QED BY <1>2, <3>1, <3>2
  <2>3. QED BY <2>1, <2>2
<1>3. ASSUME NEW i \in Slots, NEW j \in Slots, NEW k \in Conns, From(i, k)', From(j, k)' PROVE i = j
  <2>1. (From(i, k) \/ Holds(i, k)) /\ (From(j, k) \/ Holds(j, k)) BY <1>3, FromStep
  <2>2. ASSUME NEW l \in Slots, NEW m \in Slots, Holds(l, k), From(m, k) PROVE l = m
    <3>1. conn[k].at = "up" BY <2>2, LeftIs DEF Lefts
    <3>2. Holds(m, k) BY <2>2, <3>1 DEF Peered
    <3>3. QED BY <2>2, <3>2 DEF Peered
  <2>3. CASE From(i, k) /\ From(j, k) BY <2>3 DEF Streams
  <2>4. CASE Holds(i, k) /\ Holds(j, k) BY <2>4 DEF Peered
  <2>5. QED BY <2>1, <2>2, <2>3, <2>4
<1>4. ASSUME NEW k \in Conns, NEW n \in Nat, Coming(k, n)' PROVE n > Len(conn'[k].asks)
  <2>1. Len(conn'[k].asks) \in Nat /\ Len(conn[k].asks) \in Nat /\ Len(conn'[k].asks) <= Len(conn[k].asks) BY Ats
  <2>2. Coming(k, n) \/ Len(conn'[k].asks) < n BY <1>4, ComingStep
  <2>3. CASE Coming(k, n)
    <3>1. n > Len(conn[k].asks) BY <2>3 DEF Streams
    <3>2. QED BY <2>1, <3>1
  <2>4. CASE Len(conn'[k].asks) < n BY <2>1, <2>4
  <2>5. QED BY <2>2, <2>3, <2>4
<1>5. QED BY <1>1, <1>2, <1>3, <1>4, Zenon DEF Streams

-----------------------------------------------------------------------------
(* What goes to the cache are whole Objects, in their order.               *)

LEMMA OrderedPart ==
  ASSUME NEW b \in Buffer, NEW c \in Buffer, Ordered(b), Part(c, b)
  PROVE  Ordered(c)
<1>1. PICK d \in Nat : d + Len(c) <= Len(b) /\ \A x \in 1 .. Len(c) : c[x] = b[x + d] BY DEF Part
<1>2. Len(b) \in Nat /\ Len(c) \in Nat /\ DOMAIN c = 1 .. Len(c) /\ DOMAIN b = 1 .. Len(b) BY DEF Buffer
<1>3. \A x \in DOMAIN c : x \in Nat \ {0} /\ x + d \in DOMAIN b /\ c[x] = b[x + d] BY <1>1, <1>2
<1>4. ASSUME NEW m \in DOMAIN c PROVE WholeFrame(c[m]) BY <1>3 DEF Ordered
<1>5. ASSUME NEW m \in DOMAIN c, NEW n \in DOMAIN c, m < n, c[m][1].of[1] = c[n][1].of[1]
      PROVE  c[m][1].of[2] > c[n][1].of[2]
  <2>1. m + d \in DOMAIN b /\ c[m] = b[m + d] /\ n + d \in DOMAIN b /\ c[n] = b[n + d] BY <1>3
  <2>2. m + d < n + d BY <1>1, <1>3, <1>5
  <2>3. QED BY <1>5, <2>1, <2>2 DEF Ordered
<1>6. QED BY <1>4, <1>5 DEF Ordered

LEMMA OrderedAppend ==
  ASSUME NEW c \in Buffer, Ordered(c), NEW f \in Seq(Piece), WholeFrame(f),
         \A m \in DOMAIN c : c[m][1].of[1] = f[1].of[1] => c[m][1].of[2] > f[1].of[2]
  PROVE  Ordered(Append(c, f))
<1> DEFINE S == Seq(Piece)
<1>1. c \in Seq(S) /\ f \in S BY DEF Buffer
<1> HIDE DEF S
<1>2. PICK w : w = Append(c, f) OBVIOUS
<1>3. /\ Len(c) \in Nat /\ DOMAIN c = 1 .. Len(c) /\ DOMAIN w = 1 .. Len(c) + 1
      /\ \A m \in 1 .. Len(c) : w[m] = c[m]
      /\ w[Len(c) + 1] = f
  BY <1>1, <1>2
<1>4. \A m \in DOMAIN w : (m \in DOMAIN c /\ w[m] = c[m]) \/ (m = Len(c) + 1 /\ w[m] = f) BY <1>3
<1>5. ASSUME NEW m \in DOMAIN w PROVE WholeFrame(w[m]) BY <1>4 DEF Ordered
<1>6. ASSUME NEW m \in DOMAIN w, NEW n \in DOMAIN w, m < n, w[m][1].of[1] = w[n][1].of[1]
      PROVE  w[m][1].of[2] > w[n][1].of[2]
  <2>1. m \in DOMAIN c /\ w[m] = c[m] BY <1>3, <1>4, <1>6
  <2>2. CASE n \in DOMAIN c /\ w[n] = c[n] BY <1>6, <2>1, <2>2 DEF Ordered
  <2>3. CASE n = Len(c) + 1 /\ w[n] = f BY <1>6, <2>1, <2>3
  <2>4. QED BY <1>4, <2>2, <2>3
<1>7. QED BY <1>2, <1>5, <1>6 DEF Ordered

\* The stream of the slot that is cut begins with the frame, and goes on with what is
\* behind it and what is to come.
LEMMA StreamIs ==
  ASSUME TypedSockets, Busy, Peered, cutting # NoSlot
  PROVE  /\ Stream(cutting) \in Seq(Piece)
         /\ \A m \in DOMAIN Frame : m \in DOMAIN Stream(cutting) /\ Stream(cutting)[m] = Frame[m]
         /\ 1 \in DOMAIN Frame /\ rest[cutting] # <<>> /\ Frame[1] = rest[cutting][1] /\ Frame[1] \in Piece
         /\ \A m \in DOMAIN Behind : \E n \in DOMAIN Stream(cutting) : n > 1 /\ Stream(cutting)[n] = Behind[m]
         /\ \A m \in DOMAIN Left(cutting) : \E n \in DOMAIN Stream(cutting) : n > 1 /\ Stream(cutting)[n] = Left(cutting)[m]
<1>1. PICK i, b, y, f, g : i = cutting /\ b = rest[cutting] /\ y = Left(cutting) /\ f = Frame /\ g = Behind OBVIOUS
<1>2. /\ b \in Seq(Piece) /\ b # <<>> /\ f \in Seq(Piece) /\ Len(f) \in {1, 3} /\ Len(f) <= Len(b)
      /\ \A m \in 1 .. Len(f) : f[m] = b[m]
      /\ g \in Seq(Piece) /\ Len(g) = Len(b) - Len(f)
      /\ \A m \in 1 .. Len(g) : g[m] = b[m + Len(f)]
      /\ i \in Slots
  BY <1>1, FrameIs
<1>3. y \in Seq(Piece) BY <1>1, <1>2, LeftIs DEF Lefts
<1>4. PICK w : w = b \o y OBVIOUS
<1>5. /\ w \in Seq(Piece) /\ Len(b) \in Nat /\ Len(y) \in Nat
      /\ DOMAIN b = 1 .. Len(b) /\ DOMAIN y = 1 .. Len(y)
      /\ \A m \in 1 .. Len(b) : m \in DOMAIN w /\ w[m] = b[m]
      /\ \A m \in 1 .. Len(y) : m + Len(b) \in DOMAIN w /\ w[m + Len(b)] = y[m]
  BY <1>2, <1>3, <1>4, ConcatIs
<1>6. w = Stream(cutting) BY <1>1, <1>4 DEF Stream
<1>7. DOMAIN f = 1 .. Len(f) /\ DOMAIN g = 1 .. Len(g) /\ Len(f) \in Nat /\ Len(f) >= 1 /\ Len(g) \in Nat
  <2>1. f \in Seq(Piece) /\ g \in Seq(Piece) BY <1>2
  <2>2. DOMAIN f = 1 .. Len(f) /\ DOMAIN g = 1 .. Len(g) BY <2>1
  <2>3. Len(f) \in {1, 3} /\ Len(g) \in Nat BY <1>2, <2>1
  <2>4. QED BY <2>2, <2>3
<1>8. \A m \in DOMAIN f : m \in DOMAIN w /\ w[m] = f[m]
  <2>1. \A m \in DOMAIN f : m \in 1 .. Len(b) BY <1>2, <1>5, <1>7
  <2>2. QED BY <1>2, <1>5, <1>7, <2>1
<1>9. 1 \in DOMAIN f /\ f[1] = b[1] /\ f[1] \in Piece
  <2>1. 1 \in DOMAIN f BY <1>7
  <2>2. QED BY <1>2, <1>7, <2>1
<1>10. ASSUME NEW m \in DOMAIN g PROVE \E n \in DOMAIN w : n > 1 /\ w[n] = g[m]
  <2>0. PICK l, u, v : l = Len(f) /\ u = Len(g) /\ v = Len(b) OBVIOUS
  <2>0a. m \in 1 .. u /\ u = v - l /\ l >= 1 /\ l \in Nat /\ v \in Nat BY <1>2, <1>5, <1>7, <2>0
  <2>0b. m \in Nat \ {0} /\ m + l \in 1 .. v /\ m + l > 1 BY <2>0, <2>0a
  <2>1. m \in Nat \ {0} /\ m + Len(f) \in 1 .. Len(b) /\ m + Len(f) > 1 BY <2>0, <2>0b
  <2>2. QED BY <1>2, <1>5, <1>7, <2>1
<1>11. ASSUME NEW m \in DOMAIN y PROVE \E n \in DOMAIN w : n > 1 /\ w[n] = y[m]
  <2>1. m \in Nat \ {0} /\ Len(b) >= 1 BY <1>2, <1>5, <1>7
  <2>2. m + Len(b) > 1 BY <1>5, <2>1
  <2>3. QED BY <1>5, <2>2
<1>12. QED BY <1>1, <1>2, <1>5, <1>6, <1>8, <1>9, <1>10, <1>11

\* A frame that passes the check is a whole Object.
LEMMA FrameWhole ==
  ASSUME TypedSockets, Busy, Peered, Streams, MainObject, FrameCheck(Frame)
  PROVE  WholeFrame(Frame) /\ Frame[1].part = "header"
<1>0. cutting # NoSlot /\ Frame[1].what \in {"Object", "Cut"} BY DEF MainObject
<1>1. PICK f, w : f = Frame /\ w = Stream(cutting) OBVIOUS
<1>2. /\ f \in Seq(Piece) /\ Len(f) = Size(rest[cutting][1]) /\ cutting \in Slots BY <1>0, <1>1, FrameIs
<1>3. /\ \A m \in DOMAIN f : m \in DOMAIN w /\ w[m] = f[m]
      /\ rest[cutting] # <<>> /\ f[1] = rest[cutting][1]
  BY <1>0, <1>1, StreamIs
<1>4. Len(f) = 3
  <2>1. rest[cutting][1].what \in {"Object", "Cut"} BY <1>0, <1>1, <1>3
  <2>2. QED BY <1>2, <2>1 DEF Size
<1>5. f[1].part = "header" BY <1>2, <1>3 DEF Streams
<1>6. f[3].part = "end" /\ f[2].part = "body" /\ f[2].of = f[1].of BY <1>1 DEF FrameCheck
<1>7. f[3].of = f[2].of
  <2>1. 2 \in DOMAIN f /\ 3 \in DOMAIN f BY <1>2, <1>4
  <2>2. Joined(w) BY <1>1, <1>2 DEF Streams
  <2>3. 3 \in DOMAIN w /\ w[3] = f[3] /\ w[2] = f[2] BY <1>3, <2>1
  <2>4. w[3 - 1].of = w[3].of BY <1>6, <2>2, <2>3 DEF Joined
  <2>5. 3 - 1 = 2 OBVIOUS
  <2>6. QED BY <2>3, <2>4, <2>5
<1>8. \A p \in 1 .. 3 : f[p].of = f[1].of /\ f[p].part = <<"header", "body", "end">>[p]
  <2>1. SUFFICES ASSUME NEW p \in {1, 2, 3} PROVE f[p].of = f[1].of /\ f[p].part = <<"header", "body", "end">>[p] OBVIOUS
  <2>2. CASE p = 1 BY <1>5, <2>2
  <2>3. CASE p = 2 BY <1>6, <2>3
  <2>4. CASE p = 3 BY <1>6, <1>7, <2>4
  <2>5. QED BY <2>1, <2>2, <2>3, <2>4
<1>9. QED BY <1>1, <1>2, <1>4, <1>5, <1>8 DEF WholeFrame

\* The frame that is cut has been sent and is not yet cut; all that is behind comes after.
LEMMA FrameAhead ==
  ASSUME TypedSockets, Owned, Busy, Peered, Piped, Streams, [Next]_vars, MainObject, FrameCheck(Frame)
  PROVE  \E k \in Conns, n \in Nat : Frame[1].of = <<k, n>> /\ Coming(k, n) /\ Ahead(k, n)'
<1>0. cutting # NoSlot /\ conn' = conn /\ MainFrame BY DEF MainObject, MainFrame
<1>1. cutting \in Slots BY <1>0, FrameIs
<1>2. /\ Stream(cutting) \in Seq(Piece)
      /\ \A m \in DOMAIN Frame : m \in DOMAIN Stream(cutting) /\ Stream(cutting)[m] = Frame[m]
      /\ 1 \in DOMAIN Frame /\ rest[cutting] # <<>> /\ Frame[1] = rest[cutting][1] /\ Frame[1] \in Piece
      /\ \A m \in DOMAIN Behind : \E n \in DOMAIN Stream(cutting) : n > 1 /\ Stream(cutting)[n] = Behind[m]
      /\ \A m \in DOMAIN Left(cutting) : \E n \in DOMAIN Stream(cutting) : n > 1 /\ Stream(cutting)[n] = Left(cutting)[m]
  BY <1>0, StreamIs
<1>3. PICK k \in Conns, n \in Nat : Frame[1].of = <<k, n>>
  <2>1. Frame[1].of \in Conns \X Nat BY <1>2 DEF Piece
  <2>2. QED BY <2>1
<1>4. Frame[1].part = "header" BY FrameWhole
<1>5. 1 \in DOMAIN rest[cutting]
  <2>1. rest[cutting] \in Seq(Piece) BY <1>1 DEF TypedSockets
  <2>2. QED BY <1>2, <2>1
<1>6. Coming(k, n)
  <2>1. Heads(rest[cutting], k, n) BY <1>2, <1>3, <1>4, <1>5 DEF Heads
  <2>2. QED BY <1>1, <2>1 DEF Coming
<1>7. From(cutting, k) BY <1>2, <1>3, <1>5 DEF From
<1>8. Joined(Stream(cutting)) BY <1>1 DEF Streams
<1>9. ASSUME NEW y \in DOMAIN Stream(cutting), y > 1, NEW x \in Nat,
             Stream(cutting)[y].part = "header", Stream(cutting)[y].of = <<k, x>>
      PROVE  n > x
  <2>1. PICK w : w = Stream(cutting) OBVIOUS
  <2>2. 1 \in DOMAIN w /\ w[1].part = "header" /\ w[1].of = <<k, n>> BY <1>2, <1>3, <1>4, <2>1
  <2>3. w[1].of[2] > w[y].of[2] BY <1>8, <1>9, <2>1, <2>2 DEF Joined
  <2>4. QED BY <1>9, <2>1, <2>2, <2>3
<1>10. ASSUME NEW x \in Nat, Coming(k, x)' PROVE n > x
  <2>1. ASSUME NEW i \in Slots, Heads(rest[i], k, x)' PROVE n > x
    <3>1. PICK m \in DOMAIN rest'[i] : rest'[i][m].part = "header" /\ rest'[i][m].of = <<k, x>> BY <2>1 DEF Heads
    <3>2. ~MainRead(i) BY <1>0 DEF MainRead, AtPoll
    <3>3. rest'[i] \in Seq(Piece) /\ Suffix(rest'[i], rest[i]) /\ rest[i] \in Seq(Piece) BY <3>2, RestStep DEF TypedSockets
    <3>4. CASE i = cutting
      <4>1. Part(rest'[i], Behind) BY <1>0, <3>2, <3>4, RestStep
      <4>2. PICK r, g : r = rest'[i] /\ g = Behind OBVIOUS
      <4>3. g \in Seq(Piece) /\ r \in Seq(Piece) /\ m \in DOMAIN r BY <1>0, <3>1, <3>3, <4>2, FrameIs
      <4>4. PICK z \in DOMAIN g : r[m] = g[z] BY <4>1, <4>2, <4>3, InPart
      <4>5. PICK y \in DOMAIN Stream(cutting) : y > 1 /\ Stream(cutting)[y] = g[z] BY <1>2, <4>2
      <4>6. Stream(cutting)[y].part = "header" /\ Stream(cutting)[y].of = <<k, x>> BY <3>1, <4>2, <4>4, <4>5
      <4>7. QED BY <1>9, <4>5, <4>6
    <3>5. CASE i # cutting
      <4>1. PICK r, b : r = rest'[i] /\ b = rest[i] OBVIOUS
      <4>2. b \in Seq(Piece) /\ r \in Seq(Piece) /\ m \in DOMAIN r /\ Suffix(r, b) BY <3>1, <3>3, <4>1
      <4>3. PICK z \in DOMAIN b : r[m] = b[z] BY <4>2, InSuffix
      <4>4. From(i, k) BY <3>1, <4>1, <4>3 DEF From
      <4>5. QED BY <1>1, <1>7, <3>5, <4>4 DEF Streams
    <3>6. QED BY <3>4, <3>5
  <2>2. ASSUME Heads(conn[k].out, k, x)' PROVE n > x
    <3>1. PICK m \in DOMAIN conn[k].out : conn[k].out[m].part = "header" /\ conn[k].out[m].of = <<k, x>>
      BY <1>0, <2>2 DEF Heads
    <3>2. conn[k].at = "up" BY <3>1 DEF Peered
    <3>3. Holds(cutting, k) BY <1>1, <1>7, <3>2 DEF Peered
    <3>4. Left(cutting) = conn[k].out BY <1>1, <3>3, LeftIs DEF Lefts
    <3>5. PICK y \in DOMAIN Stream(cutting) : y > 1 /\ Stream(cutting)[y] = conn[k].out[m] BY <1>2, <3>1, <3>4
    <3>6. QED BY <1>9, <3>1, <3>5
  <2>3. QED BY <1>10, <2>1, <2>2 DEF Coming
<1>11. n > Len(conn'[k].asks) /\ conn'[k].at \in {"up", "down"}
  <2>1. n > Len(conn[k].asks) BY <1>6 DEF Streams
  <2>2. conn[k].at \in {"up", "down"} BY <1>1, <1>7 DEF Peered
  <2>3. QED BY <1>0, <2>1, <2>2
<1>12. Ahead(k, n)' BY <1>10, <1>11 DEF Ahead
<1>13. QED BY <1>3, <1>6, <1>12

\* What is ahead of k stays ahead.
LEMMA AheadStep ==
  ASSUME TypedSockets, Owned, Busy, Peered, Piped, Streams, [Next]_vars, NEW k \in Conns, NEW n \in Nat, Ahead(k, n)
  PROVE  Ahead(k, n)'
<1>1. /\ conn[k].at \in {"up", "down"} => conn'[k].at \in {"up", "down"}
      /\ Len(conn'[k].asks) \in Nat /\ Len(conn[k].asks) \in Nat /\ Len(conn'[k].asks) <= Len(conn[k].asks)
  BY Ats
<1>2. n > Len(conn[k].asks) /\ conn[k].at \in {"up", "down"} BY DEF Ahead
<1>3. ASSUME NEW x \in Nat, Coming(k, x)' PROVE n > x
  <2>1. Coming(k, x) \/ x = Len(conn[k].asks) BY <1>3, ComingStep
  <2>2. QED BY <1>2, <2>1 DEF Ahead
<1>4. n > Len(conn'[k].asks) BY <1>1, <1>2
<1>5. QED BY <1>1, <1>2, <1>3, <1>4 DEF Ahead

LEMMA PassedStep ==
  ASSUME TypedSockets, TypedBuffers, Owned, Busy, Peered, Piped, Streams, Passed, [Next]_vars
  PROVE  Passed'
<1>1. Sends BY BuffersStep
<1>2. Queue \in Buffer /\ Queue' \in Buffer BY <1>1, QueueIs DEF Sends
<1>3. ASSUME NEW c \in Buffer, Part(c, Queue)
      PROVE  Ordered(c) /\ \A m \in DOMAIN c, k \in Conns, n \in Nat : c[m][1].of = <<k, n>> => Passing(k, n)
  <2>1. Ordered(c) BY <1>2, <1>3, OrderedPart DEF Passed
  <2>2. ASSUME NEW m \in DOMAIN c, NEW k \in Conns, NEW n \in Nat, c[m][1].of = <<k, n>> PROVE Passing(k, n)
    <3>1. PICK q : q = Queue OBVIOUS
    <3>2. q \in Seq(Seq(Piece)) /\ c \in Seq(Seq(Piece)) /\ Part(c, q) BY <1>2, <1>3, <3>1 DEF Buffer
    <3>3. PICK z \in DOMAIN q : c[m] = q[z] BY <3>2, InPart
    <3>4. QED BY <2>2, <3>1, <3>3 DEF Passing
  <2>3. QED BY <2>1, <2>2
<1>4. CASE Part(Queue', Queue)
  <2>1. PICK c : c = Queue' OBVIOUS
  <2>2. c \in Buffer /\ Part(c, Queue) BY <1>2, <1>4, <2>1
  <2>3. Ordered(Queue') BY <1>3, <2>1, <2>2
  <2>4. ASSUME NEW k \in Conns, NEW n \in Nat, Passing(k, n)' PROVE Ahead(k, n)'
    <3>1. PICK m \in DOMAIN c : c[m][1].of = <<k, n>> BY <2>1, <2>4 DEF Passing
    <3>2. Passing(k, n) BY <1>3, <2>2, <3>1
    <3>3. Ahead(k, n) BY <3>2 DEF Passed
    <3>4. QED BY <3>3, AheadStep
  <2>5. QED BY <2>3, <2>4 DEF Passed
<1>5. CASE MainObject /\ FrameCheck(Frame) /\ \E c \in Buffer : Part(c, Queue) /\ Queue' = Append(c, Frame)
  <2>1. PICK c \in Buffer : Part(c, Queue) /\ Queue' = Append(c, Frame) BY <1>5
  <2>2. PICK f : f = Frame OBVIOUS
  <2>3. WholeFrame(f) /\ f \in Seq(Piece) BY <1>5, <2>2, FrameWhole DEF WholeFrame
  <2>4. PICK k \in Conns, n \in Nat : f[1].of = <<k, n>> /\ Coming(k, n) /\ Ahead(k, n)' BY <1>5, <2>2, FrameAhead
  <2>5. Ordered(c) /\ \A m \in DOMAIN c, x \in Conns, y \in Nat : c[m][1].of = <<x, y>> => Passing(x, y) BY <1>3, <2>1
  <2>6. ASSUME NEW m \in DOMAIN c, c[m][1].of[1] = f[1].of[1] PROVE c[m][1].of[2] > f[1].of[2]
    <3>1. WholeFrame(c[m]) BY <2>5 DEF Ordered
    <3>2. c[m] \in Seq(Piece) /\ Len(c[m]) = 3 BY <3>1 DEF WholeFrame
    <3>3. c[m][1] \in Piece
      <4>1. PICK g \in Seq(Piece) : g = c[m] BY <3>2
      <4>2. 1 \in DOMAIN g BY <3>2, <4>1
      <4>3. QED BY <4>1, <4>2
    <3>4. PICK x \in Conns, y \in Nat : c[m][1].of = <<x, y>>
      <4>1. c[m][1].of \in Conns \X Nat BY <3>3 DEF Piece
      <4>2. QED BY <4>1
    <3>5. x = k BY <2>4, <2>6, <3>4
    <3>6. Ahead(k, y) BY <2>5, <3>4, <3>5 DEF Passed
    <3>7. y > n BY <2>4, <3>6 DEF Ahead
    <3>8. QED BY <2>4, <3>4, <3>7
  <2>7. PICK w : w = Append(c, f) OBVIOUS
  <2>8. Ordered(w) /\ Queue' = w BY <2>1, <2>2, <2>3, <2>5, <2>6, <2>7, OrderedAppend
  <2>9. ASSUME NEW x \in Conns, NEW y \in Nat, Passing(x, y)' PROVE Ahead(x, y)'
    <3>1. PICK m \in DOMAIN w : w[m][1].of = <<x, y>> BY <2>8, <2>9 DEF Passing
    <3>2. (m \in DOMAIN c /\ w[m] = c[m]) \/ w[m] = f
      <4> DEFINE S == Seq(Piece)
      <4>1. c \in Seq(S) /\ f \in S BY <2>1, <2>3 DEF Buffer
      <4> HIDE DEF S
      <4>2. QED BY <2>7, <3>1, <4>1
    <3>3. CASE m \in DOMAIN c /\ w[m] = c[m]
      <4>1. Passing(x, y) BY <2>5, <3>1, <3>3
      <4>2. Ahead(x, y) BY <4>1 DEF Passed
      <4>3. QED BY <4>2, AheadStep
    <3>4. CASE w[m] = f
      <4>1. x = k /\ y = n BY <2>4, <3>1, <3>4
      <4>2. QED BY <2>4, <4>1
    <3>5. QED BY <3>2, <3>3, <3>4
  <2>10. QED BY <2>8, <2>9 DEF Passed
<1>6. QED BY <1>1, <1>4, <1>5 DEF Sends

-----------------------------------------------------------------------------
(* The invariant holds.                                                    *)

\* In the beginning there is nothing but what the scenario gives the peers to send.
LEMMA InitIs ==
  ASSUME Init
  PROVE  /\ running = TRUE /\ fds = [n \in Fds |-> Free] /\ conn \in [Conns -> End]
         /\ \A k \in Conns : conn[k].at \in {"off", "down"} /\ conn[k].out = <<>>
         /\ slot = [i \in Slots |-> None] /\ th = [i \in Slots |-> None] /\ peers = 0
         /\ rest = [i \in Slots |-> <<>>] /\ cutting = NoSlot /\ heir = {} /\ pipe = <<>>
         /\ thread = [t \in Threads |-> [alive |-> TRUE, backlog |-> <<>>, at |-> [i \in Slots |-> None],
                                         snd |-> [i \in Slots |-> None], work |-> <<>>, i |-> 0]]
         /\ exit = "loop" /\ main = <<>> /\ comn = <<>> /\ proc = <<>> /\ msg = "test" /\ push = "loop"
<1>1. PICK s \in Scenarios :
        conn = [k \in Conns |->
                  IF k \in DOMAIN s.asks
                  THEN [at |-> "off", asks |-> s.asks[k], out |-> <<>>, end |-> "no"]
                  ELSE [at |-> "down", asks |-> <<>>, out |-> <<>>, end |-> "never"]]
  BY DEF Init
<1>2. <<>> \in Seq(Piece) /\ <<>> \in Seq(Kinds) OBVIOUS
<1>3. \A k \in DOMAIN s.asks : s.asks[k] \in Seq(Kinds) BY CsmgrdAssumption
<1>4. ASSUME NEW k \in Conns
      PROVE  conn[k] \in End /\ conn[k].at \in {"off", "down"} /\ conn[k].out = <<>>
  <2>1. CASE k \in DOMAIN s.asks
    <3>1. PICK a \in Seq(Kinds) : a = s.asks[k] BY <1>3, <2>1
    <3>2. conn[k] = [at |-> "off", asks |-> a, out |-> <<>>, end |-> "no"] BY <1>1, <2>1, <3>1
    <3>3. QED BY <1>2, <3>2 DEF End
  <2>2. CASE k \notin DOMAIN s.asks
    <3>1. conn[k] = [at |-> "down", asks |-> <<>>, out |-> <<>>, end |-> "never"] BY <1>1, <2>2
    <3>2. QED BY <1>2, <3>1 DEF End
  <2>3. QED BY <2>1, <2>2
<1>5. conn \in [Conns -> End]
  <2>1. conn = [k \in Conns |-> conn[k]] BY <1>1
  <2>2. QED BY <1>4, <2>1
<1>6. QED BY <1>4, <1>5 DEF Init

LEMMA InitInv == Init => IInv
<1> SUFFICES ASSUME Init PROVE IInv OBVIOUS
<1>1. /\ running = TRUE /\ fds = [n \in Fds |-> Free] /\ conn \in [Conns -> End]
      /\ \A k \in Conns : conn[k].at \in {"off", "down"} /\ conn[k].out = <<>>
      /\ slot = [i \in Slots |-> None] /\ th = [i \in Slots |-> None] /\ peers = 0
      /\ rest = [i \in Slots |-> <<>>] /\ cutting = NoSlot /\ heir = {} /\ pipe = <<>>
      /\ thread = [t \in Threads |-> [alive |-> TRUE, backlog |-> <<>>, at |-> [i \in Slots |-> None],
                                      snd |-> [i \in Slots |-> None], work |-> <<>>, i |-> 0]]
      /\ exit = "loop" /\ main = <<>> /\ comn = <<>> /\ proc = <<>> /\ msg = "test" /\ push = "loop"
  BY InitIs
<1>2. /\ \A n \in Fds : fds[n] = Free
      /\ \A i \in Slots : slot[i] = None /\ th[i] = None /\ rest[i] = <<>>
  BY <1>1
<1>3. \A t \in Threads : /\ thread[t].alive = TRUE /\ thread[t].backlog = <<>> /\ thread[t].work = <<>>
                         /\ \A i \in Slots : At(t, i) = None /\ thread[t].snd[i] = None
  BY <1>1 DEF At
<1>4. Free.is = "free" /\ 0 \in Slots /\ None \in Number /\ Free \in Node /\ BuffSize \in Nat \ {0} BY Constants DEF Free
<1>5. TypedSockets
  <2>1. fds \in [Fds -> Node] BY <1>1, <1>4
  <2>2. slot \in [Slots -> Number] /\ th \in [Slots -> Number] BY <1>1, <1>4
  <2>3. rest \in [Slots -> Seq(Piece)]
    <3>1. <<>> \in Seq(Piece) OBVIOUS
    <3>2. QED BY <1>1, <3>1
  <2>4. pipe \in Seq(Pipe) BY <1>1
  <2>5. thread \in [Threads -> Handle]
    <3>1. PICK e : e = [i \in Slots |-> None] OBVIOUS
    <3>2. e \in [Slots -> Number] BY <1>4, <3>1
    <3>3. <<>> \in Seq(Nat \ {0}) /\ <<>> \in Seq(Names \cup Asked) OBVIOUS
    <3>4. [alive |-> TRUE, backlog |-> <<>>, at |-> e, snd |-> e, work |-> <<>>, i |-> 0] \in Handle
      BY <1>4, <3>2, <3>3 DEF Handle
    <3>5. QED BY <1>1, <3>1, <3>4
  <2>6. running \in BOOLEAN /\ conn \in [Conns -> End] BY <1>1
  <2>7. peers \in Int /\ cutting \in Slots \cup {NoSlot} BY <1>1
  <2>8. heir \subseteq Slots /\ exit \in {"loop", "join", "missed", "destroyed"} BY <1>1
  <2>9. QED BY <2>1, <2>2, <2>3, <2>4, <2>5, <2>6, <2>7, <2>8, Zenon DEF TypedSockets
<1>6. TypedBuffers
  <2>1. <<>> \in Seq(Seq(Piece)) /\ Len(<<>>) = 0 OBVIOUS
  <2>2. QED BY <1>1, <1>4, <2>1 DEF TypedBuffers
<1>7. Owned BY <1>2, <1>3, <1>4 DEF Owned
<1>8. Counts
  <2>1. {i \in Slots \ {0} : slot[i] # None} = {} BY <1>2
  <2>2. Cardinality({}) = 0 BY FS_EmptySet
  <2>3. QED BY <1>1, <2>1, <2>2 DEF Counts
<1>9. Busy BY <1>1, <1>2, <1>3 DEF Busy, Working
<1>10. \A i \in Slots, k \in Conns : ~From(i, k) BY <1>2 DEF From
<1>11. Peered
  <2>1. \A i \in Slots, k \in Conns : ~Holds(i, k) BY <1>2 DEF Holds
  <2>2. \A k \in Conns : conn[k].at # "up" /\ conn[k].out = <<>> BY <1>1
  <2>3. \A k \in Conns : \A m \in DOMAIN conn[k].out : FALSE BY <2>2
  <2>4. QED BY <1>2, <1>10, <2>1, <2>2, <2>3, Zenon DEF Peered
<1>12. \A p \in DOMAIN pipe : FALSE BY <1>1
<1>13. \A t \in Threads : \A m \in DOMAIN thread[t].backlog : FALSE BY <1>3
<1>14. Piped
  <2>1. \A n \in Fds : fds[n].is \notin {"main", "thread"} BY <1>2, <1>4
  <2>2. QED BY <1>12, <1>13, <2>1, Zenon DEF Piped
<1>15. Serving
  <2>1. \A t \in Threads, i \in Slots : thread[t].snd[i] = None BY <1>3
  <2>2. QED BY <1>12, <2>1, Zenon DEF Serving
<1>16. Streams
  <2>1. ASSUME NEW i \in Slots PROVE Joined(Stream(i))
    <3>1. Left(i) = <<>> BY <1>2 DEF Left
    <3>2. Stream(i) = <<>> BY <1>2, <3>1 DEF Stream
    <3>3. \A m \in DOMAIN Stream(i) : FALSE BY <3>2
    <3>4. QED BY <3>3, Zenon DEF Joined
  <2>2. \A k \in Conns, n \in Nat : ~Coming(k, n) BY <1>1, <1>2 DEF Coming, Heads
  <2>3. QED BY <1>2, <1>10, <2>1, <2>2, Zenon DEF Streams
<1>17. Passed
  <2>1. Queue = <<>> BY <1>1 DEF Queue
  <2>2. \A m \in DOMAIN Queue : FALSE BY <2>1
  <2>3. Ordered(Queue) BY <2>2, Zenon DEF Ordered
  <2>4. \A k \in Conns, n \in Nat : ~Passing(k, n) BY <2>2, Zenon DEF Passing
  <2>5. QED BY <2>3, <2>4 DEF Passed
<1>18. QED BY <1>5, <1>6, <1>7, <1>8, <1>9, <1>11, <1>14, <1>15, <1>16, <1>17 DEF IInv

LEMMA StepInv == IInv /\ [Next]_vars => IInv'
<1> SUFFICES ASSUME IInv, [Next]_vars PROVE IInv' OBVIOUS
<1>1. TypedSockets /\ TypedBuffers /\ Owned /\ Counts /\ Busy /\ Peered /\ Piped /\ Serving /\ Streams /\ Passed BY DEF IInv
<1>2. TypedSockets' BY <1>1, TypedStep
<1>3. TypedBuffers' BY <1>1, BuffersStep
<1>4. Owned' BY <1>1, OwnedStep
<1>5. Counts' BY <1>1, CountsStep
<1>6. Busy' BY <1>1, BusyStep
<1>7. Peered' BY <1>1, PeeredStep
<1>8. Piped' BY <1>1, PipedStep
<1>9. Serving' BY <1>1, ServingStep
<1>10. Streams' BY <1>1, StreamsStep
<1>11. Passed' BY <1>1, PassedStep
<1>12. QED BY <1>2, <1>3, <1>4, <1>5, <1>6, <1>7, <1>8, <1>9, <1>10, <1>11 DEF IInv

LEMMA SpecInv == Spec => []IInv
<1>1. Init => IInv BY InitInv
<1>2. IInv /\ [Next]_vars => IInv' BY StepInv
<1>3. QED BY <1>1, <1>2, PTL DEF Spec

-----------------------------------------------------------------------------
(* The theorems.                                                           *)

\* Who holds the descriptor n: slots, connections to the threads, threads' slots
Holders(n) ==
  {<<0, i>> : i \in {j \in Slots : slot[j] = n}} \cup {<<1, i>> : i \in {j \in Slots : th[j] = n}}
  \cup {<<2, x>> : x \in {y \in Threads \X Slots : thread[y[1]].at[y[2]] = n}}

LEMMA OneHolder ==
  ASSUME TypedSockets, Owned, NEW n \in Fds
  PROVE  Cardinality(Holders(n)) = IF fds[n] = Free THEN 0 ELSE 1
<1> DEFINE A == {<<0, i>> : i \in {j \in Slots : slot[j] = n}}
           B == {<<1, i>> : i \in {j \in Slots : th[j] = n}}
           C == {<<2, x>> : x \in {y \in Threads \X Slots : thread[y[1]].at[y[2]] = n}}
<1>0. n # None /\ Free.is = "free" BY Constants DEF Free
<1>1. Holders(n) = A \cup B \cup C BY DEF Holders
<1>2. \A i \in Slots : slot[i] = n => fds[n].is = "peer" BY <1>0 DEF Owned
<1>3. \A i \in Slots : th[i] = n => fds[n].is = "main" BY <1>0 DEF Owned
<1>4. \A t \in Threads, i \in Slots : thread[t].at[i] = n => fds[n].is = "thread" BY <1>0 DEF Owned, At
<1>5. fds[n].is # "peer" => A = {} BY <1>2
<1>6. fds[n].is # "main" => B = {} BY <1>3
<1>7. fds[n].is # "thread" => C = {}
  <2>1. SUFFICES ASSUME NEW y \in Threads \X Slots, thread[y[1]].at[y[2]] = n PROVE fds[n].is = "thread" OBVIOUS
  <2>2. y[1] \in Threads /\ y[2] \in Slots OBVIOUS
  <2>3. QED BY <1>4, <2>1, <2>2
<1>8. CASE fds[n] = Free
  <2>1. Holders(n) = {} BY <1>0, <1>1, <1>5, <1>6, <1>7, <1>8
  <2>2. QED BY <1>8, <2>1, FS_EmptySet
<1>9. CASE fds[n] # Free
  <2>1. fds[n].is \in {"peer", "main", "thread"}
    <3>1. fds[n] \in Node BY DEF TypedSockets
    <3>2. fds[n].is # "free" BY <1>9 DEF Owned
    <3>3. QED BY <3>1, <3>2 DEF Node
  <2>2. \E x : Holders(n) = {x}
    <3>1. CASE fds[n].is = "peer"
      <4>1. PICK i \in Slots : slot[i] = n BY <3>1 DEF Owned
      <4>2. \A j \in Slots : slot[j] = n => j = i BY <1>0, <4>1 DEF Owned
      <4>3. A = {<<0, i>>} BY <4>1, <4>2
      <4>4. B = {} /\ C = {} BY <1>6, <1>7, <3>1
      <4>5. Holders(n) = {<<0, i>>} BY <1>1, <4>3, <4>4
      <4>6. QED BY <4>5
    <3>2. CASE fds[n].is = "main"
      <4>1. PICK i \in Slots : th[i] = n BY <3>2 DEF Owned
      <4>2. \A j \in Slots : th[j] = n => j = i BY <1>0, <4>1 DEF Owned
      <4>3. B = {<<1, i>>} BY <4>1, <4>2
      <4>4. A = {} /\ C = {} BY <1>5, <1>7, <3>2
      <4>5. Holders(n) = {<<1, i>>} BY <1>1, <4>3, <4>4
      <4>6. QED BY <4>5
    <3>3. CASE fds[n].is = "thread"
      <4>1. PICK t \in Threads, i \in Slots : thread[t].at[i] = n BY <3>3 DEF Owned, At
      <4>2. \A u \in Threads, j \in Slots : thread[u].at[j] = n => u = t /\ j = i BY <1>0, <4>1 DEF Owned, At
      <4>3. \A y \in Threads \X Slots : thread[y[1]].at[y[2]] = n <=> y = <<t, i>>
        <5>1. SUFFICES ASSUME NEW y \in Threads \X Slots PROVE thread[y[1]].at[y[2]] = n <=> y = <<t, i>> OBVIOUS
        <5>2. PICK u \in Threads, j \in Slots : y = <<u, j>> OBVIOUS
        <5>3. y[1] = u /\ y[2] = j BY <5>2
        <5>4. QED BY <4>1, <4>2, <5>2, <5>3
      <4>4. <<t, i>> \in Threads \X Slots BY <4>1
      <4>5. C = {<<2, <<t, i>>>>} BY <4>3, <4>4, Zenon
      <4>6. A = {} /\ B = {} BY <1>5, <1>6, <3>3
      <4>7. Holders(n) = {<<2, <<t, i>>>>} BY <1>1, <4>5, <4>6
      <4>8. QED BY <4>7
    <3>4. QED BY <2>1, <3>1, <3>2, <3>3
  <2>3. PICK x : Holders(n) = {x} BY <2>2
  <2>4. Cardinality(Holders(n)) = 1 BY <2>3, FS_Singleton
  <2>5. QED BY <1>9, <2>4
<1>10. QED BY <1>8, <1>9

LEMMA InvConsistent == IInv => Consistent
<1> SUFFICES ASSUME IInv PROVE Consistent OBVIOUS
<1>1. TypedSockets /\ TypedBuffers /\ Owned /\ Counts BY DEF IInv
<1>2. TypeOK
  <2>1. running \in BOOLEAN /\ peers \in Int /\ exit \in {"loop", "join", "missed", "destroyed"} BY <1>1 DEF TypedSockets
  <2>2. /\ msg \in {"test", "lock", "wait", "woken", "puts", "gone"} /\ push \in {"loop", "gone"}
        /\ Len(main) <= BuffSize /\ Len(comn) <= BuffSize
    BY <1>1 DEF TypedBuffers
  <2>3. \A i \in Slots :
          /\ slot[i] # None => fds[slot[i]].is = "peer"
          /\ th[i] # None => fds[th[i]].is = "main"
          /\ \A t \in Threads : thread[t].at[i] # None => fds[thread[t].at[i]].is = "thread"
    BY <1>1 DEF Owned, At
  <2>4. QED BY <2>1, <2>2, <2>3, Zenon DEF TypeOK
<1>3. NoLeak
  <2>1. \A n \in Fds : Cardinality(Holders(n)) = IF fds[n] = Free THEN 0 ELSE 1 BY <1>1, OneHolder
  <2>2. QED BY <1>1, <2>1, Zenon DEF NoLeak, Holders, Counts
<1>4. QED BY <1>2, <1>3 DEF Consistent

LEMMA InvIntact == IInv => Intact
<1> SUFFICES ASSUME IInv PROVE Intact OBVIOUS
<1>1. PICK q : q = proc \o comn \o main OBVIOUS
<1>2. Ordered(q) BY <1>1 DEF IInv, Passed, Queue
<1>3. ASSUME NEW i \in DOMAIN q, NEW p \in 1 .. 3
      PROVE  q[i][p].of = q[i][1].of /\ q[i][p].part = <<"header", "body", "end">>[p]
  BY <1>2 DEF Ordered, WholeFrame
<1>4. ASSUME NEW i \in DOMAIN q, NEW j \in DOMAIN q, i < j, q[i][1].of[1] = q[j][1].of[1]
      PROVE  q[i][1].of[2] > q[j][1].of[2]
  BY <1>2, <1>4 DEF Ordered
<1>5. QED BY <1>1, <1>3, <1>4, Zenon DEF Intact

\* A thread at work on what a peer asks answers the number of the peer's socket.
LEMMA RightAnswer ==
  ASSUME IInv, NEW t \in Threads, Working(t), "ask" \in DOMAIN Head(thread[t].work),
         NEW k, k = Head(thread[t].work).ask[1], conn[k].at = "up", SlotOf(k) \cap heir = {}
  PROVE  fds[AnswerTo(t)] = [is |-> "peer", of |-> k]
<1>1. TypedSockets /\ Owned /\ Busy /\ Piped /\ Serving BY DEF IInv
<1>2. PICK i : i = thread[t].i OBVIOUS
<1>3. thread[t] \in Handle BY <1>1 DEF TypedSockets
<1>4. i \in Slots /\ thread[t].work \in Seq(Names \cup Asked) /\ thread[t].work # <<>>
  BY <1>2, <1>3 DEF Handle, Working
<1>5. At(t, i) # None BY <1>1, <1>2 DEF Busy
<1>6. PICK p \in DOMAIN pipe : Taken(t, i, p) BY <1>1, <1>4, <1>5, LeadsIs
<1>7. Work(t, i) = thread[t].work BY <1>2 DEF Work
<1>8. PICK w \in Seq(Names \cup Asked) : w = thread[t].work BY <1>4
<1>9. w # <<>> /\ 1 \in DOMAIN w /\ Head(w) = w[1] /\ w[1] \in Names \cup Asked BY <1>4, <1>8
<1>10. PICK r \in Requests : w[1] = [ask |-> r]
  <2>1. w[1] \notin Names
    <3>1. ASSUME w[1] \in Names PROVE FALSE
      <4>1. DOMAIN w[1] = {"sock"} BY <3>1 DEF Names
      <4>2. QED BY <1>8, <1>9, <4>1
    <3>2. QED BY <3>1
  <2>2. w[1] \in Asked BY <1>9, <2>1
  <2>3. QED BY <2>2 DEF Asked, Requests
<1>11. k = r[1] /\ r[1] \in Conns /\ r[1] \in Nat
  <2>1. r[1] \in Conns BY <1>10 DEF Requests
  <2>2. Head(thread[t].work) = [ask |-> r] BY <1>8, <1>9, <1>10
  <2>3. k = r[1] BY <2>2
  <2>4. QED BY <2>1, <2>3, Constants
<1>12. Asking(Work(t, i), r) BY <1>7, <1>8, <1>9, <1>10 DEF Asking
<1>13. Travels(r, p) BY <1>1, <1>4, <1>6, <1>12 DEF Serving
<1>14. PICK j \in Slots : Holds(j, k) /\ Leads(j, p) BY <1>11, <1>13 DEF Travels
<1>15. slot[j] \in Fds /\ slot[j] # None /\ fds[slot[j]] = [is |-> "peer", of |-> k]
  <2>1. slot[j] \in Number BY <1>1 DEF TypedSockets
  <2>2. QED BY <1>14, <2>1, Constants DEF Holds
<1>16. j \notin heir
  <2>1. j \in SlotOf(k) BY <1>14, <1>15 DEF SlotOf, FdOf
  <2>2. QED BY <2>1
<1>17. PICK s \in Fds : Target(s, p) /\ Stage(t, i, p, s) BY <1>1, <1>4, <1>6 DEF Serving
<1>18. s = slot[j] BY <1>14, <1>16, <1>17 DEF Target
<1>19. Work(t, i) # <<>> BY <1>4, <1>7
<1>20. ~Named(Work(t, i), s)
  <2>1. ASSUME Named(w, s) PROVE FALSE BY <1>10, <2>1, Frames DEF Named
  <2>2. QED BY <1>7, <1>8, <2>1
<1>21. thread[t].snd[i] = s BY <1>17, <1>19, <1>20 DEF Stage
<1>22. AnswerTo(t) = s
  <2>1. thread[t].snd[thread[t].i] # None BY <1>2, <1>15, <1>18, <1>21
  <2>2. QED BY <1>2, <1>21, <2>1 DEF AnswerTo
<1>23. QED BY <1>15, <1>18, <1>22

\* Every descriptor is of the kind its owner takes it for, none is left open that nothing
\* refers to and none has two owners, and peer_num counts the TCP peers, for any number of
\* connections, slots and descriptors (csmgrd.c:1069-1206, 2155-2265).
THEOREM ConsistentAlways == Spec => []Consistent
<1>1. IInv => Consistent BY InvConsistent
<1>2. QED BY <1>1, SpecInv, PTL

\* What goes to the cache are whole Objects, in the order in which their peer sent them
\* and none of them twice, wherever a read ends and whatever a peer breaks off in the midst
\* of an Object (csmgrd.c:1219-1256, 1316-1349, 1390-1499, 3838-3914).
THEOREM IntactAlways == Spec => []Intact
<1>1. IInv => Intact BY InvIntact
<1>2. QED BY <1>1, SpecInv, PTL

\* A thread answers the peer that asked, as long as that is connected and its slot was not
\* taken over, however descriptors are used again (csmgrd.c:1434-1447, 2214-2258).
THEOREM AnswersAskerAlways == Spec => AnswersAsker
<1> DEFINE Answer ==
      \A t \in Threads :
        Working(t) /\ thread'[t].work = Tail(thread[t].work) /\ "ask" \in DOMAIN Head(thread[t].work)
        => LET k == Head(thread[t].work).ask[1] IN
           conn[k].at = "up" /\ SlotOf(k) \cap heir = {}
           => fds[AnswerTo(t)] = [is |-> "peer", of |-> k]
<1>1. IInv => Answer BY RightAnswer
<1>2. IInv /\ [Next]_vars => [Answer]_vars BY <1>1
<1>3. [][Answer]_vars <=> AnswersAsker BY DEF AnswersAsker
<1> HIDE DEF Answer
<1>4. QED BY <1>2, <1>3, SpecInv, PTL DEF Spec
=============================================================================
