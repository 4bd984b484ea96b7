------------------------------- MODULE Routes -------------------------------
(***************************************************************************)
(* The Face table (src/src/lib/cef_face.c), the FIB (src/src/lib/          *)
(* cef_fib.c) and the events of cefnetd's main loop that change them.      *)
(*                                                                         *)
(* A peer has a socket entry that names its Face-ID; Face-IDs are given    *)
(* out round robin.  The FIB stores Face-IDs, not peers, so everything     *)
(* rests on a Face-ID meaning the same peer for as long as the FIB names   *)
(* it.                                                                     *)
(*                                                                         *)
(* sock_tbl and the FIB are maps here (module HashTable), and a face's     *)
(* protocol, fd and index are those of the socket entry that names it.     *)
(***************************************************************************)
EXTENDS Integers, FiniteSetsExt, Functions, SequencesExt

CONSTANTS
  Uris,
  UdpPeers, TcpPeers,  \* other nodes, by address and protocol
  Apps,                \* local applications, by file descriptor
  FaceMax,             \* how many Face-IDs face_tbl has to give
  FibMax,              \* FIB_SIZE
  Messages,            \* the route messages of cefroute and cefbabeld
  Config               \* what cefnetd.fib says, one operation for each host

Peers == UdpPeers \cup TcpPeers
FaceIds == 1 .. FaceMax
NoFace == 0
Owners == {"static", "dynamic"}  \* CefC_Fib_Entry_Static, CefC_Fib_Entry_Dynamic
Operations == [op : {"add", "del"}, uri : Uris, host : Peers, owner : Owners]

ASSUME RoutesAssumption ==
  /\ FaceMax \in Nat \ {0} /\ FibMax \in Nat
  /\ UdpPeers \cap TcpPeers = {} /\ Peers \cap Apps = {}
  /\ Config \in Seq(Operations)
  /\ \A m \in Messages :
       m.op \in {"add", "del"} /\ m.uri \in Uris /\ m.hosts \in Seq(Peers) /\ m.owner \in Owners

VARIABLES
  sock,   \* sock_tbl: who has a socket entry, with its Face-ID and whether the fd is open
  next,   \* assigned_faceid
  fib,    \* for each name the list of Face-IDs, with their owners; <<>> without entry
  todo    \* the rest of the route message, or of cefnetd.fib, that is being read

vars == <<sock, next, fib, todo>>

Elements == [face : FaceIds, owners : SUBSET Owners]

TypeOK ==
  /\ DOMAIN sock \subseteq Peers \cup Apps
  /\ sock \in [DOMAIN sock -> [face : FaceIds, open : BOOLEAN]]
  /\ next \in 1 .. FaceMax + 1
  /\ fib \in [Uris -> Seq(Elements)]
  /\ todo \in Seq(Operations)

Init ==
  /\ sock = [k \in {} |-> NoFace]
  /\ next = 1
  /\ fib = [p \in Uris |-> <<>>]
  /\ todo = Config

-----------------------------------------------------------------------------
(* Faces.                                                                  *)

FaceOf(k) == sock[k].face
Open == {k \in DOMAIN sock : sock[k].open}

\* Two socket entries may name one Face-ID, once that of a face that is down
\* was given out again.  Closing it a second time finds index 0 in face_tbl
\* and closes what is in the first slot of sock_tbl: the model goes no further
\* than the step that gives it out.
OneNameEach == \A k, l \in DOMAIN sock : FaceOf(k) = FaceOf(l) => k = l

\* face_tbl[f].fd is not open: the Face-ID may be given out.
Unused == FaceIds \ {FaceOf(k) : k \in Open}

\* Mutant: the Face-ID after the last one given is taken as it is.
NextFaceBlindly == IF next <= FaceMax THEN next ELSE 1

\* cef_face_unused_faceid_search, if there is one
NextFace ==
  LET ahead == {f \in Unused : f >= next}
  IN  Min(IF ahead # {} THEN ahead ELSE Unused)

\* sock_tbl with an open entry for k that names face f
With(k, f) ==
  [l \in DOMAIN sock \cup {k} |-> IF l = k THEN [face |-> f, open |-> TRUE] ELSE sock[l]]

\* cef_face_close: the entries that remain of s.
Closed(s, f) == Restrict(s, {k \in DOMAIN s : s[k].face # f})

\* A new entry for k: it gets face f, or none is left.
Given(k, f) ==
  /\ k \notin DOMAIN sock
  /\ \/ /\ Unused # {} /\ f = NextFace
        /\ sock' = With(k, f) /\ next' = f + 1
     \/ /\ Unused = {} /\ f = NoFace
        /\ next' = 1 /\ UNCHANGED sock

\* The entry of a peer whose face is down is connected again, as the same face.
Again(k, f) ==
  /\ k \in DOMAIN sock /\ f = FaceOf(k)
  /\ sock' = With(k, f) /\ UNCHANGED next

\* No connection: the socket cannot be opened or bound, or, after the face
\* that was down is closed, the peer refuses.
Refused(k, f) ==
  /\ k \in TcpPeers \ Open /\ f = NoFace
  /\ \/ UNCHANGED sock
     \/ k \in DOMAIN sock /\ sock' = Closed(sock, FaceOf(k))
  /\ UNCHANGED next

\* cef_face_lookup_faceid
LookupFaceid(k, f) ==
  \/ k \in Open /\ f = FaceOf(k) /\ UNCHANGED <<sock, next>>
  \/ k \notin Open /\ Again(k, f)
  \/ Given(k, f)
  \/ Refused(k, f)

-----------------------------------------------------------------------------
(* The FIB.                                                                *)

At(list, f) == {i \in DOMAIN list : list[i].face = f}
Refers(p, f) == At(fib[p], f) # {}
InFib == {f \in FaceIds : \E p \in Uris : Refers(p, f)}

\* cef_fib_set_faceid_to_entry
SetFaceid(list, f, o) ==
  IF At(list, f) = {} THEN Append(list, [face |-> f, owners |-> {o}])
  ELSE [list EXCEPT ![Min(At(list, f))].owners = @ \cup {o}]

\* cef_fib_remove_faceid_from_entry: the Face-ID stays only if the static
\* owner is left (type > face->type, with static above dynamic).
RemoveFaceid(list, f, o) ==
  LET i == Min(At(list, f)) IN
  IF At(list, f) = {} THEN list
  ELSE IF "static" \in list[i].owners \ {o} THEN [list EXCEPT ![i].owners = @ \ {o}]
  ELSE RemoveAt(list, i)

\* cef_fib_faceid_cleanup: of each entry, the first Face-ID whose face is
\* closed in s.
Cleaned(b, s) ==
  [p \in Uris |->
     LET closed == {i \in DOMAIN b[p] : \A k \in DOMAIN s \cap Peers : s[k].face # b[p][i].face}
     IN  IF closed = {} THEN b[p] ELSE RemoveAt(b[p], Min(closed))]

FibFull == Cardinality({p \in Uris : fib[p] # <<>>}) = FibMax

\* After the last host of a message of cefroute, and of cefnetd.fib, closed
\* faces are taken out of the FIB; not after a message of cefbabeld.
AfterMessage(b) == IF Len(todo) = 1 /\ Head(todo).owner = "static" THEN Cleaned(b, sock') ELSE b

\* cef_fib_route_add: the face first, then the entry.
RouteAdd(p, h, o) ==
  \E f \in FaceIds \cup {NoFace} :
    /\ LookupFaceid(h, f)
    /\ LET refused == f = NoFace \/ (fib[p] = <<>> /\ FibFull)
       IN  fib' = AfterMessage(IF refused THEN fib ELSE [fib EXCEPT ![p] = SetFaceid(@, f, o)])

\* cef_fib_route_del: the face is closed unless another entry names it.
RouteDel(p, h, o) ==
  /\ fib[p] # <<>> /\ h \in DOMAIN sock
  /\ sock' = IF \E q \in Uris \ {p} : Refers(q, FaceOf(h)) THEN sock ELSE Closed(sock, FaceOf(h))
  /\ fib' = AfterMessage([fib EXCEPT ![p] = RemoveFaceid(@, FaceOf(h), o)])
  /\ UNCHANGED next

\* No entry, or no face: face_tbl[-1] is closed in the second case, and the
\* model takes the outcome in which that changes nothing.
NothingToDel(p, h) ==
  /\ fib[p] = <<>> \/ h \notin DOMAIN sock
  /\ UNCHANGED <<sock, next>>
  /\ fib' = AfterMessage(fib)

-----------------------------------------------------------------------------
(* The events of the main loop.                                            *)

\* A message of cefroute or cefbabeld arrives ...
RouteMessage(m) ==
  /\ todo' = [i \in DOMAIN m.hosts |->
               [op |-> m.op, uri |-> m.uri, host |-> m.hosts[i], owner |-> m.owner]]
  /\ UNCHANGED <<sock, next, fib>>

\* ... and is read host by host (cef_fib_route_msg_read).
RouteOperation ==
  /\ LET r == Head(todo) IN
     \/ r.op = "add" /\ RouteAdd(r.uri, r.host, r.owner)
     \/ r.op = "del" /\ (RouteDel(r.uri, r.host, r.owner) \/ NothingToDel(r.uri, r.host))
  /\ todo' = Tail(todo)

\* A datagram comes from a peer that has no face yet.
Arrival(h) ==
  /\ h \notin Open
  /\ \E f \in FaceIds \cup {NoFace} : LookupFaceid(h, f)
  /\ UNCHANGED <<fib, todo>>

\* cef_face_accept_connect: an entry of the peer, open or not, gets the new
\* connection.
Accept(h) ==
  /\ \E f \in FaceIds \cup {NoFace} : Again(h, f) \/ Given(h, f)
  /\ UNCHANGED <<fib, todo>>

\* cef_face_lookup_local_faceid
AppConnect(a) == (\E f \in FaceIds \cup {NoFace} : Given(a, f)) /\ UNCHANGED <<fib, todo>>

AppClose(a) ==
  /\ a \in Open /\ sock' = Closed(sock, FaceOf(a))
  /\ UNCHANGED <<next, fib, todo>>

\* The peer closes the connection (cefnetd_tcp_input_process): the entry and
\* its Face-ID stay.
TcpDown(h) ==
  /\ h \in Open /\ sock' = [sock EXCEPT ![h].open = FALSE]
  /\ UNCHANGED <<next, fib, todo>>

\* poll reports an error on the connection (cefnetd_event_dispatch).
TcpError(h) ==
  /\ h \in Open /\ sock' = Closed(sock, FaceOf(h))
  /\ fib' = Cleaned(fib, sock')
  /\ UNCHANGED <<next, todo>>

\* Mutant: the FIB is not asked.
IdleUnasked == {FaceOf(k) : k \in {l \in DOMAIN sock \cap Peers : l \in UdpPeers \/ l \notin Open}}

\* The faces that cefnetd_faces_cleanup may close, once they are old enough.
Idle == {FaceOf(k) : k \in {l \in DOMAIN sock \cap Peers : l \in UdpPeers \/ l \notin Open}} \ InFib

FacesCleanup ==
  /\ \E old \in SUBSET Idle \ {{}} : sock' = Restrict(sock, {k \in DOMAIN sock : FaceOf(k) \notin old})
  /\ UNCHANGED <<next, fib, todo>>

\* cefnetd ends, whatever it is at, and is started anew: nothing is kept.
Restart ==
  /\ sock' = [k \in {} |-> NoFace] /\ next' = 1
  /\ fib' = [p \in Uris |-> <<>>] /\ todo' = Config

Event ==
  \/ \E m \in Messages : RouteMessage(m)
  \/ \E h \in UdpPeers : Arrival(h)
  \/ \E h \in TcpPeers : Accept(h) \/ TcpDown(h) \/ TcpError(h)
  \/ \E a \in Apps : AppConnect(a) \/ AppClose(a)
  \/ FacesCleanup

Next ==
  \/ OneNameEach /\ todo # <<>> /\ RouteOperation
  \/ OneNameEach /\ todo = <<>> /\ Event
  \/ Restart

Spec == Init /\ [][Next]_vars

-----------------------------------------------------------------------------
(* Properties.                                                             *)

\* Only the face of a TCP connection that is down may have lost its Face-ID to
\* somebody else: no two users that are connected share one.  The round robin
\* looks at the fd alone, entries leave and come back by five paths.
ConnectedApart ==
  \A k, l \in DOMAIN sock :
    k # l /\ FaceOf(k) = FaceOf(l) => \E x \in {k, l} : x \in TcpPeers \ Open

\* The routes as the operator sees them: by host.  A host is reached through a
\* face while it has an entry, and nobody else has the same Face-ID.
Named(h) == h \in DOMAIN sock /\ \A k \in DOMAIN sock : FaceOf(k) = FaceOf(h) => k = h
routesBar ==
  {r \in Uris \X Peers \X Owners :
     Named(r[2]) /\ \E i \in At(fib[r[1]], FaceOf(r[2])) : r[3] \in fib[r[1]][i].owners}

Table == INSTANCE RouteTable WITH routes <- routesBar, Hosts <- Peers, Losable <- TcpPeers

\* Routes whose owners have hosts of their own behave as a table of routes by
\* host: closing faces that age, break or lose a route elsewhere never takes a
\* route with it, nor turns one to another host.
IsRouteTable == Table!TableSpec
=============================================================================
