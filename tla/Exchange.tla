------------------------------ MODULE Exchange ------------------------------
(***************************************************************************)
(* Messages on their way from an application through cefnetd to the faces  *)
(* behind it: the client library makes them and writes them to the socket  *)
(* (cef_client.c), cefnetd cuts the stream into messages again             *)
(* (cefnetd_messege_head_seek), reads, checks and hands them to the        *)
(* forwarding strategy plugin, and whoever is at a face reads its copy.    *)
(*                                                                         *)
(* The stream and cefnetd's receive buffer hold spans [k, from, n]: n      *)
(* bytes of the k-th message from its byte `from` on (counted from 0).  A  *)
(* read may end at any byte, of which those in Cuts stand for all others;  *)
(* no part of a message that is not its beginning looks like a header.     *)
(***************************************************************************)
EXTENDS Messages

CONSTANTS
    Scenarios,                           \* what is said over which node
    SeqMax                               \* a face's sequence number stays below this

VARIABLES
    sc,                                  \* the scenario
    todo,                                \* how many messages are still to be said
    cache,                               \* the org_val fields of the application's structures
    made,                                \* the messages made so far, as [s, m]
    sent,                                \* how many of them were written to the socket
    gaveUp,                              \* the messages the library gave up in the middle of
    stream, buf,                         \* spans in the socket and in rcvbuf
    handed,                              \* the messages handed to their handlers, in order
    lost,                                \* the messages lost to stale bytes
    strange,                             \* a message handed on was no message that was said
    job,                                 \* the message being forwarded, the faces still to serve
    seqs,                                \* each face's next sequence number
    registered,                          \* the names the application registered
    wire,                                \* per face: copies on their way, as [k, m]
    got                                  \* the copy that was read last, as [k, face, m], or NoCopy

talk == <<sc, todo, cache, made, sent, gaveUp, stream, buf, handed, lost, strange, job, seqs,
          registered, wire, got>>

NoJob == [k |-> 0, faces |-> <<>>]
NoCopy == [k |-> 0]
\* The faces a node has
Faces == {sc.fib[i].face : i \in DOMAIN sc.fib} \cup ToSet(sc.down)

Bytes(spans) == FoldLeft(LAMBDA n, s : n + s.n, 0, spans)
Message(k) == made[k].m

TalkInit ==
    /\ sc \in Scenarios
    /\ todo = Len(sc.say)
    /\ cache = [hdr |-> <<>>, msg |-> <<>>]
    /\ made = <<>> /\ sent = 0 /\ gaveUp = {}
    /\ stream = <<>> /\ buf = <<>>
    /\ handed = <<>> /\ lost = {} /\ strange = FALSE
    /\ job = NoJob
    /\ seqs = [f \in Faces |-> 0]
    /\ registered = {}
    /\ wire = [f \in Faces |-> <<>>]
    /\ got = NoCopy

(***************************************************************************)
(* The application.  It turns the URI into a name and fills in its         *)
(* structures; a name that cannot be made or sent ends that attempt        *)
(* (cef_client_interest_input, cef_client_object_input).  A sender may     *)
(* also be a cefnetd that numbers its Objects.                             *)
(***************************************************************************)
Saying == sc.say[Len(sc.say) - todo + 1]
Named(s) == [name |-> UriToName(s.uri)] @@ s

Make ==
    /\ todo > 0 /\ sent = Len(made)
    /\ todo' = todo - 1
    /\ LET s == Named(Saying)
           hdr == HdrOrgWords(s, cache.hdr, sc.numbered)
           msg == MsgOrgWords(s, cache.msg)
       IN IF s.name # Failed /\ CanCreate(s)
          THEN /\ made' = Append(made, [s |-> s, m |-> Sent(Create(s, hdr, msg), 0,
                                                           sc.numbered /\ s.kind = "object")])
               /\ cache' = [hdr |-> hdr, msg |-> msg]
          ELSE UNCHANGED <<made, cache>>
    /\ UNCHANGED <<sc, sent, gaveUp, stream, buf, handed, lost, strange, job, seqs, registered, wire, got>>

WriteBad ==
    /\ sent < Len(made)
    /\ sent' = sent + 1
    /\ stream' = Append(stream, [k |-> sent + 1, from |-> 0, n |-> Message(sent + 1).pkt_len - 1])
    /\ UNCHANGED <<sc, todo, cache, made, gaveUp, buf, handed, lost, strange, job, seqs, registered, wire, got>>

\* The message goes into the socket as a whole ...
Write ==
    /\ sent < Len(made)
    /\ sent' = sent + 1
    /\ stream' = Append(stream, [k |-> sent + 1, from |-> 0, n |-> Message(sent + 1).pkt_len])
    /\ UNCHANGED <<sc, todo, cache, made, gaveUp, buf, handed, lost, strange, job, seqs, registered, wire, got>>

\* Where a read or a write may end: in the fixed header, in the first TLV, in
\* the header of a TLV behind it, at the end.
TailAt(m) == HeaderLength(m) + BodyLength(m)
Ends(m) == {9, m.hdr_len + 6}
           \cup (IF m.tail = <<>> THEN {} ELSE {TailAt(m) + 2, TailAt(m) + 4 + m.tail[1].n + 2})
Cuts(m) == (Ends(m) \cap 9 .. m.pkt_len) \cup {m.pkt_len}

\* ... or the library finds the socket full 30 times and leaves it at that.
GiveUp ==
    /\ sc.full
    /\ sent < Len(made)
    /\ \E c \in Cuts(Message(sent + 1)) \ {Message(sent + 1).pkt_len} :
           stream' = Append(stream, [k |-> sent + 1, from |-> 0, n |-> c])
    /\ sent' = sent + 1
    /\ gaveUp' = gaveUp \cup {sent + 1}
    /\ UNCHANGED <<sc, todo, cache, made, buf, handed, lost, strange, job, seqs, registered, wire, got>>

(***************************************************************************)
(* cefnetd_messege_head_seek, on what rcvbuf holds.                        *)
(***************************************************************************)
First == Message(buf[1].k)
Aligned == buf[1].from = 0
Ready == buf # <<>> /\ Bytes(buf) > 8
Complete == Aligned /\ Bytes(buf) >= First.pkt_len

\* The first n bytes of the buffer, and what is behind them.
Upto(n) == {i \in DOMAIN buf : Bytes(SubSeq(buf, 1, i - 1)) < n}
Behind(n) ==
    LET i == Cardinality(Upto(n))
        over == Bytes(SubSeq(buf, 1, i)) - n
    IN (IF over > 0 THEN <<[k |-> buf[i].k, from |-> buf[i].from + buf[i].n - over, n |-> over]>> ELSE <<>>)
       \o SubSeq(buf, i + 1, Len(buf))

Pure == \A i \in Upto(First.pkt_len) : buf[i].k = buf[1].k
\* All TLV headers of the first message are its own.
HeadersEnd(m) == IF m.tail = <<>> THEN 0 ELSE TailAt(m) + 8 + m.tail[1].n
HeadersIn == Bytes(SelectSeq(buf, LAMBDA s : s.k = buf[1].k)) >= HeadersEnd(First)

\* The header of a TLV behind the first one is there in part only: the rest
\* is read from what the buffer held before.
PartHeader ==
    /\ Aligned /\ First.tail # <<>>
    /\ \E at \in {TailAt(First), TailAt(First) + 4 + First.tail[1].n} : Bytes(buf) \in at + 1 .. at + 3

Beginnings == {i \in 2 .. Len(buf) : buf[i].from = 0}
NextBeginning ==
    IF Beginnings = {} THEN <<>>
    ELSE SubSeq(buf, CHOOSE i \in Beginnings : \A j \in Beginnings : i <= j, Len(buf))

CanSeek == Ready /\ (~Aligned \/ Complete)
Idle == job = NoJob

Join(s, span) ==
    IF s # <<>> /\ s[Len(s)].k = span.k /\ s[Len(s)].from + s[Len(s)].n = span.from
    THEN [s EXCEPT ![Len(s)].n = @ + span.n] ELSE Append(s, span)

\* cefnetd_input_message_process puts what it got behind what it has.
ReadSocket ==
    /\ stream # <<>> /\ Idle /\ ~CanSeek
    /\ LET s == stream[1]
       IN \E c \in (Cuts(Message(s.k)) \cap s.from + 1 .. s.from + s.n) \cup {s.from + s.n} :
            /\ buf' = Join(buf, [s EXCEPT !.n = c - s.from])
            /\ stream' = IF c = s.from + s.n THEN SubSeq(stream, 2, Len(stream))
                         ELSE [stream EXCEPT ![1] = [@ EXCEPT !.from = c, !.n = s.from + s.n - c]]
    /\ UNCHANGED <<sc, todo, cache, made, sent, gaveUp, handed, lost, strange, job, seqs, registered, wire, got>>

\* Not at the beginning of a message: on to the next beginning.
Resync ==
    /\ Ready /\ Idle
    /\ ~Aligned \/ (Complete /\ ~Pure /\ ~HeadersIn)
    /\ buf' = NextBeginning
    /\ UNCHANGED <<sc, todo, cache, made, sent, gaveUp, stream, handed, lost, strange, job, seqs, registered, wire, got>>

\* The stale bytes behind half a TLV header make no valid type.
ReadStale ==
    /\ Ready /\ Idle /\ PartHeader
    /\ lost' = lost \cup {buf[1].k}
    /\ buf' = <<>>
    /\ UNCHANGED <<sc, todo, cache, made, sent, gaveUp, stream, handed, strange, job, seqs, registered, wire, got>>

\* Bytes of the next message stand in for the ones that were never written.
TakeStrange ==
    /\ Ready /\ Idle /\ Complete /\ ~Pure /\ HeadersIn
    /\ strange' = TRUE
    /\ buf' = Behind(First.pkt_len)
    /\ UNCHANGED <<sc, todo, cache, made, sent, gaveUp, stream, handed, lost, job, seqs, registered, wire, got>>

(***************************************************************************)
(* The strategy plugins.  An Interest goes to the active faces of the FIB  *)
(* entry that are not the one it came from, those of the incoming face's   *)
(* type if there are any: to the first of the lowest cost, or to all.      *)
(***************************************************************************)
Active == SelectSeq(sc.fib, LAMBDA f : f.active)
SameType == SelectSeq(Active, LAMBDA f : f.type = sc.type)
Candidates == IF SameType # <<>> THEN SameType ELSE Active

Lowest(fs) ==
    LET best == CHOOSE i \in DOMAIN fs : /\ \A j \in DOMAIN fs : fs[i].cost <= fs[j].cost
                                         /\ \A j \in 1 .. i - 1 : fs[i].cost < fs[j].cost
    IN <<fs[best]>>

InterestFaces ==
    LET chosen == IF Candidates # <<>> /\ sc.strategy = "shortest" THEN Lowest(Candidates) ELSE Candidates
    IN [i \in DOMAIN chosen |-> chosen[i].face]

\* An Object goes to every face that is pending for it.
ObjectFaces == sc.down

(***************************************************************************)
(* The handlers: a message that cannot be read or does not verify is       *)
(* dropped, a registration is taken down, everything else is forwarded, an *)
(* Interest only if it may make another hop.  (Scenarios say no other kind *)
(* of registration.)                                                       *)
(***************************************************************************)
Accepted(m) == Readable(m) /\ Verifies(m)

Handle(k) ==
    LET m == Message(k)
        r == Read(m)
    IN CASE ~Accepted(m) -> UNCHANGED <<job, registered>>
         [] Accepted(m) /\ r.reg \in {"reg", "reg_p"} ->
              registered' = registered \cup {[name |-> r.name, reg |-> r.reg]} /\ UNCHANGED job
         [] Accepted(m) /\ r.reg = "dereg" ->
              registered' = {x \in registered : x.name # r.name} /\ UNCHANGED job
         [] OTHER ->
              /\ r.reg = "none"
              /\ job' = IF m.pt = 1 THEN [k |-> k, faces |-> ObjectFaces, m |-> m]
                        ELSE IF m.hop <= 1 THEN NoJob
                        ELSE [k |-> k, faces |-> InterestFaces, m |-> [m EXCEPT !.hop = @ - 1]]
              /\ UNCHANGED registered

Take ==
    /\ Ready /\ Idle /\ Complete /\ Pure
    /\ buf' = Behind(First.pkt_len)
    /\ handed' = Append(handed, buf[1].k)
    /\ Handle(buf[1].k)
    /\ UNCHANGED <<sc, todo, cache, made, sent, gaveUp, stream, lost, strange, seqs, wire, got>>

(***************************************************************************)
(* Sending to the next face.  shortest_path numbers each copy it queues,   *)
(* and with the option in use the transmit thread numbers it again, so a   *)
(* face's numbers go up by two; flooding leaves it to the transmit thread. *)
(***************************************************************************)
Copy(m, f) ==
    IF sc.strategy = "shortest"
    THEN LET once == Sent(m, seqs[f], sc.seqnum)
         IN IF sc.seqnum THEN Sent(once, seqs[f] + 1, TRUE) ELSE once
    ELSE IF sc.seqnum THEN Sent(m, seqs[f], TRUE) ELSE m

DrawnBad == 0
Drawn == (IF sc.strategy = "shortest" THEN 1 ELSE 0) + (IF sc.seqnum THEN 1 ELSE 0)

Forward ==
    /\ job.k # 0
    /\ IF job.faces = <<>> THEN job' = NoJob /\ UNCHANGED <<seqs, wire>>
       ELSE LET f == job.faces[1]
                object == job.m.pt = 1
            IN /\ seqs[f] + 2 <= SeqMax
               /\ wire' = [wire EXCEPT ![f] = Append(@,
                              [k |-> job.k, m |-> IF object THEN Copy(job.m, f) ELSE job.m])]
               /\ seqs' = [seqs EXCEPT ![f] = IF object THEN @ + Drawn ELSE @]
               /\ job' = [job EXCEPT !.faces = Tail(@),
                                     !.m = IF object /\ sc.strategy = "shortest" THEN Left(@, sc.seqnum) ELSE @]
    /\ UNCHANGED <<sc, todo, cache, made, sent, gaveUp, stream, buf, handed, lost, strange, registered, got>>

\* cef_client_payload_get_with_info and cef_client_request_get_with_info at
\* the end of a face.
Receive(f) ==
    /\ wire[f] # <<>>
    /\ got' = [face |-> f] @@ wire[f][1]
    /\ wire' = [wire EXCEPT ![f] = Tail(@)]
    /\ UNCHANGED <<sc, todo, cache, made, sent, gaveUp, stream, buf, handed, lost, strange, job, seqs, registered>>

Node == ReadSocket \/ Resync \/ ReadStale \/ TakeStrange \/ Take \/ Forward
Receivers == \E f \in Faces : Receive(f)
TalkNext == Make \/ Write \/ GiveUp \/ Node \/ Receivers

Talk == TalkInit /\ [][TalkNext]_talk

\* cefnetd keeps reading and forwarding; the receivers keep reading.
Fairness == WF_talk(Node) /\ WF_talk(Receivers)
FairSpec == Talk /\ Fairness

(***************************************************************************)
(* Properties.                                                             *)
(***************************************************************************)
Said(k) == made[k].s
SaidFlags(k) == \* org_val keeps what the first message with any flags brought
    LET f == {j \in 1 .. k : made[j].s.flags # {}}
    IN IF f = {} THEN {} ELSE made[CHOOSE j \in f : \A i \in f : j <= i].s.flags \cap {1, 2}
SaidHw(k) ==
    LET f == {j \in 1 .. k : made[j].s.hw # None \/ made[j].s.tp # NoTransport}
    IN IF f = {} THEN [hw |-> None, stamp |-> 0, tp |-> NoTransport]
       ELSE LET s == made[CHOOSE j \in f : \A i \in f : j <= i].s
            IN [hw |-> s.hw, stamp |-> IF s.hw = None THEN 0 ELSE s.stamp, tp |-> s.tp]

\* What the reader of the k-th message has to find in it: numbers and names
\* as they were said, times in milliseconds, no transport that is not known,
\* nothing of an option header that was too large.
Expected(k) ==
    LET s == Said(k)
        h == SaidHw(k)
        name == Normal(s.name \o ChunkTlv(s.chunk))
        interest == s.kind = "interest"
        gone == h.tp.len > 200
    IN [name |-> name, chunk |-> ChunkOf(name),
        life |-> IF interest /\ ~gone THEN s.life ELSE None,
        reg |-> IF interest /\ ~gone THEN s.reg ELSE "none",
        cachetime |-> IF interest \/ gone \/ s.cachetime = None THEN None ELSE Milliseconds(s.cachetime),
        expiry |-> IF interest THEN 0 ELSE Milliseconds(s.expiry),
        last |-> IF interest THEN None ELSE s.last,
        payload |-> s.payload,
        hw |-> IF gone THEN None ELSE h.hw, stamp |-> IF gone THEN 0 ELSE h.stamp,
        tp |-> IF gone \/ h.tp.variant >= 6 THEN NoTransport ELSE h.tp,
        flags |-> SaidFlags(k),
        keyid |-> IF interest THEN s.keyid ELSE None,
        hash |-> IF interest THEN s.hash ELSE None]

\* A copy of an Object whose number was taken out for another face before it.
Spoilt(k, f) ==
    /\ sc.numbered /\ ~sc.seqnum /\ sc.strategy = "shortest" /\ Said(k).kind = "object"
    /\ HasOther(Message(k)) /\ f # sc.down[1]

TalkTypeOK ==
    /\ sc \in Scenarios
    /\ todo \in 0 .. Len(sc.say)
    /\ sent \in 0 .. Len(made) /\ gaveUp \subseteq 1 .. sent
    /\ \A i \in DOMAIN buf : buf[i].k \in 1 .. sent /\ buf[i].n > 0
    /\ ToSet(handed) \subseteq 1 .. sent /\ lost \subseteq 1 .. sent
    /\ strange \in BOOLEAN
    /\ job.k \in 0 .. Len(made)
    /\ \A f \in Faces : seqs[f] \in 0 .. SeqMax

\* Every message says how long it is and keeps its code or signature, also
\* after cefnetd rewrote its header: the readers cut and check by these.
Framed ==
    /\ \A k \in DOMAIN made : TrueLengths(Message(k))
    /\ \A f \in Faces : \A i \in DOMAIN wire[f] :
         LET c == wire[f][i]
         IN Spoilt(c.k, f) \/ (TrueLengths(c.m) /\ (Said(c.k).alg # "none" => Verifies(c.m)))

\* What is read, in cefnetd and behind it, is what was said: no field is
\* lost, invented or taken from another message on the way.
SaidIsRead ==
    LET fits(k, m) == Readable(m) => LET r == Read(m)  e == Expected(k) IN \A x \in DOMAIN e : r[x] = e[x]
    IN /\ handed # <<>> => fits(handed[Len(handed)], Message(handed[Len(handed)]))
       /\ got # NoCopy /\ ~Spoilt(got.k, got.face) => Readable(got.m) /\ fits(got.k, got.m)

\* A name that is printed and read back is the same name, if its bytes may
\* stand in a URI or have to be written in hexadecimal, and its chunk prints
\* as digits (babel hands names over in this way).
Speakable(name) ==
    \A i \in DOMAIN name : LET v == name[i].v IN
        /\ AllIn(v, Allowed) => ~IsHexText(v)
        /\ AllIn(v, Printable) => AllIn(v, Allowed)
        /\ name[i].t # Chunk
SameName ==
    \A k \in DOMAIN made : Speakable(Said(k).name) => UriToName(NameToUri(Said(k).name)) = Said(k).name

\* Nothing but what was said is handed on, as long as every message is
\* written to its end: no read boundary makes a message out of two.
NoStranger == strange => gaveUp # {}

\* Messages are handed on in the order they were said, none twice.
InOrder == [][\A i \in DOMAIN handed' : i < Len(handed') => handed'[i] < handed'[i + 1]]_handed

\* The numbers a face sees go up with every Object.
NumbersGrow ==
    [][got' # got /\ got # NoCopy /\ got'.face = got.face /\ ReadSeqnum(got.m) # None /\ sc.seqnum
           /\ ReadSeqnum(got'.m) # None
       => ReadSeqnum(got'.m) > ReadSeqnum(got.m)]_got

\* Every message that was written as a whole is taken out of the stream,
\* unless one before it was given up or half a header was completed by stale
\* bytes.
Settles ==
    \A k \in 1 .. 3 : (k <= sent) ~> (k \in ToSet(handed) \cup lost \/ gaveUp # {})
=============================================================================
