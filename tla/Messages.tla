------------------------------ MODULE Messages ------------------------------
(***************************************************************************)
(* How cef_frame.c builds an Interest or an Object from what an            *)
(* application says, how it reads one back, and how it rewrites one on its *)
(* way.  A message is the record                                           *)
(*   [pt, hop, hdr_len, pkt_len]  the fixed header as it is stored,        *)
(*   opts, body, tail             the TLVs of the option header, of the    *)
(*                                CCN message and of the trailer,          *)
(* every TLV [t, n, v] with its real type code and the length n of its     *)
(* value.  T_ORG fields hold words: a word has a length of its own only if *)
(* the high bit of its type is set.                                        *)
(*                                                                         *)
(* What an application says is a record                                    *)
(*   [kind, name, chunk, hop, life, reg, num, cachetime, expiry, last,     *)
(*    payload, hw, stamp, tp, flags, keyid, hash, alg]                     *)
(* with None for what it leaves out; times are in microseconds where the   *)
(* structures of the code have them so.                                    *)
(***************************************************************************)
EXTENDS Names, FiniteSets

CONSTANTS
    NameMax,                             \* CefC_NAME_MAXLEN
    HeaderMax,                           \* CefC_Max_Header_Size
    KeyLen                               \* length of the default key, 0 if there is none

ASSUME MessagesAssumption ==
    /\ NameMax \in Nat \ {0} /\ HeaderMax \in 8 .. 255
    /\ KeyLen \in Nat

None == -1

\* Type codes.
T_NAME == 0
T_PAYLOAD == 1
T_KEYIDRESTR == 2
T_OBJHASHRESTR == 3
T_EXPIRY == 6
T_ENDCHUNK == 7
T_ORG == 4095
T_INTLIFE == 1
T_CACHETIME == 2
T_USER == 4096
T_INTEREST == 1
T_OBJECT == 2
T_ALG == 3
T_SIG == 4
CRC32C == 2
RSA_SHA256 == 5
HW_FLAGS == 1280
HW_TIMESTAMP == 34305
TRANSPORT == 32772
SEQNUM == 32773

Tlv(t, n, v) == [t |-> t, n |-> n, v |-> v]
Total(tlvs) == FoldLeft(LAMBDA n, x : n + 4 + x.n, 0, tlvs)
WordLength(w) == IF w.t >= 32768 THEN 4 + w.n ELSE 2
Words(ws) == FoldLeft(LAMBDA n, w : n + WordLength(w), 0, ws)

\* The lengths that a message really has, whatever its header says.
HeaderLength(m) == 8 + Total(m.opts)
BodyLength(m) == 4 + Total(m.body)
Length(m) == HeaderLength(m) + BodyLength(m) + Total(m.tail)

UsToMs(t) == t \div 1000
MsToUs(t) == t * 1000
Milliseconds(t) == MsToUs(UsToMs(t))

(***************************************************************************)
(* The two T_ORG fields.  An application keeps what was built in org_val   *)
(* and the next message made from the same structure is given it again,    *)
(* whatever its flags say by then: `cached` is that field, <<>> if it was  *)
(* not built yet.                                                          *)
(***************************************************************************)
NoTransport == [variant |-> 0, len |-> 0]
HdrOrg(s, seqnum) ==
    (IF s.hw = None THEN <<>>
     ELSE <<Tlv(HW_FLAGS + s.hw, 0, None)>>
          \o (IF s.stamp = 0 THEN <<>> ELSE <<Tlv(HW_TIMESTAMP, s.stamp, None)>>))
    \o (IF s.tp = NoTransport THEN <<>> ELSE <<Tlv(TRANSPORT, 4 + s.tp.len, s.tp)>>)
    \o (IF seqnum THEN <<Tlv(SEQNUM, 4, 0)>> ELSE <<>>)

MsgOrg(s) == SetToSortSeq({Tlv(f, 0, None) : f \in s.flags}, LAMBDA a, b : a.t < b.t)

HdrOrgWords(s, cached, seqnum) ==
    IF cached # <<>> THEN cached
    ELSE IF s.hw # None \/ s.tp # NoTransport THEN HdrOrg(s, seqnum) ELSE <<>>
MsgOrgWords(s, cached) == IF cached # <<>> THEN cached ELSE MsgOrg(s)

OrgTlv(ws) == IF ws = <<>> THEN <<>> ELSE <<Tlv(T_ORG, 3 + Words(ws), ws)>>

(***************************************************************************)
(* Creation (cef_frame_interest_create, cef_frame_object_create).  An      *)
(* option header that is too large is left out altogether.                 *)
(***************************************************************************)
LifetimeTlv(s) ==
    CASE s.life = None -> <<>>
      [] s.life = 0 -> <<Tlv(T_INTLIFE, 1, 0)>>
      [] OTHER -> <<Tlv(T_INTLIFE, 2, s.life)>>

RegistrationTlv(s) ==
    CASE s.reg = "none" -> <<>>
      [] s.reg \notin {"none", "dev"} -> <<Tlv(T_USER, 4, <<s.reg>>)>>
      [] OTHER -> <<Tlv(T_USER, 20, <<s.reg, s.num, UsToMs(s.cachetime)>>)>>

CacheTimeTlv(s) == IF s.cachetime = None THEN <<>> ELSE <<Tlv(T_CACHETIME, 8, UsToMs(s.cachetime))>>

Fitting(opts) == IF 8 + Total(opts) > HeaderMax THEN <<>> ELSE opts

InterestOptions(s, org) == Fitting(OrgTlv(org) \o LifetimeTlv(s) \o RegistrationTlv(s))
ObjectOptions(s, org) == Fitting(OrgTlv(org) \o CacheTimeTlv(s))

ChunkTlv(n) == IF n = None THEN <<>> ELSE <<[t |-> Chunk, v |-> BytesOf(n)]>>
NameTlv(s) == LET name == s.name \o ChunkTlv(s.chunk) IN Tlv(T_NAME, LengthOf(name), name)
PayloadTlv(s) == IF s.payload = 0 THEN <<>> ELSE <<Tlv(T_PAYLOAD, s.payload, s.payload)>>
RestrictionTlv(t, v) == IF v = None THEN <<>> ELSE <<Tlv(t, 36, v)>>
EndChunkTlv(s) == IF s.last = None THEN <<>> ELSE <<Tlv(T_ENDCHUNK, Len(BytesOf(s.last)), BytesOf(s.last))>>

InterestBody(s, org) ==
    <<NameTlv(s)>> \o PayloadTlv(s)
    \o RestrictionTlv(T_KEYIDRESTR, s.keyid) \o RestrictionTlv(T_OBJHASHRESTR, s.hash)
    \o OrgTlv(org)
ObjectBody(s, org) ==
    <<NameTlv(s), Tlv(T_EXPIRY, 8, UsToMs(s.expiry))>> \o EndChunkTlv(s) \o OrgTlv(org) \o PayloadTlv(s)

(***************************************************************************)
(* Validation.  The algorithm TLV is made only if there is a key; what is  *)
(* signed is the CCN message with that TLV, and an ideal code or signature *)
(* is what it was made from.                                               *)
(***************************************************************************)
AlgTlv(s) ==
    CASE s.alg = "crc" -> <<Tlv(T_ALG, 4, [alg |-> CRC32C, key |-> 0])>>
      [] s.alg = "rsa" /\ KeyLen > 0 -> <<Tlv(T_ALG, 44 + KeyLen, [alg |-> RSA_SHA256, key |-> KeyLen])>>
      [] OTHER -> <<>>

Signed(top, body, alg) == [top |-> top, body |-> body, alg |-> alg]
SigTlv(s, top, body, alg) ==
    IF alg = <<>> THEN <<>>
    ELSE <<Tlv(T_SIG, IF s.alg = "crc" THEN 4 ELSE 256, Signed(top, body, alg))>>
Trailer(s, top, body) == AlgTlv(s) \o SigTlv(s, top, body, AlgTlv(s))

CanCreate(s) == LengthOf(s.name) \in 5 .. NameMax

Assembled(pt, hop, opts, body, tail) ==
    LET m == [pt |-> pt, hop |-> hop, opts |-> opts, body |-> body, tail |-> tail]
    IN [hdr_len |-> HeaderLength(m) % 256, pkt_len |-> Length(m) % 65536] @@ m

Create(s, hdr, msg) ==
    IF s.kind = "interest"
    THEN Assembled(0, s.hop, InterestOptions(s, hdr), InterestBody(s, msg),
                   Trailer(s, T_INTEREST, InterestBody(s, msg)))
    ELSE Assembled(1, 0, ObjectOptions(s, hdr), ObjectBody(s, msg),
                   Trailer(s, T_OBJECT, ObjectBody(s, msg)))

\* cef_frame_interest_return_create.
InterestReturn(m, code) == [m EXCEPT !.pt = 2] @@ [code |-> code]

(***************************************************************************)
(* Reading a message back (cef_frame_message_parse).  What is read has the *)
(* fields of what is said; TLVs that are not known are passed over.  A     *)
(* lifetime that is not two bytes long is 0; the chunks of the name become *)
(* one number and one TLV of four bytes; no CRC is known as an algorithm.  *)
(***************************************************************************)
Find(tlvs, t) == SelectSeq(tlvs, LAMBDA x : x.t = t)
FirstOf(tlvs, t, default) == IF Find(tlvs, t) = <<>> THEN default ELSE Find(tlvs, t)[1].v

ReadLife(m) ==
    LET f == Find(m.opts, T_INTLIFE)
    IN IF f = <<>> THEN None ELSE IF f[1].n # 2 THEN 0 ELSE f[1].v

ReadRegistration(m) == LET u == FirstOf(m.opts, T_USER, <<>>) IN IF u = <<>> THEN "none" ELSE u[1]
ReadNumber(m) == LET u == FirstOf(m.opts, T_USER, <<>>) IN IF Len(u) < 3 THEN None ELSE u[2]

ReadCacheTime(m) ==
    LET u == FirstOf(m.opts, T_USER, <<>>)
        c == FirstOf(m.opts, T_CACHETIME, None)
    IN IF Len(u) = 3 THEN MsToUs(u[3]) ELSE IF c = None THEN None ELSE MsToUs(c)

HdrWords(m) == FirstOf(m.opts, T_ORG, <<>>)
IsHwFlags(w) == w.t \in {HW_FLAGS, HW_FLAGS + 1, HW_FLAGS + 16, HW_FLAGS + 17}

ReadHw(m) ==
    LET f == SelectSeq(HdrWords(m), IsHwFlags) IN IF f = <<>> THEN None ELSE f[1].t - HW_FLAGS
ReadStamp(m) ==
    LET f == Find(HdrWords(m), HW_TIMESTAMP) IN IF f = <<>> THEN 0 ELSE IF f[1].n > 8 THEN 16 ELSE 8
ReadTransport(m) ==
    LET tp == FirstOf(HdrWords(m), TRANSPORT, NoTransport) IN IF tp.variant < 6 THEN tp ELSE NoTransport
ReadSeqnum(m) == FirstOf(HdrWords(m), SEQNUM, None)

NameOf(m) == FirstOf(m.body, T_NAME, <<>>)
Chunks(name) == Find(name, Chunk)
ChunkOf(name) == IF Chunks(name) = <<>> THEN None ELSE NumberOf(Chunks(name)[Len(Chunks(name))].v)

\* Every number is written in the four bytes of CefC_S_ChunkNum.
FourBytes(n) == [i \in 1 .. 4 - Len(BytesOf(n)) |-> 0] \o BytesOf(n)
Normal(name) ==
    SelectSeq(name, LAMBDA tlv : tlv.t # Chunk)
    \o (IF ChunkOf(name) = None THEN <<>> ELSE <<[t |-> Chunk, v |-> FourBytes(ChunkOf(name))]>>)

ReadFlags(m) == {w.t : w \in {u \in ToSet(FirstOf(m.body, T_ORG, <<>>)) : u.t \in {1, 2}}}
ReadEndChunk(m) == LET v == FirstOf(m.body, T_ENDCHUNK, <<>>) IN IF v = <<>> THEN None ELSE NumberOf(v)
ReadAlgorithm(m) ==
    LET a == FirstOf(m.tail, T_ALG, [alg |-> 0, key |-> 0])
    IN IF a.alg = RSA_SHA256 THEN [alg |-> a.alg, key |-> IF a.key < 512 THEN a.key ELSE 0]
       ELSE [alg |-> 0, key |-> 0]

\* The header says how long the message is.
TrueLengths(m) == m.hdr_len = HeaderLength(m) /\ m.pkt_len = Length(m)
Readable(m) == TrueLengths(m) /\ LengthOf(Normal(NameOf(m))) <= NameMax

Read(m) ==
    [pt |-> m.pt, hop |-> m.hop, name |-> Normal(NameOf(m)), chunk |-> ChunkOf(NameOf(m)),
     life |-> ReadLife(m), reg |-> ReadRegistration(m), num |-> ReadNumber(m),
     cachetime |-> ReadCacheTime(m), expiry |-> MsToUs(FirstOf(m.body, T_EXPIRY, 0)),
     last |-> ReadEndChunk(m), payload |-> FirstOf(m.body, T_PAYLOAD, 0),
     hw |-> ReadHw(m), stamp |-> ReadStamp(m), tp |-> ReadTransport(m), seqnum |-> ReadSeqnum(m),
     flags |-> ReadFlags(m), keyid |-> FirstOf(m.body, T_KEYIDRESTR, None),
     hash |-> FirstOf(m.body, T_OBJHASHRESTR, None), alg |-> ReadAlgorithm(m)]

(***************************************************************************)
(* cef_valid_msg_verify: 0 without a trailer; an algorithm without a       *)
(* payload behind it, or a code that does not belong to the message,       *)
(* fails.  A signature is checked with the key the message brings along.   *)
(***************************************************************************)
Verifies(m) ==
    \/ m.tail = <<>>
    \/ /\ Len(m.tail) = 2
       /\ m.tail[2].v = Signed(IF m.pt = 1 THEN T_OBJECT ELSE T_INTEREST, m.body, <<m.tail[1]>>)
       /\ m.tail[1].v.alg = CRC32C => m.tail[1].n = 4 /\ m.tail[2].n = 4

(***************************************************************************)
(* cef_frame_seqence_update makes the copy of an Object that is sent to a  *)
(* face: with the option in use it carries the face's sequence number,     *)
(* without it the number is taken out if the T_ORG field holds anything    *)
(* else; that last case shortens the lengths of the original as well,      *)
(* which keeps its bytes.                                                  *)
(***************************************************************************)
OrgAt(m) == CHOOSE i \in DOMAIN m.opts : m.opts[i].t = T_ORG
HasOrg(m) == Find(m.opts, T_ORG) # <<>>
HasSeqnum(m) == HasOrg(m) /\ Find(HdrWords(m), SEQNUM) # <<>>
HasOther(m) == HasOrg(m) /\ \E w \in ToSet(HdrWords(m)) : w.t # SEQNUM

Longer(m, n) == [m EXCEPT !.hdr_len = (@ + n) % 256, !.pkt_len = (@ + n) % 65536]
WithOrg(m, ws) == [m EXCEPT !.opts[OrgAt(m)] = Tlv(T_ORG, 3 + Words(ws), ws)]

Numbered(m, n) ==
    CASE HasSeqnum(m) ->
           WithOrg(m, [i \in DOMAIN HdrWords(m) |->
                         IF HdrWords(m)[i].t = SEQNUM THEN Tlv(SEQNUM, 4, n) ELSE HdrWords(m)[i]])
      [] HasOrg(m) /\ ~HasSeqnum(m) ->
           Longer(WithOrg(m, Append(HdrWords(m), Tlv(SEQNUM, 4, n))), 8)
      [] OTHER ->
           Longer([m EXCEPT !.opts = @ \o OrgTlv(<<Tlv(SEQNUM, 4, n)>>)], 15)

Stripped(m) == Longer(WithOrg(m, SelectSeq(HdrWords(m), LAMBDA w : w.t # SEQNUM)), -8)

Sent(m, n, seqnum) ==
    IF seqnum THEN Numbered(m, n) ELSE IF HasSeqnum(m) /\ HasOther(m) THEN Stripped(m) ELSE m
Left(m, seqnum) ==
    IF ~seqnum /\ HasSeqnum(m) /\ HasOther(m) THEN Longer(m, -8) ELSE m

\* cef_frame_opheader_cachetime_update: a cache rewrites the time in place.
Recached(m, t) ==
    [m EXCEPT !.opts = [i \in DOMAIN m.opts |->
        IF m.opts[i].t = T_CACHETIME THEN [m.opts[i] EXCEPT !.v = UsToMs(t)] ELSE m.opts[i]]]
=============================================================================
