------------------------------- MODULE Names -------------------------------
(***************************************************************************)
(* The two notations of a name and the conversions between them           *)
(* (cef_frame.c).  On the wire a name is a sequence of TLVs [t, v], v a    *)
(* sequence of bytes.  A URI is "ccnx:/" followed by the segments between  *)
(* its slashes, each [k, t, v]: k the prefix it is written with ("plain"   *)
(* none, "name" NAME=, "app" App:t=, "chunk" Chunk=, "hex" 0xtttt=) and v  *)
(* the characters behind it, so that 0x41 is the text <<48,120,52,49>>.    *)
(* An empty "plain" segment is a double or a trailing slash.  No value     *)
(* holds a slash: UriToName, which makes every name the programs start     *)
(* from, refuses one.                                                      *)
(***************************************************************************)
EXTENDS Integers, Sequences, SequencesExt

NameSegment == 1                         \* CefC_T_NAMESEGMENT
Chunk == 4                               \* CefC_T_CHUNK
AppMin == 4096                           \* CefC_T_APP_MIN
AppMax == 8191                           \* CefC_T_APP_MAX

Failed == <<[t |-> 0, v |-> <<>>]>>      \* a conversion returned -1
Root == <<[t |-> NameSegment, v |-> <<>>]>>

AllIn(v, S) == \A i \in DOMAIN v : v[i] \in S

\* What a URI may hold, what isprint() accepts, what isxdigit() accepts.
Digits == 48 .. 57
Allowed == Digits \cup (65 .. 90) \cup (97 .. 122) \cup {37, 38, 45, 46, 47, 63, 95, 126}
Printable == 32 .. 126
HexDigits == Digits \cup (65 .. 70) \cup (97 .. 102)

(***************************************************************************)
(* Numbers.  Leading(v) is the value of the decimal digits a text begins   *)
(* with (atoi), BytesOf(n) the shortest big-endian form of n, NumberOf(v)  *)
(* the number the bytes v stand for.                                       *)
(***************************************************************************)
Leading(v) ==
    LET step(acc, c) == IF acc.open /\ c \in Digits THEN [acc EXCEPT !.n = (10 * @) + (c - 48)]
                                                    ELSE [acc EXCEPT !.open = FALSE]
    IN FoldLeft(step, [n |-> 0, open |-> TRUE], v).n

BytesOf(n) ==
    CASE n < 256 -> <<n>>
      [] n \in 256 .. 65535 -> <<n \div 256, n % 256>>
      [] OTHER -> <<n \div 65536, (n \div 256) % 256, n % 256>>

NumberOf(v) == FoldLeft(LAMBDA acc, b : (acc * 256) + b, 0, v)

\* A byte as two hexadecimal characters, and back.
Hex(b) == LET digit(n) == IF n < 10 THEN 48 + n ELSE 87 + n
          IN <<digit(b \div 16), digit(b % 16)>>
Unhex(c) == CASE c \in Digits -> c - 48 [] c \in 65 .. 70 -> c - 55 [] OTHER -> c - 87

IsHexText(v) == Len(v) >= 2 /\ v[1] = 48 /\ v[2] = 120
HexText(v) == <<48, 120>> \o FlattenSeq([i \in DOMAIN v |-> Hex(v[i])])
Unquoted(v) == SelectSeq(v, LAMBDA c : c # 34)

(***************************************************************************)
(* cef_frame_input_uri_pre_check2: which URIs are accepted at all, one     *)
(* rule per kind of segment.  "Bare" is a prefix with nothing behind it.   *)
(***************************************************************************)
Bare(u, i) == i = 1 /\ u[i].v = <<>>

PreStart(u) == Len(u) > 1 => ~(u[1].k = "plain" /\ u[1].v = <<>>)
PreName(u, i) == u[i].k = "name" => ~Bare(u, i)
PreChunk(u, i) == u[i].k = "chunk" =>
    /\ i # 1
    /\ u[i].v # <<>> /\ AllIn(u[i].v, Digits)
    /\ \A j \in 1 .. i - 1 : u[j].k # "chunk"
PreApp(u, i) == u[i].k = "app" => u[i].t \in 0 .. 4095 /\ ~Bare(u, i)
PreHex(u, i) == u[i].k = "hex" => ~Bare(u, i)

\* Nothing may follow a chunk, not even a slash.
IsChunk(s) == s.k = "chunk" \/ (s.k = "hex" /\ s.t = Chunk)
PreSlash(u, i) == IsChunk(u[i]) => i = Len(u)

PreCheck(u) ==
    /\ PreStart(u)
    /\ \A i \in DOMAIN u : /\ PreName(u, i) /\ PreChunk(u, i) /\ PreApp(u, i)
                           /\ PreHex(u, i) /\ PreSlash(u, i)

(***************************************************************************)
(* cef_frame_conversion_uri_to_name.  A value written as 0x... is turned   *)
(* into its bytes; the prefix says the type of the TLV; a chunk is the     *)
(* number its digits say.  A chunk written as 0x0004=0x... is taken for a  *)
(* name segment: the branch for 0x values does not know chunk_f.           *)
(***************************************************************************)
TextReads(v) == AllIn(v, Allowed)

HexReads(v) ==
    LET d == SubSeq(v, 3, Len(v))
    IN /\ Len(d) >= 2 /\ Len(d) % 2 = 0
       /\ AllIn(d, HexDigits)
       /\ \A i \in 1 .. Len(d) \div 2 : (Unhex(d[(2 * i) - 1]) * 16) + Unhex(d[2 * i]) # 47

SegmentReads(s) == TextReads(s.v) /\ (IsHexText(s.v) => HexReads(s.v))

AppType(s) == AppMin + s.t
HexType(s) == IF s.t = Chunk /\ s.v # <<>> THEN NameSegment ELSE s.t

TextTlv(s) ==
    CASE s.k = "app" -> [t |-> AppType(s), v |-> s.v]
      [] IsChunk(s) /\ s.v # <<>> -> [t |-> Chunk, v |-> BytesOf(Leading(s.v))]
      [] s.k = "hex" -> [t |-> s.t, v |-> s.v]
      [] OTHER -> [t |-> NameSegment, v |-> s.v]

HexTlv(s) ==
    [t |-> CASE s.k = "app" -> AppType(s) [] s.k = "hex" -> HexType(s) [] OTHER -> NameSegment,
     v |-> [i \in 1 .. (Len(s.v) - 2) \div 2 |-> (Unhex(s.v[(2 * i) + 1]) * 16) + Unhex(s.v[(2 * i) + 2])]]

UriToName(uri) ==
    LET u == [i \in DOMAIN uri |-> [uri[i] EXCEPT !.v = Unquoted(@)]]
    IN IF ~PreCheck(u) \/ \E i \in DOMAIN u : ~SegmentReads(u[i]) THEN Failed
       ELSE IF u = <<>> \/ u = <<[k |-> "plain", t |-> 0, v |-> <<>>]>> THEN Root
       ELSE [i \in DOMAIN u |-> IF IsHexText(u[i].v) THEN HexTlv(u[i]) ELSE TextTlv(u[i])]

(***************************************************************************)
(* cef_frame_conversion_name_to_uri: text where every byte can be printed, *)
(* 0x... otherwise.  A byte that prints but may not stand in a URI comes   *)
(* out as two digits without a mark.  The slash behind the last segment is *)
(* taken away.                                                             *)
(***************************************************************************)
Prefix(t) ==
    CASE t \in AppMin .. AppMax -> [k |-> "app", t |-> t - AppMin]
      [] t = NameSegment -> [k |-> "plain", t |-> 0]
      [] OTHER -> [k |-> "hex", t |-> t]

Shown(v) ==
    IF AllIn(v, Printable)
    THEN FlattenSeq([i \in DOMAIN v |-> IF v[i] \in Allowed THEN <<v[i]>> ELSE Hex(v[i])])
    ELSE HexText(v)

NameToUri(name) ==
    IF name = Root THEN <<>>
    ELSE [i \in DOMAIN name |-> Prefix(name[i].t) @@ [v |-> Shown(name[i].v)]]

\* cef_frame_conversion_name_to_uri_without_chunknum: up to the first chunk,
\* and without any prefix.
WithoutChunk(name) ==
    LET chunks == {i \in DOMAIN name : name[i].t = Chunk}
        end == IF chunks = {} THEN Len(name) ELSE (CHOOSE i \in chunks : \A j \in chunks : i <= j) - 1
    IN IF name = Root THEN <<>>
       ELSE [i \in 1 .. end |-> [k |-> "plain", t |-> 0, v |-> Shown(name[i].v)]]

(***************************************************************************)
(* Lengths.  LengthOf counts the bytes of a name on the wire, and          *)
(* SegmentsLength those of everything but its chunks                       *)
(* (cef_frame_get_len_total_namesegments).                                 *)
(***************************************************************************)
TlvLength(tlv) == 4 + Len(tlv.v)
LengthOf(name) == FoldLeft(LAMBDA n, tlv : n + TlvLength(tlv), 0, name)
SegmentsLength(name) == LengthOf(SelectSeq(name, LAMBDA tlv : tlv.t # Chunk))

(***************************************************************************)
(* cef_frame_get_name_without_chunkno: where the first chunk of a name     *)
(* begins (0 if there is none) and its number, of which the code always    *)
(* reads four bytes.                                                       *)
(***************************************************************************)
ChunkOffset(name) ==
    LET chunks == {i \in DOMAIN name : name[i].t = Chunk}
    IN IF chunks = {} THEN 0
       ELSE LengthOf(SubSeq(name, 1, (CHOOSE i \in chunks : \A j \in chunks : i <= j) - 1))
============================================================================
