------------------------------ MODULE Ccninfo ------------------------------
(***************************************************************************)
(* The path query: the tool ccninfo asks its cefnetd who has a content,    *)
(* the Request goes from node to node and takes each node's name with it,  *)
(* and the first node that knows an answer, or that must refuse one, turns *)
(* it into a Reply that goes back by the PIT entries the Request left      *)
(* (cef_netd.c, cef_forward.c, cef_frame.c, cef_valid.c, ccninfo.c).       *)
(*                                                                         *)
(* A message is the record                                                 *)
(*   [k, hop, skip, rpts, by, blk, req, code, fatal,   its contents        *)
(*    hdr, disc, pkt, sent, val,                       its lengths         *)
(*    path]                                            where it has been   *)
(* rpts the nodes that put a report block into the header, by the node of  *)
(* the reply block or Nobody, blk the reply sub-block, req whether the     *)
(* request block is still there; hdr, disc and pkt are the three lengths   *)
(* that the message states, sent how many bytes of it are sent, val what a *)
(* reader makes of its validation.  path is no part of the message: it     *)
(* remembers the nodes that handled the Request.                           *)
(***************************************************************************)
EXTENDS Integers, Sequences, FiniteSets, SequencesExt

CONSTANTS
    Scenarios,                           \* nodes, their configuration, the command line
    HeaderMax,                           \* CefC_Max_Header_Size
    ReplyMax,                            \* CCNINFO_MAX_REPLY_SIZE
    ValLen                               \* bytes of the validation TLVs

None == -1
Nobody == "nobody"
Tool == "tool"

(***************************************************************************)
(* A scenario: the command line, the algorithm of cefnetd.conf, the nodes  *)
(* with their configuration, the node of the tool, whether the tool asks   *)
(* for what only that node can tell, whether others can check what the     *)
(* tool signs, whether time runs out, and whether datagrams are lost.      *)
(***************************************************************************)
IsNode(s, n) ==
    /\ n.id \in Nat /\ n.policy \in 0 .. 2 /\ n.full \in 0 .. 2 /\ n.valid \in {"none", "crc", "rsa"}
    /\ n.app \in BOOLEAN /\ n.cached \subseteq Nat /\ n.info \in Nat \cup {None}
    /\ n.fib \in Seq([to : DOMAIN s.node, type : {"local", "tcp", "udp"}, up : BOOLEAN])
IsScenario(s) ==
    /\ \A i \in DOMAIN s.argv :
         s.argv[i].o = "name" => s.argv[i].v.len \in Nat /\ s.argv[i].v.chunk \in Nat \cup {None}
    /\ s.home \in DOMAIN s.node /\ {Tool, Nobody} \cap DOMAIN s.node = {}
    /\ \A n \in DOMAIN s.node : IsNode(s, s.node[n])
    /\ s.cont \in BOOLEAN /\ s.signed \in {"good", "bad"} /\ s.late \in BOOLEAN /\ s.lossy \in BOOLEAN

ASSUME CcninfoAssumption ==
    /\ HeaderMax \in 16 .. 255 /\ ReplyMax \in Nat /\ ValLen \in Nat
    /\ \A s \in Scenarios : IsScenario(s)

VARIABLES
    sc,                                  \* the scenario
    tool,                                \* "idle", "waiting" or "gone"
    heard,                               \* the Replies the tool printed
    pit,                                 \* per node: the entries [key, down] of its PIT
    wire,                                \* frames on their way, as [from, to, copy, m]
    mute                                 \* why nothing may come back

vars == <<sc, tool, heard, pit, wire, mute>>

(***************************************************************************)
(* The command line (ct_parse_parameters): every option once at most,      *)
(* numbers in their ranges, one name; -v without a value takes the         *)
(* algorithm of cefnetd.conf.                                              *)
(***************************************************************************)
Algorithms == {"crc", "rsa"}
Given(o) == {i \in DOMAIN sc.argv : sc.argv[i].o = o}
Value(o, default) == IF Given(o) = {} THEN default ELSE sc.argv[CHOOSE i \in Given(o) : TRUE].v

FlagsRead == \A o \in {"-f", "-c", "-o", "-V"} : Cardinality(Given(o)) <= 1
HopRead == Cardinality(Given("-r")) <= 1 /\ Value("-r", 32) \in 1 .. 255
SkipRead == Cardinality(Given("-s")) <= 1 /\ Value("-s", 1) \in 1 .. 15
ValidRead ==
    /\ Cardinality(Given("-v")) <= 1
    /\ \A i \in Given("-v") : IF i = Len(sc.argv) THEN sc.conf \in Algorithms ELSE sc.argv[i].v \in Algorithms
NameRead == Cardinality(Given("name")) = 1
LessSkip == Value("-s", 0) < Value("-r", 32)

ArgumentsRead == FlagsRead /\ HopRead /\ SkipRead /\ ValidRead /\ NameRead /\ LessSkip

Has(o) == Given(o) # {}
FullAsked == Has("-f")
CacheAsked == Has("-c")
OwnerAsked == Has("-o")
ValidAsked == Has("-V")
Name == Value("name", [len |-> 0, chunk |-> None])
Algorithm == IF ~Has("-v") THEN "none" ELSE IF Len(sc.argv) \in Given("-v") THEN sc.conf ELSE Value("-v", "none")

(***************************************************************************)
(* Nodes.  Id is the length of a node's name TLV; the tool calls itself by *)
(* the name of its node.                                                   *)
(***************************************************************************)
Node(n) == sc.node[n]
Nodes == DOMAIN sc.node
Id(n) == Node(n).id
Type(n, f) ==
    IF f = Tool THEN "local"
    ELSE LET S == {i \in DOMAIN Node(n).fib : Node(n).fib[i].to = f}
         IN IF S = {} THEN "udp" ELSE Node(n).fib[CHOOSE i \in S : TRUE].type

(***************************************************************************)
(* Lengths: 8 bytes of fixed header and 8 of request header, a report      *)
(* block per node; a name TLV and the request block in the CCN message.    *)
(***************************************************************************)
Whole(m) == m.hdr + 4 + m.disc
NameLen == Name.len + (IF Name.chunk = None THEN 0 ELSE 5)

Stamp(n, m) ==
    [m EXCEPT !.rpts = Append(@, n), !.hdr = (@ + 8 + Id(n)) % 256,
              !.pkt = @ + 8 + Id(n), !.sent = m.pkt + 8 + Id(n)]

Strip(m) == [m EXCEPT !.val = "none", !.pkt = Whole(m), !.sent = Whole(m)]

\* cef_frame_ccninfo_vald_create_for_reply writes behind the length the fixed
\* header states; what was there is gone.
Validated(m) ==
    [m EXCEPT !.val = IF m.pkt = Whole(m) THEN "good" ELSE "garbled",
              !.pkt = @ + ValLen, !.sent = m.pkt + ValLen]

Checks(n) == ValidAsked /\ Node(n).valid # "none"
Sealed(n, m) == IF Checks(n) THEN Validated(m) ELSE m

(***************************************************************************)
(* cefnetd_ccninfo_check_relpy_size: a Reply that is too large loses its   *)
(* validation, and if that is not enough everything behind the name, the   *)
(* request block too.                                                      *)
(***************************************************************************)
CutDown(m) ==
    LET disc == 4 + NameLen
    IN [m EXCEPT !.disc = disc, !.pkt = m.hdr + 4 + disc, !.sent = m.hdr + 4 + disc,
                 !.code = "NO_SPACE", !.fatal = FALSE, !.by = Nobody, !.blk = "none", !.req = FALSE]

Fit(n, m) ==
    IF m.sent <= ReplyMax THEN m
    ELSE IF Whole(m) <= ReplyMax THEN Strip(m)
    ELSE LET c == CutDown(m) IN IF c.pkt + c.hdr <= ReplyMax THEN Sealed(n, c) ELSE c

(***************************************************************************)
(* cefnetd_ccninfo_name_create: the key of an entry is the report blocks   *)
(* that a Request brought.  A Reply is looked up by the blocks in front of *)
(* the node's own; a node without one was skipped and has no blocks in its *)
(* key.  For a Reply that reports a loop and that began behind skipped     *)
(* nodes the entry of the skipped pass is tried first.                     *)
(***************************************************************************)
ReplyBlockNode(m) == IF m.by = Nobody THEN <<>> ELSE <<m.by>>
Blocks(m) == m.rpts \o ReplyBlockNode(m)
At(n, s) == CHOOSE i \in DOMAIN s : s[i] = n /\ \A j \in 1 .. i - 1 : s[j] # n

\* The names of the requester and of the first block differ.
Requester == sc.home
FirstSkipped(m) == ~m.req \/ Blocks(m)[1] # Requester

RequestKey(m) == m.rpts
ReplyKey(n, m, skipped) ==
    LET b == Blocks(m)
    IN IF n \notin ToSet(b) THEN <<>>
       ELSE IF skipped /\ m.fatal /\ FirstSkipped(m) /\ b[1] # n THEN <<>>
       ELSE SubSeq(b, 1, At(n, b) - 1)

Entries(n, key) == {e \in pit[n] : e.key = key}

(***************************************************************************)
(* What the handler of a Request comes to, in the order of the code.       *)
(***************************************************************************)
\* cef_valid_msg_verify_forccninfo: what carries no validation passes.
Verified(m) == m.val \in {"none", "good"}
Loop(n, m) == n \in ToSet(m.rpts)
Hopless(m) == m.hop < 1 \/ m.hop <= m.skip
NoRoom(n, m) == m.skip = 0 /\ m.hdr + 8 + Id(n) > HeaderMax
Prohibited(n) == Node(n).policy = 2 \/ (FullAsked /\ Node(n).full = 0)
Open(n, m) == m.skip = 0 /\ Node(n).policy = 0

Owner(n, m) == Open(n, m) /\ Node(n).app
\* csmgrd has the content, or the chunk of it that was asked for.
InCache(n) ==
    /\ Node(n).cached # {}
    /\ Name.chunk # None => Name.chunk \in Node(n).cached
FromCache(n, m) == Open(n, m) /\ ~Owner(n, m) /\ ~OwnerAsked /\ InCache(n) /\ (ValidAsked => Checks(n))

\* The code that leaves: a node that cannot validate refuses what asks for it.
Coded(n, code) == IF code # "NO_SPACE" /\ ValidAsked /\ ~Checks(n) THEN "INVALID_REQUEST" ELSE code

Reply(n, m, code) ==
    LET loop == Loop(n, m)
        s == IF code = "NO_SPACE" \/ (code = "NO_ERROR" /\ ~loop) THEN m ELSE Stamp(n, m)
    IN Fit(n, Sealed(n, [Strip(s) EXCEPT
                           !.k = "rep",
                           !.code = Coded(n, code),
                           !.fatal = loop]))

ReplyBlock(n) == 8 + Id(n)
SubBlock == 4 + 28 + 4 + NameLen

\* cefnetd_FHR_Reply_process.
OwnerReply(n, m) ==
    LET s == Strip(m)
        r == [s EXCEPT !.k = "rep", !.by = n, !.code = "NO_ERROR", !.blk = IF CacheAsked THEN "owner" ELSE "none",
                       !.disc = @ + ReplyBlock(n) + (IF CacheAsked THEN SubBlock ELSE 0)]
    IN Fit(n, Sealed(n, Strip(r)))

\* cefnetd_external_cache_seek: without -c the length in the fixed header
\* stays what it was, and as many bytes are sent as its two bytes say in the
\* other order.
Swapped(x) == ((x % 256) * 256) + (x \div 256)
CacheReply(n, m) ==
    LET s == Strip(m)
        r == [s EXCEPT !.k = "rep", !.by = n, !.code = "NO_ERROR", !.blk = IF CacheAsked THEN "cache" ELSE "none",
                       !.disc = @ + ReplyBlock(n) + (IF CacheAsked THEN SubBlock ELSE 0)]
    IN IF CacheAsked THEN Fit(n, Sealed(n, Strip(r)))
       ELSE Fit(n, Sealed(n, [r EXCEPT !.sent = Swapped(s.pkt)]))

\* cefnetd_continfo_process, for the tool of the local node.
ContentReply(n, m) ==
    LET disc == m.disc + ReplyBlock(n) + SubBlock + 2 + Node(n).info
    IN [m EXCEPT !.k = "rep", !.by = n, !.code = "NO_ERROR", !.blk = "content", !.disc = disc,
                 !.pkt = m.hdr + 4 + disc, !.sent = m.hdr + 4 + disc]

(***************************************************************************)
(* cef_forward_ccninforeq: a full discovery that is allowed goes to every  *)
(* active face but the one it came from, to those of its type twice; any   *)
(* other Request to the first, if it can be of that type.                  *)
(***************************************************************************)
Others(n, f) == {i \in DOMAIN Node(n).fib : Node(n).fib[i].to # f /\ Node(n).fib[i].up}
Same(n, f) == {i \in Others(n, f) : Node(n).fib[i].type = Type(n, f)}
Full(n) == FullAsked /\ (Node(n).full = 1 \/ (Node(n).full = 2 /\ Algorithm = "rsa"))
To(n, S, c) == {[to |-> Node(n).fib[i].to, copy |-> c] : i \in S}

Targets(n, f) ==
    IF Full(n) THEN To(n, Others(n, f), 1) \cup To(n, Same(n, f), 2)
    ELSE LET s == IF Same(n, f) # {} THEN Same(n, f) ELSE Others(n, f)
         IN To(n, {i \in s : \A j \in s : i <= j}, 1)

StampsSkipped(n, m) ==
    [Stamp(n, m) EXCEPT !.skip = IF m.skip > 0 THEN m.skip - 1 ELSE 0, !.hop = m.hop - 1]
Onward(n, m) ==
    [(IF m.skip > 0 THEN m ELSE Stamp(n, m)) EXCEPT
        !.skip = IF m.skip > 0 THEN m.skip - 1 ELSE 0, !.hop = m.hop - 1]

(***************************************************************************)
(* The handlers, as what they do to a node's PIT, what they send and, if   *)
(* nothing may come of it, why.                                            *)
(***************************************************************************)
Effect(entries, out, why) == [entries |-> entries, out |-> out, why |-> why]
Answer(n, f, m) == Effect(pit[n], {[from |-> n, to |-> f, copy |-> 1, m |-> m]}, {})
Ignore(n, why) == Effect(pit[n], {}, why)

PassOn(n, f, m) ==
    IF Node(n).fib = <<>>
    THEN IF m.skip > 0 THEN Ignore(n, {"no route"}) ELSE Answer(n, f, Reply(n, m, "NO_ROUTE"))
    ELSE IF Entries(n, RequestKey(m)) # {}
    THEN Ignore(n, IF m.rpts = <<>> /\ \E e \in Entries(n, <<>>) : e.down # f THEN {"again"} ELSE {})
    ELSE Effect(pit[n] \cup {[key |-> RequestKey(m), down |-> f]},
                {[from |-> n, to |-> t.to, copy |-> t.copy, m |-> Onward(n, m)] : t \in Targets(n, f)},
                IF Targets(n, f) = {} THEN {"no face"} ELSE {})

OnRequest(n, f, m) ==
    CASE sc.cont ->
           IF Node(n).info = None THEN Ignore(n, {"no answer"}) ELSE Answer(n, f, ContentReply(n, m))
      [] ~sc.cont /\ Hopless(m) -> Ignore(n, {"hops"})
      [] ~sc.cont /\ ~Hopless(m) /\ NoRoom(n, m) -> Answer(n, f, Reply(n, m, "NO_SPACE"))
      [] OTHER ->
           IF ~Verified(m) THEN IF m.skip > 0 THEN Ignore(n, {"unsigned"})
                                 ELSE Answer(n, f, Reply(n, m, "INVALID_REQUEST"))
           ELSE IF Prohibited(n) THEN Answer(n, f, Reply(n, m, "ADMIN_PROHIB"))
           ELSE IF Owner(n, m)
           THEN Answer(n, f, IF ValidAsked /\ ~Checks(n) THEN Reply(n, m, "INVALID_REQUEST") ELSE OwnerReply(n, m))
           ELSE IF FromCache(n, m) THEN Answer(n, f, CacheReply(n, m))
           ELSE IF m.hop = 1 THEN Answer(n, f, Reply(n, m, "NO_INFO"))
           ELSE IF Loop(n, m) THEN Answer(n, f, Reply(n, m, "NO_ERROR"))
           ELSE PassOn(n, f, m)

\* cefnetd_incoming_ccninforep_process: the entry is used up.
Wanted(n, m) ==
    IF Entries(n, ReplyKey(n, m, TRUE)) # {} THEN Entries(n, ReplyKey(n, m, TRUE))
    ELSE Entries(n, ReplyKey(n, m, FALSE))

KeepsIt(entries, e) == entries
UsesUp(entries, e) == entries \ {e}
Up(f) == f # Tool \/ tool = "waiting"

OnReply(n, m) ==
    IF Node(n).policy = 2 THEN Ignore(n, {})
    ELSE IF Wanted(n, m) = {} THEN Ignore(n, {"no entry"})
    ELSE LET e == CHOOSE x \in Wanted(n, m) : TRUE
         IN Effect(UsesUp(pit[n], e),
                   IF Up(e.down) THEN {[from |-> n, to |-> e.down, copy |-> 1, m |-> m]} ELSE {}, {})

\* A frame of a length that its header does not say, or with a message that
\* goes beyond it, is not understood.
Understood(m) == m.sent = m.pkt /\ Whole(m) <= m.pkt

(***************************************************************************)
(* Actions.                                                                *)
(***************************************************************************)
Init ==
    /\ sc \in Scenarios
    /\ tool = "idle" /\ heard = <<>>
    /\ pit = [n \in Nodes |-> {}]
    /\ wire = {}
    /\ mute = {}

\* cef_frame_ccninfo_req_create and cef_client_ccninfo_input.
Question ==
    LET disc == 4 + NameLen + 8 + Id(Requester)
    IN [k |-> "req", hop |-> Value("-r", 32), skip |-> Value("-s", 0), rpts |-> <<>>, by |-> Nobody,
        blk |-> "none", req |-> TRUE, code |-> "NO_ERROR", fatal |-> FALSE,
        hdr |-> 16, disc |-> disc,
        pkt |-> 20 + disc + (IF Algorithm = "none" THEN 0 ELSE ValLen),
        sent |-> 20 + disc + (IF Algorithm = "none" THEN 0 ELSE ValLen),
        val |-> IF Algorithm = "none" THEN "none" ELSE sc.signed, path |-> <<>>]

Ask ==
    /\ tool = "idle"
    /\ IF ArgumentsRead
       THEN /\ tool' = "waiting"
            /\ wire' = {[from |-> Tool, to |-> sc.home, copy |-> 1, m |-> Question]}
       ELSE tool' = "gone" /\ UNCHANGED wire
    /\ UNCHANGED <<sc, heard, pit, mute>>

Handle(n) ==
    \E w \in wire :
        /\ w.to = n
        /\ LET m == IF w.m.k = "req" THEN [w.m EXCEPT !.path = Append(@, n)] ELSE w.m
               r == IF ~Understood(m) THEN Ignore(n, {"mangled"})
                    ELSE IF m.k = "req" THEN OnRequest(n, w.from, m) ELSE OnReply(n, m)
           IN /\ pit' = [pit EXCEPT ![n] = r.entries]
              /\ wire' = (wire \ {w}) \cup r.out
              /\ mute' = mute \cup r.why
        /\ UNCHANGED <<sc, tool, heard>>

OneLess(m) == Len(Blocks(m)) < Value("-r", 32)
ReportsAllowed(m) == Len(Blocks(m)) <= Value("-r", 32)

\* ct_results_output: what does not check, or is not for this question, is
\* not printed.
Printed(m) ==
    /\ m.k = "rep" /\ Understood(m)
    /\ Verified(m)
    /\ ReportsAllowed(m)
    /\ m.req

\* The parser keeps the sub-blocks of caches only; those of owners it skips.
Listed(m) == m.blk \in {"cache", "content"}
Route(m) == Blocks(m)

Hear ==
    /\ tool = "waiting"
    /\ \E w \in wire :
         /\ w.to = Tool
         /\ wire' = wire \ {w}
         /\ heard' = IF Printed(w.m) THEN Append(heard, w.m) ELSE heard
         /\ mute' = IF w.m.req THEN mute ELSE mute \cup {"cut"}
    /\ UNCHANGED <<sc, tool, pit>>

\* The time of the tool, or of an entry, is up; a datagram is lost.
Leave == sc.late /\ tool = "waiting" /\ tool' = "gone" /\ UNCHANGED <<sc, heard, pit, wire, mute>>
Expire(n) ==
    /\ sc.late
    /\ \E e \in pit[n] : pit' = [pit EXCEPT ![n] = @ \ {e}]
    /\ mute' = mute \cup {"late"}
    /\ UNCHANGED <<sc, tool, heard, wire>>
Lose ==
    /\ sc.lossy
    /\ \E w \in wire : w.from # Tool /\ w.to # Tool /\ wire' = wire \ {w}
    /\ mute' = mute \cup {"lost"}
    /\ UNCHANGED <<sc, tool, heard, pit>>

Next == Ask \/ Hear \/ Leave \/ Lose \/ \E n \in Nodes : Handle(n) \/ Expire(n)

Spec == Init /\ [][Next]_vars

\* Every cefnetd reads what it is sent, and the tool listens.
Fairness == WF_vars(Ask) /\ WF_vars(Hear) /\ WF_vars(\E n \in Nodes : Handle(n))
FairSpec == Spec /\ Fairness

(***************************************************************************)
(* Properties.                                                             *)
(***************************************************************************)
Replies == {w.m : w \in {x \in wire : x.m.k = "rep"}} \cup ToSet(heard)
Visits(m, n) == Cardinality({i \in DOMAIN m.path : m.path[i] = n})

TypeOK ==
    /\ sc \in Scenarios
    /\ tool \in {"idle", "waiting", "gone"}
    /\ \A n \in Nodes : \A e \in pit[n] : e.down \in Nodes \cup {Tool} /\ ToSet(e.key) \subseteq Nodes
    /\ \A w \in wire :
         /\ w.from \in Nodes \cup {Tool} /\ w.to \in Nodes \cup {Tool} /\ w.copy \in 1 .. 2
         /\ w.m.hop \in 0 .. 255 /\ w.m.skip \in 0 .. 15
         /\ w.m.hdr \in 0 .. 255

\* The route the tool prints is the way the Request went: every node behind
\* the skipped ones, in order, with the one that answered at the end, unless
\* that had no room for its name.  A node that was to be skipped and refuses
\* the Request names itself alone.
Routed(m) ==
    LET way == SubSeq(m.path, Value("-s", 0) + 1, Len(m.path))
    IN \/ Route(m) = way
       \/ m.code = "NO_SPACE" /\ Route(m) = SubSeq(way, 1, Len(way) - 1)
       \/ /\ m.code \in {"ADMIN_PROHIB", "INVALID_REQUEST"} /\ Len(m.path) <= Value("-s", 0)
          /\ Route(m) = <<m.path[Len(m.path)]>>
       \/ m.blk = "content"
RouteTrue == \A m \in ToSet(heard) : Routed(m)

\* A code says what is the case at the node that answered.
Honest(m) ==
    LET n == m.path[Len(m.path)]
    IN /\ m.code = "NO_ROUTE" => Node(n).fib = <<>>
       /\ m.code = "NO_INFO" => Len(m.path) = Value("-r", 32)
       /\ m.code = "ADMIN_PROHIB" => Prohibited(n)
       /\ m.code = "INVALID_REQUEST" => (ValidAsked /\ ~Checks(n)) \/ sc.signed = "bad"
       /\ m.code = "NO_ERROR" /\ ~m.fatal => sc.cont \/ (Node(n).policy = 0 /\ (Node(n).app \/ Node(n).cached # {}))
       /\ m.fatal => Visits(m, n) > 1
       /\ Listed(m) => (CacheAsked /\ Node(n).cached # {}) \/ sc.cont
Truthful == \A m \in ToSet(heard) : Honest(m)

\* A Request that is stamped never goes through a node a second time.
NoLap ==
    \A w \in wire : w.m.k = "req" => \A n \in Nodes : Cardinality({i \in DOMAIN w.m.rpts : w.m.rpts[i] = n}) <= 1

\* A Reply goes back over links the Request came by, except that in a full
\* discovery the nodes it skips have one key for all that comes to them: the
\* entry a branch left behind may send the Reply to another the wrong way.
LinkOf(path, n, d) == \E i \in DOMAIN path : path[i] = n /\ d = IF i = 1 THEN Tool ELSE path[i - 1]
BackWay ==
    (FullAsked /\ Has("-s")) \/ \A w \in wire : w.m.k = "rep" => LinkOf(w.m.path, w.from, w.to)

\* No node lets more than one Reply to a Request pass: the tool hears one
\* answer, whatever the documentation says of a full discovery.
FirstOnly == Len(heard) <= 1

\* A Reply misses its entry only at a node that the Request passed twice, and
\* at one whose entry another Reply has used up.
Missed(n) == \E w \in wire : w.to = n /\ w.m.k = "rep" /\ Understood(w.m) /\ Wanted(n, w.m) = {}
Followed ==
    [][("no entry" \in mute' /\ "no entry" \notin mute)
       => \E n \in Nodes : Missed(n) /\ (FullAsked \/ sc.late \/ \E w \in wire : w.to = n /\ Visits(w.m, n) > 1)]_vars

\* Every question is answered, unless the Request met a dead end behind which
\* no node reports, came back to a skipped node or was refused by one; unless
\* the Reply was too long, or one that a cache made without -c; or unless time
\* or the network took one of them.
InTheWay ==
    \/ mute \cap {"no route", "no face", "again", "no answer", "unsigned", "cut", "late", "lost"} # {}
    \/ "mangled" \in mute /\ ~CacheAsked /\ \E n \in Nodes : Node(n).cached # {}
    \/ "no entry" \in mute /\ (FullAsked \/ Has("-s"))
Answered == tool = "waiting" ~> (heard # <<>> \/ InTheWay \/ tool = "gone")

\* What the tool hears is true: of the way and of the node that answers
\* (cefnetd_incoming_ccninforeq_process, ccninfo.c).
HeardTrue == RouteTrue /\ Truthful

\* Requests do not go round, Replies go back, the first one only.
WaysKept == TypeOK /\ NoLap /\ BackWay /\ FirstOnly

\* Replies find their entries and questions their answers, but for what is named above.
Heard == Followed /\ Answered
=============================================================================
