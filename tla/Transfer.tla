------------------------------ MODULE Transfer ------------------------------
(***************************************************************************)
(* The tools by which contents get into the network and out of it:         *)
(* cefputfile and cefputstream make Objects of a file or of their standard *)
(* input, cefgetfile, cefgetstream and cefgetchunk ask for them again      *)
(* (src/tools/).  Between them is a cefnetd that caches the Objects that   *)
(* may be cached, and a network behind it that may lose what it carries.   *)
(*                                                                         *)
(* The payload of chunk k is block k of the file, written as k.  A read    *)
(* from the socket may end within an Object.  Time is not counted: where   *)
(* a tool measures a silence, the silence is there (or, in a slow network, *)
(* may seem to be there at any time).                                      *)
(***************************************************************************)
EXTENDS Integers, SequencesExt, FiniteSetsExt

CONSTANTS
  Jobs,            \* bound: what is asked of the tools, over which network
  DefPipeLine,     \* CefC_Def_PipeLine
  MaxPipeLine,     \* CefC_Max_PipeLine
  MaxRetry,        \* CefC_Max_Retry
  ChunkMax,        \* UINT32_MAX: the last number a chunk may have
  ConnectRetries,  \* CefC_Connect_Retries
  MaxPort,         \* ports are 1025 .. 65535, here 1 .. MaxPort
  DefPort,         \* CefC_Default_PortNum
  IdSize           \* CefC_LOCAL_SOCK_ID_SIZ

None == -1

\* Parameters of options, those that are no numbers included
Missing == -2
Sg == 1
UnknownAlgorithm == 0
PlainUri == 0
SlashUri == 1      \* ends with a slash
InvalidUri == 2    \* cannot be turned into a name
BareUri == 3       \* has no slash

VARIABLES
  job,    \* what the tools were started with, and the network
  put,    \* the tool that publishes: at, the blocks it has sent
  node,   \* cefnetd: whether it listens, cached Objects, chunks asked for, a subscription
  wire,   \* the frames under way to the tool that retrieves
  cut,    \* whether the first of them has been read in part
  get,    \* the tool that retrieves
  left    \* bound: losses and split reads that may still happen

transfer == <<job, put, node, wire, cut, get, left>>

-----------------------------------------------------------------------------
(* Starting: options, configuration, socket.                               *)

Given(args, opt) == \E i \in DOMAIN args : args[i].opt = opt
Value(args, opt, default) ==
  IF Given(args, opt) THEN args[CHOOSE i \in DOMAIN args : args[i].opt = opt].val ELSE default

\* An option without its parameter (at the end of the line), one whose flag is set already,
\* one that is not known, a bad value, no URI
Wrong(args, param, plain, Bad(_)) ==
  \/ ~Given(args, "uri")
  \/ \E i \in DOMAIN args :
       \/ args[i].opt \notin param \cup plain
       \/ args[i].val = Missing /\ args[i].opt \in param
       \/ Bad(args[i])
       \/ Given(SubSeq(args, 1, i - 1), args[i].opt)

GetFileOptions == {"-f", "-s", "-d", "-p", "-m", "-z", "-v"}
GetFileRefused(args) ==
  Wrong(args, GetFileOptions, {"uri", "-o"}, LAMBDA a : a.opt = "-z" /\ a.val # Sg)

\* "-z" may stand at the end without a lifetime; "-l" looks at the flag of "-p" and sets
\* none that is looked at.
GetStreamOptions == {"-s", "-d", "-p", "-l", "-m", "-v"}
GetStreamRefused(args) ==
  \/ Wrong(SelectSeq(args, LAMBDA a : a.opt # "-l"), GetStreamOptions, {"uri", "-o", "-z"},
           LAMBDA a : a.opt = "-z" /\ a.val < 0 /\ a.val # Missing)
  \/ \E i \in DOMAIN args : args[i].opt = "-l" /\ (args[i].val \notin {0, 1} \/ Given(SubSeq(args, 1, i), "-p"))

GetChunkOptions == {"-c", "-d", "-p"}
GetChunkRefused(args) == Wrong(args, GetChunkOptions, {"uri"}, LAMBDA a : FALSE) \/ ~Given(args, "-c")

\* "-D" looks at the flag of "-f", and sets another.
PutFileOptions == {"-D", "-f", "-r", "-b", "-e", "-t", "-z", "-d", "-p", "-v"}
PutFileRefused(args) ==
  \/ Wrong(SelectSeq(args, LAMBDA a : a.opt # "-D"), PutFileOptions, {"uri"}, LAMBDA a : a.opt = "-z" /\ a.val # Sg)
  \/ \E i \in DOMAIN args : args[i].opt = "-D" /\ (args[i].val = Missing \/ Given(SubSeq(args, 1, i), "-f"))

PutStreamOptions == {"-r", "-b", "-e", "-t", "-v", "-d", "-p"}
PutStreamRefused(args) == Wrong(args, PutStreamOptions, {"uri"}, LAMBDA a : FALSE)

\* The files are named after the last segment of the URI, if not by an option.
NoFileName(args) == ~Given(args, "-f") /\ Value(args, "uri", PlainUri) = BareUri

\* What is found after the options: a URI that is no name, an unknown algorithm; a name
\* to publish under must not end with a slash.
NameRefused(args) == Value(args, "uri", PlainUri) = InvalidUri
AlgorithmRefused(args) == Given(args, "-v") /\ Value(args, "-v", 1) = UnknownAlgorithm
ContentRefused(args) ==
  NameRefused(args) \/ AlgorithmRefused(args) \/ Value(args, "uri", PlainUri) = SlashUri

\* The number of the last chunk that is asked for again: that of option -m, from 0 on.
MaxSeq(args) == IF Given(args, "-m") THEN Max({Value(args, "-m", 1), 1}) - 1 ELSE ChunkMax - 1

PipeLine(args) ==
  LET given == Value(args, "-s", DefPipeLine)
      p == IF given < 1 THEN DefPipeLine ELSE Min({given, MaxPipeLine})
  IN Min({p, MaxSeq(args) + 1})

\* cefputfile: 300 seconds unless said otherwise, none for a stream; cefputstream: none.
FileCacheable(args) == ~Given(args, "-z") /\ Value(args, "-t", 300) # 0
StreamCacheable(args) == Value(args, "-t", 0) # 0
Cacheable(tool, args) == IF tool = "cefputfile" THEN FileCacheable(args) ELSE StreamCacheable(args)

\* cef_client_trim_line_string: a line counts if it has one "=".
Lines(conf, param) == SelectSeq(conf, LAMBDA l : l.param = param /\ l.signs = 1)
\* cef_client_init: the first PORT_NUM counts, and the last LOCAL_SOCK_ID; a bad one ends it
\* all, whatever option -p says.
ConfRefused(conf) ==
  \/ conf = <<>>
  \/ \E l \in ToSet(Lines(conf, "PORT_NUM")) : l.val \notin 1 .. MaxPort
  \/ \E l \in ToSet(Lines(conf, "LOCAL_SOCK_ID")) : l.val > IdSize
Socket(conf, args) ==
  LET ports == Lines(conf, "PORT_NUM")  ids == Lines(conf, "LOCAL_SOCK_ID") IN
  [port |-> IF Value(args, "-p", 0) # 0 THEN Value(args, "-p", 0)
            ELSE IF ports # <<>> THEN ports[1].val ELSE DefPort,
   id |-> IF ids # <<>> THEN Last(ids).val ELSE 0]

GetRefused(tool, args) ==
  CASE tool = "cefgetfile" -> GetFileRefused(args) \/ NoFileName(args) \/ NameRefused(args) \/ AlgorithmRefused(args)
    [] tool = "cefgetstream" -> GetStreamRefused(args) \/ NameRefused(args) \/ AlgorithmRefused(args)
    [] tool = "cefgetchunk" -> GetChunkRefused(args) \/ NameRefused(args)
PutRefused(tool, args) ==
  ContentRefused(args) \/ IF tool = "cefputfile" THEN PutFileRefused(args) \/ NoFileName(args) ELSE PutStreamRefused(args)

Regular == get.tool # "cefgetchunk" /\ ~get.sg

Init ==
  /\ job \in Jobs
  /\ put = [at |-> "off", sent |-> 0]
  /\ node = [listens |-> job.listens, store |-> {}, asked |-> {}, sub |-> FALSE]
  /\ wire = <<>> /\ cut = FALSE
  /\ get = [at |-> "off", tool |-> job.get, sg |-> Given(job.args, "-z"), tries |-> 0,
            win |-> <<>>, frame |-> [what |-> "none"], file |-> <<>>, recv |-> 0, end |-> None,
            running |-> TRUE, write |-> FALSE, ng |-> FALSE, retry |-> 0, ask |-> {}, kept |-> TRUE,
            split |-> FALSE, signal |-> FALSE]
  /\ left = [lose |-> job.lose, split |-> job.split, full |-> job.full]

\* The options are read, then the configuration.
GetStart ==
  /\ get.at = "off" /\ (job.after => put.at \in {"refused", "done"})
  /\ get' = [get EXCEPT !.at = IF GetRefused(job.get, job.args) \/ ConfRefused(job.conf) THEN "refused" ELSE "connect"]
  /\ UNCHANGED <<job, put, node, wire, cut, left>>

Window(p) == [i \in 1 .. p |-> [seq |-> i - 1, got |-> None]]

\* The first Interests: for a chunk, for the first chunks, or for the stream.
First == CASE get.tool = "cefgetchunk" -> {Value(job.args, "-c", 0)}
           [] get.sg -> {}
           [] OTHER -> 0 .. PipeLine(job.args) - 1

\* cef_client_connect: tried again while it is refused; a name that is not there is not.
Connect ==
  /\ get.at = "connect"
  /\ CASE Socket(job.conf, job.args) # job.socket -> get' = [get EXCEPT !.at = "refused"] /\ UNCHANGED node
       [] Socket(job.conf, job.args) = job.socket /\ ~node.listens ->
            /\ get' = IF get.tries + 1 = ConnectRetries THEN [get EXCEPT !.at = "refused"]
                      ELSE [get EXCEPT !.tries = @ + 1]
            /\ UNCHANGED node
       [] OTHER ->
            /\ get' = [get EXCEPT !.at = "loop", !.win = IF Regular THEN Window(PipeLine(job.args)) ELSE <<>>]
            /\ node' = [node EXCEPT !.asked = @ \cup First, !.sub = get.sg /\ get.tool # "cefgetchunk"]
  /\ UNCHANGED <<job, put, wire, cut, left>>

-----------------------------------------------------------------------------
(* Publishing.                                                             *)

PutStart ==
  /\ put.at = "off" /\ node.listens
  /\ put' = [put EXCEPT !.at = IF PutRefused(job.put, job.putArgs) \/ ConfRefused(job.conf)
                                  \/ Socket(job.conf, job.putArgs) # job.socket
                               THEN "refused" ELSE "loop"]
  /\ UNCHANGED <<job, node, wire, cut, get, left>>

\* The number of the last chunk goes with the block that makes the size stat found full.
EndChunk == IF put.sent + 1 = job.size THEN put.sent ELSE None

\* cefnetd gets an Object: the cache takes it, those who asked for it get it.  But what the
\* library could not write is not sent again, and counts as sent.
Published(o) ==
  LET wanted == o.chunk \in node.asked \/ node.sub IN
  \/ /\ node' = [node EXCEPT !.store = IF Cacheable(job.put, job.putArgs) THEN @ \cup {o} ELSE @,
                             !.asked = @ \ {o.chunk}]
     /\ wire' = IF wanted /\ get.at = "loop" THEN Append(wire, o) ELSE wire
     /\ UNCHANGED left
  \/ left.full > 0 /\ left' = [left EXCEPT !.full = @ - 1] /\ UNCHANGED <<node, wire>>

More == put.at = "loop" /\ put.sent < job.blocks /\ put.sent <= ChunkMax

\* One round of the main loop of cefputfile, and of cefputstream
PutFile ==
  /\ job.put = "cefputfile" /\ More
  /\ Published([what |-> "object", chunk |-> put.sent, end |-> EndChunk])
  /\ put' = [put EXCEPT !.sent = @ + 1]
  /\ UNCHANGED <<job, cut, get>>
PutStream ==
  /\ job.put = "cefputstream" /\ More
  /\ Published([what |-> "object", chunk |-> put.sent, end |-> None])
  /\ put' = [put EXCEPT !.sent = @ + 1]
  /\ UNCHANGED <<job, cut, get>>

\* The file or the input is at its end, or a signal came.
PutEnd ==
  /\ put.at = "loop" /\ (~More \/ job.signal)
  /\ put' = [put EXCEPT !.at = "done"]
  /\ UNCHANGED <<job, node, wire, cut, get, left>>

-----------------------------------------------------------------------------
(* cefnetd and the network behind it.                                      *)

Listen ==
  /\ ~node.listens /\ node' = [node EXCEPT !.listens = TRUE]
  /\ UNCHANGED <<job, put, wire, cut, get, left>>

Found(c) == {o \in node.store : o.chunk = c}

Answer ==
  /\ \E c \in node.asked : \E o \in Found(c) :
       wire' = Append(wire, o) /\ node' = [node EXCEPT !.asked = @ \ {c}]
  /\ UNCHANGED <<job, put, cut, get, left>>

\* An Interest or its Object is lost; a subscription is forgotten.
Lose ==
  /\ left.lose > 0 /\ left' = [left EXCEPT !.lose = @ - 1]
  /\ \/ \E c \in node.asked : node' = [node EXCEPT !.asked = @ \ {c}]
     \/ node.sub /\ node' = [node EXCEPT !.sub = FALSE]
  /\ UNCHANGED <<job, put, wire, cut, get>>

\* There is no way to a content that is not cached: an Interest Return.
Refuse ==
  /\ job.returns /\ put.at \in {"refused", "done"}
  /\ \E c \in node.asked : /\ Found(c) = {}
                           /\ node' = [node EXCEPT !.asked = @ \ {c}]
                           /\ wire' = Append(wire, [what |-> "return"])
  /\ UNCHANGED <<job, put, cut, get, left>>

-----------------------------------------------------------------------------
(* Retrieving: what a tool does with a frame.                              *)

\* Mutant: a chunk that is there makes the ones before it be there.
UpToLast(win) == Max({0} \cup {n \in DOMAIN win : win[n].got # None})
\* How many places from the head on are full
Full(win) == Max({n \in 0 .. Len(win) : \A i \in 1 .. n : win[i].got # None})

\* The head of the list becomes its tail, n times.
Moved(win, n) == [i \in DOMAIN win |-> IF i + n \in DOMAIN win THEN win[i + n]
                                      ELSE [seq |-> win[i].seq + n, got |-> None]]

\* How many blocks can be written now: until the file is complete, or all that is there
\* from the head of the window on
Complete(s) == s.tool = "cefgetfile" /\ s.end - s.recv \in 1 .. Full(s.win)
Count(s) == IF ~s.write THEN 0 ELSE IF Complete(s) THEN s.end - s.recv ELSE Full(s.win)

\* The loop that writes n blocks: the window moves on, and its new places are asked for,
\* by numbers of 32 bits.  (cefgetstream asks again for the first that is not there.)
WriteHead(s, n) ==
  LET last == Last(s.win).seq
      new == last + 1 .. last + n
      again == IF s.tool = "cefgetstream" /\ n < Len(s.win) THEN {s.win[n + 1].seq} ELSE {}
  IN [s EXCEPT !.file = @ \o [i \in 1 .. n |-> s.win[i].got], !.recv = @ + n, !.win = Moved(@, n),
               !.ask = {c % (ChunkMax + 1) : c \in new \cup again}, !.write = FALSE,
               !.running = s.recv + n # s.end /\ \A i \in 1 .. n : s.win[i].seq # ChunkMax]

Fits(s, f) == f.chunk >= Head(s.win).seq /\ f.chunk <= Last(s.win).seq

\* An Object of a file: into its place in the window if that is free, and whatever can
\* be written is.
TakeChunk(s, f) ==
  LET end == IF s.tool = "cefgetfile" /\ f.end >= 0 THEN f.end + 1 ELSE s.end
      i == f.chunk - Head(s.win).seq + 1
  IN IF ~Fits(s, f) THEN [s EXCEPT !.end = end]
     ELSE IF s.win[i].got # None THEN [s EXCEPT !.end = end, !.write = TRUE]
     ELSE [s EXCEPT !.end = end, !.write = TRUE, !.win[i].got = f.chunk, !.retry = 0]

\* An Object of a stream is written as it comes; cefgetfile leaves out one whose number
\* is less than half of how many have come.
TakeStream(s, f) ==
  LET n == s.recv + 1 IN
  [s EXCEPT !.recv = n,
            !.file = IF s.tool = "cefgetstream" \/ n \div 2 <= f.chunk THEN Append(@, f.chunk) ELSE @]

\* cefgetchunk takes the first Object for its answer.
TakeOne(s, f) ==
  [s EXCEPT !.running = FALSE, !.recv = 1,
            !.file = IF f.chunk = Value(job.args, "-c", 0) THEN Append(@, f.chunk) ELSE @]

Take(s, f) ==
  LET t == [s EXCEPT !.frame = f] IN
  CASE ~s.running -> s
    [] s.running /\ f.what = "return" -> [t EXCEPT !.running = FALSE, !.ng = s.tool = "cefgetfile"]
    [] s.running /\ f.what = "object" /\ s.tool = "cefgetchunk" -> TakeOne(t, f)
    [] s.running /\ f.what = "object" /\ s.tool # "cefgetchunk" /\ s.sg -> TakeStream(t, f)
    [] OTHER -> TakeChunk(t, f)

\* cef_client_payload_get_with_info finds no whole frame, but leaves app_frame alone: the
\* frame that was taken before is taken again.
TakeAgain(s) == IF s.frame.what = "none" THEN s ELSE Take(s, s.frame)

\* What comes of a read's last bytes, when they are no whole frame
Behind(s, part) == IF part THEN TakeAgain(s) ELSE s

\* What the frames put into the window is written as far as it goes (a frame taken again
\* adds nothing to that), and the main loop comes round, if it still runs.
AfterFrames(s) ==
  \E n \in {Count(s)} : \E r \in {IF s.write THEN WriteHead(s, n) ELSE s} :
    /\ get' = [r EXCEPT !.at = IF r.running THEN "loop" ELSE "end", !.ask = {}, !.split = @ \/ cut']
    /\ node' = [node EXCEPT !.asked = @ \cup r.ask]

\* A frame is read as a whole; what was read behind it may be part of the next, and is
\* not kept.
ReadFrame(part) ==
  /\ get.at = "loop" /\ wire # <<>> /\ ~cut
  /\ part => left.split > 0 /\ Len(wire) > 1
  /\ wire' = Tail(wire) /\ cut' = part
  /\ LET s == Take(get, Head(wire)) IN
     \E r \in {Behind(s, part)} : AfterFrames(r)
  /\ left' = IF part THEN [left EXCEPT !.split = @ - 1] ELSE left
  /\ UNCHANGED <<job, put>>

\* Only part of a frame has come; or what comes begins within a frame, and is of no use
\* up to its end, whatever whole frames are in it.
ReadPart(n, part) ==
  /\ get.at = "loop" /\ n <= Len(wire) /\ n + (IF part THEN 1 ELSE 0) \in 1 .. Len(wire)
  /\ cut => n > 0
  /\ ~cut => n = 0 /\ part
  /\ part => left.split > 0
  /\ wire' = SubSeq(wire, n + 1, Len(wire)) /\ cut' = part
  /\ \E r \in {TakeAgain(get)} : AfterFrames(r)
  /\ left' = IF part THEN [left EXCEPT !.split = @ - 1] ELSE left
  /\ UNCHANGED <<job, put>>

Absent == {get.win[i].seq : i \in {j \in DOMAIN get.win : get.win[j].got = None}}

\* What is missing in the window is asked for again, up to the number of option -m.
Again == {c \in Absent : c <= MaxSeq(job.args)}

Silence == wire = <<>> /\ \A c \in node.asked : Found(c) = {}
Timer == get.at = "loop" /\ (job.slow \/ Silence)

\* Mutant: it is never enough.
GivenUpNever(s) == s
\* cefgetfile has asked often enough.
GivenUp(s) == [s EXCEPT !.at = "end", !.ng = TRUE]

Resend ==
  /\ Timer /\ get.tool = "cefgetfile" /\ ~get.sg
  /\ IF get.retry = MaxRetry THEN get' = GivenUp(get) /\ UNCHANGED node
     ELSE /\ get' = IF Again = {} THEN get ELSE [get EXCEPT !.retry = @ + 1]
          /\ node' = [node EXCEPT !.asked = @ \cup Again]
  /\ UNCHANGED <<job, put, wire, cut, left>>

\* A stream is subscribed to again from time to time.
Subscribe ==
  /\ get.at = "loop" /\ get.sg /\ get.tool # "cefgetchunk"
  /\ ~node.sub /\ node' = [node EXCEPT !.sub = TRUE]
  /\ UNCHANGED <<job, put, wire, cut, get, left>>

Over == get' = [get EXCEPT !.at = "end"] /\ UNCHANGED <<job, put, node, wire, cut, left>>

\* The other tools end when nothing has come for some seconds: a subscription, a file that
\* is to be a stream, and a chunk.
EndSubscription ==
  Timer /\ get.tool # "cefgetchunk" /\ get.sg /\ (job.slow \/ put.at \in {"refused", "done"}) /\ Over
EndStream == Timer /\ get.tool = "cefgetstream" /\ ~get.sg /\ Over
EndWait == Timer /\ get.tool = "cefgetchunk" /\ Over

GetSignal ==
  /\ job.signal /\ get.at = "loop" /\ get' = [get EXCEPT !.at = "end", !.signal = TRUE]
  /\ UNCHANGED <<job, put, node, wire, cut, left>>

\* cef_client_close: cefnetd closes the face, and forgets who was behind it.
Closed(n) == [n EXCEPT !.sub = FALSE, !.asked = {}]

\* After the loop: a stream is taken back, a file that is not complete is removed, the
\* connection is closed.
Finish ==
  /\ get.at = "end"
  /\ get' = [get EXCEPT !.at = "done", !.kept = ~get.ng]
  /\ node' = Closed(node)
  /\ wire' = <<>> /\ cut' = FALSE
  /\ UNCHANGED <<job, put, left>>

Putting == PutStart \/ PutFile \/ PutStream \/ PutEnd
Getting ==
  \/ GetStart \/ Connect \/ Resend \/ Subscribe \/ EndSubscription \/ EndStream \/ EndWait \/ Finish
  \/ \E part \in BOOLEAN : ReadFrame(part) \/ \E n \in 0 .. Len(wire) : ReadPart(n, part)

Next == Putting \/ Getting \/ GetSignal \/ Listen \/ Answer \/ Lose \/ Refuse

\* The tools go on, cefnetd answers what it can; nothing has to be lost.
Fairness == WF_transfer(Putting) /\ WF_transfer(Getting) /\ WF_transfer(Answer)
Spec == Init /\ [][Next]_transfer /\ Fairness

-----------------------------------------------------------------------------
(* Properties.                                                             *)

\* Type invariant.
TypeOK ==
  /\ job \in Jobs /\ put.at \in {"off", "refused", "loop", "done"} /\ put.sent \in 0 .. job.blocks
  /\ get.at \in {"off", "refused", "connect", "loop", "end", "done"}
  /\ get.retry \in 0 .. MaxRetry /\ node.asked \subseteq 0 .. ChunkMax
  /\ \A i \in DOMAIN get.win : get.win[i].got \in {None, get.win[i].seq}
  /\ cut => wire # <<>>

\* What is written of a file is its beginning, each block once and in its place, and the
\* window follows it without a gap: over lost, repeated and reordered Objects, reads that
\* end within a frame, and frames taken again (cefgetfile.c:582-702, cefgetstream.c:540-643).
Written ==
  Regular =>
    /\ get.file = [i \in 1 .. get.recv |-> i - 1]
    /\ get.at = "loop" => \A i \in DOMAIN get.win : get.win[i].seq = get.recv + i - 1

\* A file that cefgetfile leaves behind is the whole one, unless a signal ended it: as
\* many blocks as there were when it was published, or as chunks can be numbered
\* (cefgetfile.c:668-677, 721-731, 774-776).
Kept ==
  get.tool = "cefgetfile" /\ Regular /\ get.at = "done" /\ get.kept /\ ~get.signal
  => Len(get.file) = Min({job.size, ChunkMax + 1})

\* Of a stream every Object is written at most once, and in the order published, unless a
\* read ended within a frame: then the one before it may be written again
\* (cef_client.c:1046-1057, cefgetfile.c:583-621, cefgetstream.c:541-577).
Streamed ==
  ~Regular => \A i, j \in DOMAIN get.file :
    i < j => get.file[i] < get.file[j] \/ (get.split /\ get.file[i] = get.file[j])

Ended == get.at \in {"refused", "done"}

\* Every tool ends, except cefgetfile when all it misses has numbers beyond option -m or
\* is the last number there is: it neither asks again nor counts (cefgetfile.c:736-748).
ToolsEnd == <>Ended \/ <>[](get.at = "loop" /\ get.tool = "cefgetfile" /\ Again = {})

\* A file that is cached and says where it ends is retrieved if not more is lost than
\* cefgetfile may ask again for (cefgetfile.c:718-750).
Favourable ==
  /\ job.get = "cefgetfile" /\ Regular /\ job.after /\ ~job.slow /\ ~job.signal /\ ~job.returns /\ job.full = 0
  /\ job.put = "cefputfile" /\ job.size = job.blocks /\ job.size \in 1 .. ChunkMax
  /\ Cacheable(job.put, job.putArgs) /\ MaxSeq(job.args) >= job.size - 1
  /\ job.lose + job.split <= MaxRetry
  /\ put.at = "done" /\ get.at = "loop"
Fetched == Favourable ~> get.at = "done" /\ get.kept /\ Len(get.file) = job.size
=============================================================================
