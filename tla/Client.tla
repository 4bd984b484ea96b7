------------------------------- MODULE Client -------------------------------
(***************************************************************************)
(* The client library (cef_client.c) and the two ways it is used: by an    *)
(* application that says message after message (Exchange), and by the      *)
(* tools that publish and retrieve a file, a stream or a chunk (Transfer). *)
(* An application and a tool share nothing but cefnetd: in a behaviour one *)
(* of them is at work.                                                     *)
(***************************************************************************)
EXTENDS Exchange

CONSTANTS Jobs, DefPipeLine, MaxPipeLine, MaxRetry, ChunkMax, ConnectRetries, MaxPort, DefPort, IdSize

\* The numbers of options are of 32 bits; a file that is empty when its size is read does not
\* grow past the last chunk number, and a stream has no other size than its blocks.
JobAssumption(j) ==
  /\ j.blocks \in Nat /\ j.size \in Nat /\ (j.size > 0 \/ j.blocks <= ChunkMax)
  /\ j.put # "cefputfile" => j.size = j.blocks
  /\ \A i \in DOMAIN j.args :
       /\ j.args[i].val \in Int /\ j.args[i].val <= ChunkMax
       /\ j.args[i].opt = "-c" => j.args[i].val \in Nat \cup {-2}

ASSUME ClientAssumption ==
  /\ {DefPipeLine, MaxPipeLine, MaxRetry, ChunkMax, ConnectRetries, MaxPort} \subseteq Nat \ {0}
  /\ DefPipeLine <= MaxPipeLine /\ MaxPipeLine <= ChunkMax /\ DefPort \in 1 .. MaxPort /\ IdSize \in Nat
  /\ \E j \in Jobs : j.blocks = 0
  /\ \A j \in Jobs : JobAssumption(j)

VARIABLES task, put, node, frames, cut, get, left   \* those of Transfer

tools == <<task, put, node, frames, cut, get, left>>

T == INSTANCE Transfer WITH job <- task, wire <- frames

\* No tool was started.
NoTool ==
  /\ task = CHOOSE j \in Jobs : j.blocks = 0
  /\ put = [at |-> "done", sent |-> 0]
  /\ node = [listens |-> TRUE, store |-> {}, asked |-> {}, sub |-> FALSE]
  /\ frames = <<>> /\ cut = FALSE
  /\ get = [at |-> "done", tool |-> "cefgetchunk", sg |-> FALSE, tries |-> 0, win |-> <<>>,
            frame |-> [what |-> "none"], file |-> <<>>, recv |-> 0, end |-> T!None, running |-> FALSE,
            write |-> FALSE, ng |-> FALSE, retry |-> 0, ask |-> {}, kept |-> TRUE, split |-> FALSE, signal |-> FALSE]
  /\ left = [lose |-> 0, split |-> 0, full |-> 0]

ClientInit == /\ TalkInit
              /\ IF sc.say = <<>> THEN T!Init /\ task.blocks > 0 ELSE NoTool

ClientNext == (T!Next /\ UNCHANGED talk) \/ (TalkNext /\ UNCHANGED tools)

ClientSpec == ClientInit /\ [][ClientNext]_<<talk, tools>> /\ Fairness /\ T!Fairness

-----------------------------------------------------------------------------
(* What Transfer promises of the tools.                                    *)

\* Type invariant of the tools.
ToolsTypeOK == T!TypeOK
\* What is written of a file is its beginning, each block once and in its place, and the
\* window follows it without a gap: over lost, repeated and reordered Objects, reads that
\* end within a frame, and frames taken again (cefgetfile.c:582-702, cefgetstream.c:540-643).
Written == T!Written
\* A file that cefgetfile leaves behind is the whole one, unless a signal ended it: as
\* many blocks as there were when it was published, or as chunks can be numbered
\* (cefgetfile.c:668-677, 721-731, 774-776).
Kept == T!Kept
\* Of a stream every Object is written at most once, and in the order published, unless a
\* read ended within a frame: then the one before it may be written again
\* (cef_client.c:1046-1057, cefgetfile.c:583-621, cefgetstream.c:541-577).
Streamed == T!Streamed
\* Every tool ends, except cefgetfile when all it misses has numbers beyond option -m or
\* is the last number there is: it neither asks again nor counts (cefgetfile.c:736-748).
ToolsEnd == T!ToolsEnd
\* A file that is cached and says where it ends is retrieved if not more is lost than
\* cefgetfile may ask again for (cefgetfile.c:718-750).
Fetched == T!Fetched

-----------------------------------------------------------------------------
(* The properties that are checked together.                               *)

\* What is read, in cefnetd, behind it or in print, is what was said, message for message
\* and field for field (cef_client_message_input, cefnetd_input_message_process, cef_frame.c).
SaidStays == TalkTypeOK /\ Framed /\ NoStranger /\ SaidIsRead /\ SameName

\* Messages and their transport numbers keep their order (cef_netd.c:3104-3345, 8795).
Ordered == InOrder /\ NumbersGrow

\* What the tools write is what was published (cefgetfile.c, cefgetstream.c).
FilesTrue == ToolsTypeOK /\ Written /\ Kept /\ Streamed

\* Streams are read to their end, tools end, and what can be fetched is.
Progress == Settles /\ ToolsEnd /\ Fetched
=============================================================================
