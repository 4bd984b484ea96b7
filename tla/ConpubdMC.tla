------------------------------ MODULE ConpubdMC ------------------------------
(***************************************************************************)
(* Instances of Conpubd: the definitions change while the daemon runs.     *)
(***************************************************************************)
EXTENDS Conpubd

Line(name, ver, exp, size, path) ==
  [name |-> name, uri |-> "name", ver |-> ver, path |-> path, size |-> size, words |-> 3,
   options |-> IF exp = LastDay THEN <<>> ELSE <<[is |-> "date", form |-> "date", value |-> exp]>>]
File(ls) == [there |-> TRUE, lines |-> ls]
Gone == [there |-> FALSE, lines |-> <<>>]
Want(name, chunk, ver) == [name |-> name, chunk |-> chunk, ver |-> ver]

Quietly == [files |-> <<File(<<>>)>>, tools |-> <<>>, plugin |-> "memory", time |-> 0, busy |-> 0, restarts |-> 0,
            splits |-> 0, asks |-> {}, target |-> NoAsk]
Off(defs, peers) == [Quietly EXCEPT !.files = defs, !.tools = peers]
Asked(s, a, more) == [s EXCEPT !.asks = {a} \cup more, !.target = a]

\* a new version while Interests come
Renews == Asked(Off(<<File(<<Line(1, <<1>>, LastDay, 1, "ok")>>), File(<<Line(1, <<2>>, LastDay, 2, "ok")>>)>>,
                     <<"reload">>), Want(1, 0, <<>>), {})
\* a content that expires, found by an Interest or by the expiry thread
Expires == [Asked(Off(<<File(<<Line(1, <<>>, 1, 1, "ok"), Line(2, <<>>, LastDay, 1, "ok")>>)>>, <<>>),
                  Want(1, 0, <<>>), {}) EXCEPT !.time = 2]
\* files: the directory of a content is given to another
Paging == [Asked(Off(<<File(<<Line(1, <<1>>, LastDay, 2, "ok")>>), File(<<Line(2, <<1>>, LastDay, 2, "ok")>>)>>, <<"reload">>),
                 Want(2, 1, <<>>), {Want(1, 0, <<1>>)}) EXCEPT !.plugin = "filesystem"]
Pairs == [Asked(Off(<<File(<<Line(1, <<1>>, LastDay, 2, "ok"), Line(2, <<1>>, LastDay, 1, "ok")>>)>>, <<>>),
                Want(2, 0, <<>>), {Want(1, 0, <<1>>)}) EXCEPT !.plugin = "filesystem"]
\* versions go up and down
Reversions == Off(<<File(<<Line(1, <<2>>, LastDay, 1, "ok")>>), File(<<Line(1, <<1>>, LastDay, 1, "ok")>>)>>,
                  <<"reload", "reload">>)
\* the file is missing, and conpubd is told to stop
Stopped == Off(<<File(<<Line(1, <<>>, LastDay, 1, "ok")>>), Gone>>, <<"reload", "kill">>)
\* more than the cache takes
Scant == Off(<<File(<<Line(1, <<>>, LastDay, 2, "ok")>>),
               File(<<Line(2, <<>>, LastDay, 2, "ok"), Line(1, <<>>, 8, 2, "ok")>>)>>, <<"reload">>)
\* files that cannot be read
Spoilt == Off(<<File(<<Line(2, <<>>, LastDay, 1, "scarce"), Line(1, <<>>, LastDay, 1, "bad")>>)>>, <<>>)
\* cefnetd restarts, while an Interest is on its way, and while a load goes on
Restarts == [Asked(Off(<<File(<<Line(1, <<>>, LastDay, 1, "ok")>>)>>, <<>>), Want(1, 0, <<>>), {}) EXCEPT !.restarts = 1]
Reconnects == [Off(<<File(<<Line(1, <<>>, LastDay, 1, "ok")>>), File(<<Line(1, <<>>, LastDay, 1, "ok"), Line(2, <<>>, LastDay, 1, "ok")>>)>>,
                   <<"reload">>) EXCEPT !.restarts = 1]
\* peers take the slots; requests without an answer take the room; pieces come apart
Crowd == [Asked(Off(<<File(<<Line(1, <<1>>, LastDay, 1, "ok")>>)>>, <<"status">>),
                Want(1, 0, <<0>>), {Want(1, 0, <<2>>)}) EXCEPT !.splits = 1, !.busy = 1]
MCScenarios == {Renews, Expires, Paging, Pairs, Reversions, Stopped, Scant, Spoilt, Restarts, Reconnects, Crowd}
=============================================================================
