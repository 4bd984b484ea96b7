---------------------------- MODULE ContentStoreMC ----------------------------
EXTENDS ContentStore

Obj(n, c, v, e) == [name |-> n, chunk |-> c, ver |-> v, rct |-> e, expiry |-> e]
\* An upgrade whose old chunks are deleted while the cache is full; two contents in one
\* chain that come and go, with an old version late; times that are refreshed.
Fed == {<<Obj("a", 0, 1, 2), Obj("a", 1, 1, 1), Obj("a", 0, 2, 3), Obj("a", 1, 2, 3), Obj("b", 0, 0, 2)>>,
        <<Obj("a", 0, 2, 1), Obj("b", 0, 1, 2), Obj("a", 0, 1, 3), Obj("b", 0, 2, 3)>>,
        <<Obj("c", 0, 1, 1), Obj("c", 1, 1, 1), Obj("c", 0, 1, 3)>>}
InChain == [n \in {"a", "b", "c"} |-> IF n = "c" THEN 2 ELSE 1]
ByChunk == [k \in {"a", "b", "c"} \X {0, 1} |-> k[2]]

In(w, n, v, l) == [what |-> w, name |-> n, ver |-> v, chunk |-> TRUE, last |-> l, rct |-> 3, expiry |-> 3]
Ask(w, n, v) == [what |-> w, name |-> n, ver |-> v, chunk |-> TRUE]
Scripted == {<<In("Object", "x", 1, FALSE), In("Object", "x", 2, TRUE), Ask("Interest", "x", 1)>>,
             <<In("Object", "x", 2, FALSE), In("Object", "y", 1, FALSE), In("Object", "x", 1, FALSE)>>,
             <<Ask("Interest", "x", 0), Ask("PreCcninfo", "x", 0), In("Object", "x", 1, TRUE)>>,
             <<In("Object", "x", 1, FALSE), Ask("ContInfo", "x", 0)>>}
Slots2 == [n \in {"x", "y"} |-> IF n = "x" THEN 1 ELSE 2]
=============================================================================
