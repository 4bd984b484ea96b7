---------------------------- MODULE MemoryCacheMC ----------------------------
EXTENDS MemoryCache

Obj(n, v, e) == [content |-> "c", chunk |-> n, version |-> v, expiry |-> e, id |-> 0]
\* Two chunks of version 1, a third, and what a publisher sends of version 2.
FewBatches == {<<Obj(0, 1, 1), Obj(1, 1, 2)>>, <<Obj(2, 1, 2)>>, <<Obj(0, 2, 2)>>}
=============================================================================
