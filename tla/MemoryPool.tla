----------------------------- MODULE MemoryPool -----------------------------
(***************************************************************************)
(* The memory pool of src/src/lib/cef_mpool.c: a ring of pointers to free  *)
(* blocks, with head and tail, that takes a further chunk of blocks from   *)
(* the heap when it looks empty.  Every operation holds the pool's mutex   *)
(* from beginning to end, so each is one step.                             *)
(*                                                                         *)
(* A block is a number: chunk c holds c * Increment .. (c+1) * Increment-1.*)
(***************************************************************************)
LOCAL INSTANCE Integers

CONSTANTS
  Increment,  \* blocks of one chunk, rounded up to a power of two
  BlockSize   \* bytes of one block

\* cef_mpool_handle_create
NewPool ==
  [free |-> [i \in 0 .. Increment - 1 |-> i], head |-> 0, tail |-> Increment - 1, num |-> Increment]

\* x & mask of two numbers, by their lower bits
Weights == {1, 2, 4, 8, 16, 32, 64, 128, 256}
And(x, mask) ==
  CHOOSE z \in 0 .. mask : \A w \in Weights : (z \div w) % 2 = ((x \div w) % 2) * ((mask \div w) % 2)

\* The place behind x.  The mask is the number of blocks less one, whether or not that is a
\* power of two: a chunk's share of its bits is all ones, the rest is the number of chunks
\* less one.
Next1(p, x) ==
  ((x + 1) % Increment) + Increment * And((x + 1) \div Increment, (p.num \div Increment) - 1)

\* No block is left between head and tail, whatever is on loan.
LooksEmpty(p) == p.head = p.tail

\* Mutant: tail stays where it was.
GrownSameTail(p) ==
  LET num == p.num + Increment
  IN  [p EXCEPT !.free = [i \in 0 .. num - 1 |-> IF i < p.num THEN p.free[i] ELSE i],
                !.head = p.num, !.num = num]

\* cef_mpool_handle_update: the new blocks come behind the old slots, and
\* head and tail are set to them.
Grown(p) ==
  LET num == p.num + Increment
  IN  [free |-> [i \in 0 .. num - 1 |-> IF i < p.num THEN p.free[i] ELSE i],
       head |-> p.num, tail |-> num - 1, num |-> num]

\* cef_mpool_alloc: the pool the block is taken from, the block, and the pool after.
Source(p) == IF LooksEmpty(p) THEN Grown(p) ELSE p
Allocated(p) == Source(p).free[Source(p).head]
AfterAlloc(p) == [Source(p) EXCEPT !.head = Next1(Source(p), @)]

\* The address test of cef_mpool_free: the end of a chunk is taken as
\* increment * (size - 1) + 1 bytes behind its start.
Recognised(b) == (b % Increment) * BlockSize < Increment * (BlockSize - 1) + 1

\* cef_mpool_free
Freed(p, b) ==
  IF ~Recognised(b) THEN p
  ELSE [p EXCEPT !.tail = Next1(p, @), !.free[Next1(p, p.tail)] = b]

=============================================================================
