------------------------------ MODULE RingQueue ------------------------------
(***************************************************************************)
(* The ring queue of src/src/lib/cef_rngque.c: a power of two of slots,    *)
(* with top and bottom.  One slot stays unused, so that a full ring        *)
(* differs from an empty one.  Emptiness and fullness are tested before    *)
(* the mutex is taken, and the slot of a popped element is read after it   *)
(* is released: the module that uses the queue says which are steps.       *)
(***************************************************************************)
LOCAL INSTANCE Integers

CONSTANT Slots  \* the capacity, rounded up to a power of two

\* cef_rngque_create
NewRing(none) == [top |-> 0, bottom |-> 0, body |-> [i \in 0 .. Slots - 1 |-> none]]

\* (x + 1) & mask
Behind(x) == (x + 1) % Slots

\* Mutant: the last element counts as none.
IsNearlyEmpty(q) == q.bottom = q.top \/ q.bottom = Behind(q.top)
IsEmpty(q) == q.bottom = q.top

\* Mutant: the test is dropped.
NeverFull(q) == FALSE
IsFull(q) == Behind(q.bottom) = q.top

\* cef_rngque_push, when it is not full
Pushed(q, item) == [q EXCEPT !.body = [@ EXCEPT ![q.bottom] = item], !.bottom = Behind(@)]

\* cef_rngque_pop, when it is not empty: what the mutex covers; the element
\* is then in slot top of the ring before.
Popped(q) == [q EXCEPT !.top = Behind(@)]

\* What the ring stands for: its elements, the oldest first.
Contents(q) == [i \in 1 .. (q.bottom - q.top) % Slots |-> q.body[(q.top + i - 1) % Slots]]
=============================================================================
