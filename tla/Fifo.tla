-------------------------------- MODULE Fifo --------------------------------
(***************************************************************************)
(* What a queue between two threads promises: what one puts in, the other  *)
(* gets, in that order, each once.                                         *)
(***************************************************************************)
EXTENDS Sequences

CONSTANTS Items, Nothing

VARIABLES
  queue,  \* the items put in and not taken yet
  taken   \* the item the consumer has taken and not finished with, or Nothing

Init == queue = <<>> /\ taken = Nothing

Put(x) == queue' = Append(queue, x) /\ UNCHANGED taken

Take ==
  /\ taken = Nothing /\ queue # <<>>
  /\ taken' = Head(queue) /\ queue' = Tail(queue)

Finish == taken # Nothing /\ taken' = Nothing /\ UNCHANGED queue

Next == Take \/ Finish \/ \E x \in Items : Put(x)

Spec == Init /\ [][Next]_<<queue, taken>>
=============================================================================
