------------------------------- MODULE CsmgrdMC -------------------------------
EXTENDS Csmgrd, TLC

\* Two local peers, a TCP peer that comes again, and another one.
Peers == <<"local", "local", "x", "x", "y">>

Few == {
  \* The second local peer takes the place of the first; another peer comes.
  [asks |-> 1 :> <<"Interest">> @@ 2 :> <<"Interest">> @@ 5 :> <<"Interest">>,
   leave |-> {}, rounds |-> 0, signal |-> FALSE],
  \* A peer comes again, before or after the daemon saw that it had left.
  [asks |-> 3 :> <<"Status", "Interest">> @@ 4 :> <<"Interest">>,
   leave |-> {3}, rounds |-> 0, signal |-> FALSE],
  [asks |-> 3 :> <<"Interest">> @@ 4 :> <<>> @@ 5 :> <<"Interest">>,
   leave |-> {3}, rounds |-> 0, signal |-> FALSE],
  \* Objects, some of them broken off, while resources may lack.
  [asks |-> 1 :> <<"Cut">> @@ 2 :> <<"Object">>, leave |-> {}, rounds |-> 1, signal |-> FALSE],
  [asks |-> 5 :> <<"Object", "Cut", "Object", "Object">>, leave |-> {}, rounds |-> 0, signal |-> FALSE],
  \* The end, by a signal or because a peer asks for it.
  [asks |-> 5 :> <<"Object", "Object">>, leave |-> {}, rounds |-> 0, signal |-> TRUE],
  [asks |-> 1 :> <<"Interest", "Kill">>, leave |-> {1}, rounds |-> 0, signal |-> TRUE]}

Found == {[memory |-> "low", cobs |-> "low", file |-> "low"],
          [memory |-> "high", cobs |-> "low", file |-> "between"]}
=============================================================================
