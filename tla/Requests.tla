------------------------------ MODULE Requests ------------------------------
(***************************************************************************)
(* What a forwarder promises to those who ask: a request waits until it is *)
(* answered, its time is over, its face is gone, or it is withdrawn; an    *)
(* answer goes only to a face that waits, and it ends the waiting of a     *)
(* request that asked for one answer.  Nothing is said here of tables,     *)
(* keys without chunk, aggregation or cleaning.                            *)
(***************************************************************************)
EXTENDS Naturals

CONSTANTS
  Requesters,  \* faces
  Topics,      \* what can be asked for
  Withdrawable \* topics whose requests an application may withdraw

VARIABLES
  waiting,     \* request <<face, topic>> -> the time it waits for
  lasting,     \* topics whose requests may have many answers
  reachable,   \* faces that can be answered
  clock,
  answered     \* faces that the last step answered

rvars == <<waiting, lasting, reachable, clock, answered>>

Requests == Requesters \X Topics

RInit ==
  /\ waiting = [r \in {} |-> 0] /\ lasting = {}
  /\ reachable = Requesters
  /\ clock = 1 /\ answered = {}

\* Requests that a step may lose without an answer.
Over(r) == waiting[r] < clock \/ r[1] \notin reachable

SameUntil(R) == \A r \in R : waiting'[r] = waiting[r]

\* One request is made or renewed; what is over may be forgotten on the way.
Ask(f, t) ==
  /\ f \in reachable
  /\ answered' = {} /\ UNCHANGED <<reachable, clock>>
  /\ \A r \in DOMAIN waiting \ DOMAIN waiting' : Over(r)
  /\ DOMAIN waiting' \subseteq DOMAIN waiting \cup {<<f, t>>}
  /\ SameUntil((DOMAIN waiting \cap DOMAIN waiting') \ {<<f, t>>})
  /\ lasting' \subseteq lasting \cup {t}

\* An answer on the topic t, to every reachable face that waits for it; only
\* a request that is over, but not yet forgotten, may go without.
Answer(t) ==
  LET takers == {r \in DOMAIN waiting : r[2] = t /\ r[1] \in reachable}
  IN  /\ UNCHANGED <<reachable, clock>>
      /\ answered' \subseteq {r[1] : r \in takers}
      /\ \A r \in takers : ~Over(r) => r[1] \in answered'
      /\ t \notin lasting => takers \cap DOMAIN waiting' = {}
      /\ \A r \in DOMAIN waiting \ DOMAIN waiting' : Over(r) \/ (r \in takers /\ t \notin lasting)
      /\ DOMAIN waiting' \subseteq DOMAIN waiting /\ SameUntil(DOMAIN waiting')
      /\ lasting' \subseteq lasting

\* What is over is forgotten, and nothing else.
Forget ==
  /\ answered' = {} /\ UNCHANGED <<reachable, clock>>
  /\ \A r \in DOMAIN waiting \ DOMAIN waiting' : Over(r)
  /\ DOMAIN waiting' \subseteq DOMAIN waiting /\ SameUntil(DOMAIN waiting')
  /\ lasting' \subseteq lasting

\* An application withdraws what may be withdrawn.
Withdraw ==
  /\ answered' = {} /\ UNCHANGED <<reachable, clock>>
  /\ \A r \in DOMAIN waiting \ DOMAIN waiting' : r[2] \in Withdrawable \/ Over(r)
  /\ DOMAIN waiting' \subseteq DOMAIN waiting /\ SameUntil(DOMAIN waiting')
  /\ lasting' \subseteq lasting

World ==
  /\ answered' = {} /\ clock' \in {clock, clock + 1} /\ reachable' \subseteq Requesters
  /\ UNCHANGED <<waiting, lasting>>

RNext ==
  \/ World
  \/ Forget
  \/ \E f \in Requesters, t \in Topics : Ask(f, t)
  \/ \E t \in Topics : Answer(t)
  \/ Withdraw

RSpec == RInit /\ [][RNext]_rvars
=============================================================================
