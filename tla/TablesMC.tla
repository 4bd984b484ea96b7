------------------------------ MODULE TablesMC ------------------------------
(***************************************************************************)
(* The tables under the forwarding plane: the faces and the routes of      *)
(* cefnetd (Routes), which it keeps in tables of cef_hash.c, and one such  *)
(* table (HashTable).  Routes takes them for maps, which HashTable shows   *)
(* them to be; so a behaviour is either of the routes or of a table.       *)
(***************************************************************************)
EXTENDS Routes, HashTable, TLC

VARIABLE of  \* whose behaviour it is

TablesInit ==
  /\ of \in {"routes", "table"}
  /\ Init /\ HashInit
  /\ of = "routes" => home = [k \in Keys |-> 0]

TablesNext ==
  /\ UNCHANGED of
  /\ \/ of = "routes" /\ Next /\ UNCHANGED hashVars
     \/ of = "table" /\ HashNext /\ UNCHANGED vars

TablesSpec == TablesInit /\ [][TablesNext]_<<of, vars, hashVars>>

-----------------------------------------------------------------------------
(* A small FIB with small peers, and a small table.  The keys and the      *)
(* elements of the table are interchangeable: every hash function is an    *)
(* initial state.                                                          *)

CONSTANTS n1, n2, n3, here, there, wire, app

Msg(ops, uries, hosts, owners) == [op : ops, uri : uries, hosts : hosts, owner : owners]

\* Static routes to here, and to here and wire; dynamic ones to there.
Apart ==
  Msg({"add", "del"}, {n1}, {<<here>>}, {"static"})
  \cup Msg({"add", "del"}, {n2}, {<<here, wire>>}, {"static"})
  \cup Msg({"add", "del"}, {n3}, {<<there>>}, {"dynamic"})

ConfigOne == <<[op |-> "add", uri |-> n1, host |-> here, owner |-> "static"]>>

Symmetric == Permutations(Keys) \cup Permutations(Elems)
=============================================================================
