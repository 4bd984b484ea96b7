----------------------------- MODULE Dictionary -----------------------------
(***************************************************************************)
(* What the users of a table of src/src/lib/cef_hash.c rely on: a finite   *)
(* map from keys to elements, with as many keys as the user asked for.     *)
(***************************************************************************)
EXTENDS FiniteSets, Naturals, Functions

CONSTANTS
  Keys,    \* keys, whatever their bytes
  Elems,   \* pointers to the users' entries
  Room     \* how many keys the user may store

VARIABLE dict

DictInit == dict = [k \in {} |-> CHOOSE e \in Elems : TRUE]

Store(k, e) ==
  /\ Cardinality(DOMAIN dict) < Room
  /\ dict' = [x \in DOMAIN dict \cup {k} |-> IF x = k THEN e ELSE dict[x]]

Forget(k) == dict' = Restrict(dict, DOMAIN dict \ {k})

DictNext ==
  \/ \E k \in DOMAIN dict : Forget(k)
  \/ \E k \in Keys \ DOMAIN dict, e \in Elems : Store(k, e)

DictSpec == DictInit /\ [][DictNext]_dict
=============================================================================
