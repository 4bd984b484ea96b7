----------------------------- MODULE RouteTable -----------------------------
(***************************************************************************)
(* What the operator and the routing daemon may expect of the FIB of       *)
(* cefnetd: a set of routes <<uri, host, owner>>.  A route stays until its *)
(* owner deletes it, the TCP connection to its host is lost, or cefnetd is *)
(* started anew.  Face-IDs do not show.                                    *)
(***************************************************************************)
CONSTANTS
  Uris,
  Hosts,      \* next hops
  Losable,    \* the next hops reached over TCP
  Owners      \* who adds and deletes routes

VARIABLE routes

AddRoute(p, h, o) == routes' = routes \cup {<<p, h, o>>}

DeleteRoute(p, h, o) == routes' = routes \ {<<p, h, o>>}

LoseHost(h) == routes' = {r \in routes : r[2] # h}

TableInit == routes = {}

TableNext ==
  \/ \E p \in Uris, h \in Hosts, o \in Owners :
       AddRoute(p, h, o) \/ DeleteRoute(p, h, o)
  \/ \E h \in Losable : LoseHost(h)
  \/ routes' = {}

TableSpec == TableInit /\ [][TableNext]_routes
=============================================================================
