---------------------------- MODULE ForwarderMC -----------------------------
(***************************************************************************)
(* Small instances of Forwarder for TLC: one local application, one        *)
(* downstream node, and an upstream node with the only route, or with one  *)
(* of two.                                                                 *)
(***************************************************************************)
EXTENDS Forwarder

CONSTANTS app, node, next, alt

MCFaces == {app, node, next}
FourFaces == MCFaces \cup {alt}
MCFaceType == [f \in MCFaces |-> IF f = app THEN "local" ELSE "udp"]
FourTypes == [f \in FourFaces |->
  CASE f = app -> "local" [] f = alt -> "tcp" [] OTHER -> "udp"]
OneRoute == <<next>>
TwoRoutes == <<alt, next>>

Msg(kinds, restrs, chunks, lives, hops) ==
  [kind : kinds, restr : restrs, chunk : chunks, life : lives, hop : hops]

\* Interests for a stream: with and without a lifetime option, with hops and
\* with none left, and the one with lifetime 0 that takes a request back.
SymbolicLives ==
  Msg({"Sym"}, {"none"}, {NoChunk}, {0, 1, 3}, {2}) \cup Msg({"Sym"}, {"none"}, {NoChunk}, {NoLife}, {0, 1})

\* Requests for a stream beside those for a chunk of it, restricted to a
\* KeyId or not, and beside long-lived ones.
SymbolicShort == Msg({"Sym"}, {"none"}, {NoChunk}, {1}, {2})
SymbolicAndKeyed == SymbolicShort \cup Msg({"Rgl"}, {"key"}, {1}, {1}, {2})
EveryKind ==
  SymbolicShort \cup Msg({"Rgl"}, {"none"}, {1}, {1}, {2}) \cup Msg({"Long"}, {"none"}, {NoChunk}, {1}, {2})

Stream == [keyid : {"none"}, chunk : {0, 1}]
Whole == [keyid : {"none"}, chunk : {1, NoChunk}]
WholeSigned == [keyid : {"none", "key"}, chunk : {1, NoChunk}]

Reg == Msg({"Sym"}, {"none"}, {NoChunk}, {NoLife}, {1})
ReturnAny == Msg({"Rgl"}, {"none"} \cup KeyIds, {1}, {2}, {1})
None == {}
=============================================================================
