----------------------------- MODULE Forwarder ------------------------------
(***************************************************************************)
(* The forwarding plane of one cefnetd: what the handlers of               *)
(* src/src/cefnetd/cef_netd.c do with an Interest, a Content Object, an    *)
(* Interest Return and an application's registration, and the sweep that   *)
(* the main loop makes over the Pending Interest Tables.                   *)
(*                                                                         *)
(* The main thread runs one handler or one sweep at a time, so each is one *)
(* action.  All messages carry one name; a PIT key is the restriction and  *)
(* the chunk number that the name is extended with.  The build is the      *)
(* default one, without Content Store; IrOn says that Interest Return is   *)
(* compiled in and enabled.                                                *)
(***************************************************************************)
EXTENDS PitEntry, Integers, Sequences

CONSTANTS
  FaceType,       \* cef_face_type_get: "local", "udp" or "tcp" for each face
  FibFaces,       \* the faces of the FIB entry of the name, in list order
  Restrictions,   \* restrictions an Interest may carry: "none", a KeyId, "hash"
  KeyIds,         \* KeyIds an Object may be signed with ("none": unsigned)
  Chunks,         \* chunk numbers
  NoChunk,        \* "the name has no chunk number"
  NoFace,         \* "no application registered the name"
  PitMax,         \* PIT_SIZE
  AppPitMax,      \* PIT_SIZE_APP
  SymbolicBack,   \* SYMBOLIC_BACKBUFFER
  Resend,         \* INTEREST_RETRANSMISSION: "RFC8569" or "NOSUP"
  IrOn,           \* ENABLE_INTEREST_RETURN, with every return code enabled
  Consumers,      \* faces from which Interests arrive
  Producers,      \* faces from which Objects and Interest Returns arrive
  Flaky,          \* faces that may lose their socket
  Interests,      \* Interests that arrive: [kind, restr, chunk, life, hop]
  Objects,        \* Objects that arrive: [keyid, chunk]
  Returns,        \* Interests that come back as Interest Returns
  Registrations,  \* PIT registrations of applications
  LastArrival,    \* bound: no Interest or registration arrives later
  MaxTime         \* bound: the clock stops there

Message ==
  [ kind : {"Rgl", "Long", "Sym"}, restr : Restrictions, chunk : Chunks \cup {NoChunk},
    life : Nat \cup {NoLife}, hop : Nat ]

ASSUME ForwarderAssumption ==
  /\ FaceType \in [Faces -> {"local", "udp", "tcp"}]
  /\ FibFaces \in Seq(Faces)
  /\ Chunks \subseteq Nat /\ NoChunk \notin Nat /\ NoFace \notin Faces
  /\ PitMax \in Nat /\ AppPitMax \in Nat /\ SymbolicBack \in Nat
  /\ Resend \in {"RFC8569", "NOSUP"} /\ IrOn \in BOOLEAN
  /\ Interests \cup Returns \cup Registrations \subseteq Message
  /\ Objects \subseteq [keyid : KeyIds \cup {"none"}, chunk : Chunks \cup {NoChunk}]
  /\ Consumers \cup Producers \cup Flaky \subseteq Faces
  /\ LastArrival \in Nat /\ MaxTime \in Nat

VARIABLES
  pit,          \* hdl->pit: PIT key -> entry
  app_pit,      \* hdl->app_pit: PIT key -> entry
  app_reg,      \* hdl->app_reg: the face that registered the name, or NoFace
  active,       \* the faces for which cef_face_check_active holds
  now,          \* the time of day
  pit_clean_t,  \* hdl->pit_clean_t
  tx,           \* what the last step gave to the transmit queue
  dangling      \* keys whose entry of app_pit was freed but is still there

vars == <<pit, app_pit, app_reg, active, now, pit_clean_t, tx, dangling>>

Keys == (Restrictions \cup KeyIds \cup {"none"}) \X (Chunks \cup {NoChunk})
IsTable(tbl) ==
  /\ DOMAIN tbl \subseteq Keys /\ tbl = [k \in DOMAIN tbl |-> tbl[k]]
  /\ \A k \in DOMAIN tbl : IsEntry(tbl[k])
Sent == [to : Faces, what : {"int", "obj", "ret", "ir"}]

TypeOK ==
  /\ IsTable(pit) /\ IsTable(app_pit)
  /\ app_reg \in Faces \cup {NoFace}
  /\ active \subseteq Faces
  /\ now \in Nat /\ pit_clean_t \in Nat
  /\ tx \subseteq Sent
  /\ dangling \subseteq Keys

NoEntries == [k \in {} |-> NewEntry("Rgl", 0)]

Init ==
  /\ pit = NoEntries /\ app_pit = NoEntries
  /\ app_reg = NoFace
  /\ active = Faces
  /\ now = 1 /\ pit_clean_t = 0
  /\ tx = {} /\ dangling = {}

IsLocal(f) == FaceType[f] = "local"
To(S, what) == {[to |-> f, what |-> what] : f \in S}

-----------------------------------------------------------------------------
(* Tables and searches.  A search returns the set of the keys it matched:  *)
(* one, or none.                                                           *)

Put(tbl, k, e) == [x \in DOMAIN tbl \cup {k} |-> IF x = k THEN e ELSE tbl[x]]
Drop(tbl, k) == [x \in DOMAIN tbl \ {k} |-> tbl[x]]
\* Mutant: the size is checked one entry too late.
FullLate(tbl, max) == Cardinality(DOMAIN tbl) > max
Full(tbl, max) == Cardinality(DOMAIN tbl) = max

\* cef_pit_entry_lookup_with_lock: the entry found, or a new one.
Looked(tbl, k, m) == IF k \in DOMAIN tbl THEN tbl[k] ELSE NewEntry(PitTypeOf(m), now)
LookupFails(tbl, k, max) == k \notin DOMAIN tbl /\ Full(tbl, max)

\* The key tried first, with the tag of the message; the bare name if the
\* table has no such key.
KeyOr(tbl, tag, chunk) == IF <<tag, chunk>> \in DOMAIN tbl THEN <<tag, chunk>> ELSE <<"none", chunk>>

Alive(tbl, k) == now <= tbl[k].adv

\* cef_pit_entry_search_with_chunk
SearchWithChunk(tbl, o) ==
  {k \in {KeyOr(tbl, o.keyid, o.chunk)} \cap DOMAIN tbl : Alive(tbl, k)}

\* cef_pit_entry_search_symbolic: the entry it looks at is cleaned first.
SymbolicKey(tbl, tag, chunk) ==
  {k \in {KeyOr(tbl, tag, NoChunk)} \cap DOMAIN tbl :
     chunk # NoChunk /\ tbl[k].type = "Sym"}
SearchSymbolic(tbl, tag, chunk) == {k \in SymbolicKey(tbl, tag, chunk) : Alive(tbl, k)}
CleanedIn(tbl, K) == [k \in DOMAIN tbl |-> IF k \in K THEN PitCleanup(tbl[k], now, active) ELSE tbl[k]]

\* cef_pit_entry_search, for a message with an Interest's key: the entry of
\* the key; failing that, a long-lived entry of the name without chunk.
LonglifeKey(tbl, m) ==
  {k \in {<<m.restr, NoChunk>>} \cap DOMAIN tbl :
     m.chunk # NoChunk /\ <<m.restr, m.chunk>> \notin DOMAIN tbl /\ tbl[k].longlife}
Search(tbl, m) ==
  {k \in ({<<m.restr, m.chunk>>} \cap DOMAIN tbl) \cup LonglifeKey(tbl, m) : Alive(tbl, k)}

-----------------------------------------------------------------------------
(* cefnetd_incoming_interest_process                                       *)

\* cef_forward_interest: the first active face of the type of the incoming
\* face, or else the first active face, but never the incoming face.
NextHop(f) ==
  LET usable == {i \in DOMAIN FibFaces : FibFaces[i] # f /\ FibFaces[i] \in active}
      same   == {i \in usable : FaceType[FibFaces[i]] = FaceType[f]}
      best   == IF same # {} THEN same ELSE usable
  IN  {FibFaces[i] : i \in {j \in best : \A l \in best : j <= l}}

\* cefnetd_interest_forward: an Interest from another node loses a hop.
HopsLeft(f, m) == IF IsLocal(f) THEN m.hop ELSE m.hop - 1

\* Where the Interest goes: [next, ir]; next is the face it is sent to.
Routed(f, m, forward) ==
  IF app_reg # NoFace /\ app_reg # f
    THEN [next |-> {app_reg} \cap active, ir |-> {}]
  ELSE IF forward /\ FibFaces # << >>
    THEN [next |-> IF HopsLeft(f, m) < 1 THEN {} ELSE NextHop(f), ir |-> {}]
  ELSE [next |-> {}, ir |-> IF IrOn THEN {f} ELSE {}]

\* The entry after the Interest, with the Interest Return it may hold and the
\* up face it was sent to.
Updated(e, f, m) ==
  LET u    == DownFaceUpdate(e, f, m, now, FALSE, Resend)
      held == IF m.hop = 1 /\ ~IsLocal(f) /\ IrOn
                THEN InterestReturnSet(u.entry, f, "hoplimit") ELSE u.entry
      r    == Routed(f, m, u.forward)
  IN  [ entry   |-> UpFaceUpdate(held, r.next),
        forward |-> u.forward,
        tx      |-> To(r.next, "int") \cup To(r.ir, "ir") ]

\* An Interest whose hop limit is spent.
InterestSpent(f, m) ==
  /\ m.hop < 1
  /\ tx' = IF IrOn THEN To({f}, "ir") ELSE {}
  /\ UNCHANGED <<pit, app_pit>>

\* cef_pit_symbolic_pit_check: a Symbolic Interest for a Regular entry.
TypeClash(m) ==
  /\ m.kind = "Sym"
  /\ <<m.restr, m.chunk>> \in DOMAIN pit /\ pit[<<m.restr, m.chunk>>].type # "Sym"

InterestClashes(f, m) ==
  /\ m.hop >= 1 /\ TypeClash(m)
  /\ tx' = {} /\ UNCHANGED <<pit, app_pit>>

\* Whether the Interest comes from the application that registered the PIT
\* entry of the name: its request then waits in app_pit.
AppPitCleaned(f, m) ==
  IF IsLocal(f) THEN CleanedIn(app_pit, SymbolicKey(app_pit, m.restr, m.chunk)) ELSE app_pit
FromProxy(f, m) ==
  /\ IsLocal(f)
  /\ \E k \in SearchSymbolic(app_pit, m.restr, m.chunk) : f \in DOMAIN AppPitCleaned(f, m)[k].dn

\* An Interest that finds app_pit full falls back to pit.
WaitsInAppPit(f, m) ==
  FromProxy(f, m) /\ ~LookupFails(app_pit, <<m.restr, m.chunk>>, AppPitMax)

InterestPit(f, m) ==
  LET k == <<m.restr, m.chunk>>
      u == Updated(Looked(pit, k, m), f, m)
  IN  /\ m.hop >= 1 /\ ~TypeClash(m) /\ ~WaitsInAppPit(f, m)
      /\ app_pit' = AppPitCleaned(f, m)
      /\ IF LookupFails(pit, k, PitMax)
           THEN tx' = {} /\ pit' = pit
           ELSE tx' = u.tx /\ pit' = Put(pit, k, u.entry)

InterestAppPit(f, m) ==
  LET k   == <<m.restr, m.chunk>>
      tbl == AppPitCleaned(f, m)
      u   == Updated(Looked(tbl, k, m), f, m)
  IN  /\ m.hop >= 1 /\ ~TypeClash(m) /\ WaitsInAppPit(f, m)
      /\ pit' = pit
      /\ tx' = u.tx /\ app_pit' = Put(tbl, k, u.entry)

Interest(f, m) ==
  /\ f \in active
  /\ \/ InterestSpent(f, m) \/ InterestClashes(f, m)
     \/ InterestPit(f, m)   \/ InterestAppPit(f, m)
  /\ UNCHANGED <<app_reg, active, now, pit_clean_t, dangling>>

-----------------------------------------------------------------------------
(* cefnetd_incoming_object_process                                         *)

\* The application's PIT comes first, unless the application sent the Object.
ObjectForApp(f, o) == {k \in SearchWithChunk(app_pit, o) : f \notin DOMAIN app_pit[k].dn}

\* The Symbolic entry that takes the Object: chunks that are too far behind
\* the last one forwarded are not for it.
Behind(e, o) == o.chunk < e.last - SymbolicBack
Subscribed(o) == {k \in SearchSymbolic(pit, o.keyid, o.chunk) : ~Behind(pit[k], o)}

\* pit once the search has cleaned the Symbolic entry and Last_chunk_num is set.
PitSearched(o) ==
  LET tbl == CleanedIn(pit, SymbolicKey(pit, o.keyid, o.chunk))
  IN  [k \in DOMAIN tbl |-> IF k \in Subscribed(o) /\ tbl[k].last < o.chunk
                              THEN [tbl[k] EXCEPT !.last = o.chunk] ELSE tbl[k]]

\* Mutant: the check of the entry's type is made for every Object.
MatchedRegularOnly(tbl, o) ==
  LET exact == SearchWithChunk(tbl, o)
      found == IF exact # {} THEN exact ELSE Subscribed(o)
  IN  {k \in found : tbl[k].type = "Rgl"}

\* The entry the Object is forwarded on: the one of its own key, or else the
\* Symbolic one.  An Object without chunk number matches a Regular entry only.
Matched(tbl, o) ==
  LET exact == SearchWithChunk(tbl, o)
      found == IF exact # {} THEN exact ELSE Subscribed(o)
  IN  {k \in found : o.chunk = NoChunk => tbl[k].type = "Rgl"}

\* cef_forward_object over the faces collected: those of first, in its order,
\* then the others of the entry.  A face that is down leaves the entry
\* without a look at how many are left.
Precedes(first, e, f, g) ==
  IF f \in DOMAIN first /\ g \in DOMAIN first THEN first[f].pos < first[g].pos
  ELSE f \in DOMAIN first \/ (g \notin DOMAIN first /\ e.dn[f].pos < e.dn[g].pos)
ServedLast(first, e) ==
  {f \in DOMAIN e.dn : \A g \in DOMAIN e.dn : g # f => Precedes(first, e, g, f)}

\* Mutant: cef_pit_entry_down_face_remove does not look at longlife_f.
ForwardObjectOnce(e, first) ==
  [e EXCEPT !.dn = NoDown, !.stole = @ \/ ServedLast(first, e) \cap active # {}]

ForwardObject(e, first) ==
  IF e.longlife THEN [e EXCEPT !.dn = Keep(e.dn, DOMAIN e.dn \cap active)]
  ELSE [e EXCEPT !.dn = NoDown, !.stole = @ \/ ServedLast(first, e) \cap active # {}]

\* Mutant: the entry is freed whether or not it is marked stole_f.
ConsumedAlways(tbl, k, first) == Drop(tbl, k)

\* The table after the Object went out on the entry of k: an entry marked
\* stole_f is freed.
Consumed(tbl, k, first) ==
  LET e == ForwardObject(tbl[k], first)
  IN  IF e.stole THEN Drop(tbl, k) ELSE Put(tbl, k, e)

ObjectAppPit(f, o) ==
  \E k \in ObjectForApp(f, o) :
    LET clash == o.chunk = NoChunk /\ app_pit[k].type # "Rgl"
    IN  /\ tx' = IF clash THEN {} ELSE To(DOMAIN app_pit[k].dn \cap active, "obj")
        /\ app_pit' = IF clash THEN app_pit ELSE Consumed(app_pit, k, NoDown)
        /\ pit' = pit

ObjectPit(f, o) ==
  LET tbl   == PitSearched(o)
      first == IF Subscribed(o) = {} THEN NoDown ELSE tbl[CHOOSE s \in Subscribed(o) : TRUE].dn
  IN  /\ ObjectForApp(f, o) = {}
      /\ app_pit' = app_pit
      /\ \/ Matched(tbl, o) = {} /\ tx' = {} /\ pit' = tbl
         \/ \E k \in Matched(tbl, o) :
              /\ tx' = To(DOMAIN tbl[k].dn \cap active, "obj")
              /\ pit' = Consumed(tbl, k, first)

Object(f, o) ==
  /\ f \in active
  /\ ObjectAppPit(f, o) \/ ObjectPit(f, o)
  /\ UNCHANGED <<app_reg, active, now, pit_clean_t, dangling>>

-----------------------------------------------------------------------------
(* cefnetd_incoming_intreturn_process, for the Interest m that comes back. *)

ReturnCleaned(tbl, m) == CleanedIn(tbl, LonglifeKey(tbl, m))
\* The entry it travels back on, if it has a down face.
ReturnedOn(tbl, m) == {k \in Search(tbl, m) : ReturnCleaned(tbl, m)[k].dn # NoDown}

\* On an entry of app_pit that is used up the code frees the memory but takes
\* the key out of hdl->pit.
ReturnAppPit(m) ==
  \E k \in ReturnedOn(app_pit, m) :
    LET tbl == ReturnCleaned(app_pit, m)
        e   == ForwardObject(tbl[k], NoDown)
    IN  /\ tx' = To(DOMAIN tbl[k].dn \cap active, "ret")
        /\ app_pit' = Put(tbl, k, e)
        /\ IF e.stole THEN pit' = Drop(pit, k) /\ dangling' = dangling \cup {k}
           ELSE UNCHANGED <<pit, dangling>>

ReturnPit(m) ==
  LET tbl == ReturnCleaned(pit, m)
  IN  /\ ReturnedOn(app_pit, m) = {}
      /\ app_pit' = ReturnCleaned(app_pit, m)
      /\ \/ ReturnedOn(pit, m) = {} /\ tx' = {} /\ pit' = tbl
         \/ \E k \in ReturnedOn(pit, m) :
              /\ tx' = To(DOMAIN tbl[k].dn \cap active, "ret")
              /\ pit' = Consumed(tbl, k, NoDown)
      /\ UNCHANGED dangling

InterestReturn(f, m) ==
  /\ IrOn /\ f \in active
  /\ ReturnAppPit(m) \/ ReturnPit(m)
  /\ UNCHANGED <<app_reg, active, now, pit_clean_t>>

-----------------------------------------------------------------------------
(* cefnetd_input_app_reg_command                                           *)

\* CefC_T_OPT_APP_PIT_REG
AppPitReg(f, m) ==
  LET k == <<m.restr, m.chunk>>
      u == DownFaceUpdate(Looked(app_pit, k, m), f, m, now, TRUE, "NOSUP")
  IN  /\ IsLocal(f) /\ f \in active
      /\ ~Full(app_pit, AppPitMax)
      /\ app_pit' = Put(app_pit, k, u.entry)
      /\ tx' = {}
      /\ UNCHANGED <<pit, app_reg, active, now, pit_clean_t, dangling>>

\* CefC_T_OPT_APP_PIT_DEREG: an expired entry of the very key is freed too.
AppPitDereg(f, m) ==
  LET tbl  == ReturnCleaned(app_pit, m)
      keys == Search(app_pit, m) \cup ({<<m.restr, m.chunk>>} \cap DOMAIN app_pit)
  IN  /\ IsLocal(f) /\ f \in active
      /\ app_pit' = [k \in DOMAIN tbl \ keys |-> tbl[k]]
      /\ tx' = {}
      /\ UNCHANGED <<pit, app_reg, active, now, pit_clean_t, dangling>>

\* CefC_T_OPT_APP_REG and CefC_T_OPT_APP_DEREG; a name is registered once.
AppReg(f) ==
  /\ IsLocal(f) /\ f \in active /\ app_reg = NoFace
  /\ app_reg' = f /\ tx' = {}
  /\ UNCHANGED <<pit, app_pit, active, now, pit_clean_t, dangling>>

AppDereg(f) ==
  /\ IsLocal(f) /\ f \in active /\ app_reg # NoFace
  /\ app_reg' = NoFace /\ tx' = {}
  /\ UNCHANGED <<pit, app_pit, active, now, pit_clean_t, dangling>>

-----------------------------------------------------------------------------
(* cefnetd_pit_cleanup: both tables, every entry; an entry whose drop time *)
(* has passed is freed.                                                    *)

Swept(tbl) == [k \in {x \in DOMAIN tbl : tbl[x].drp >= now} |-> PitEntryClean(tbl[k], now)]
SweptIr(tbl) == UNION {IrReturned(tbl[k], now, active) : k \in DOMAIN tbl}

\* Mutant: one of the two tables is left out.
PitSweepPitOnly ==
  /\ now >= pit_clean_t
  /\ pit' = Swept(pit)
  /\ tx' = To(SweptIr(pit), "ir")
  /\ pit_clean_t' = now + CleaningTime
  /\ UNCHANGED <<app_pit, app_reg, active, now, dangling>>

PitSweep ==
  /\ now >= pit_clean_t
  /\ pit' = Swept(pit) /\ app_pit' = Swept(app_pit)
  /\ tx' = To(SweptIr(pit) \cup SweptIr(app_pit), "ir")
  /\ pit_clean_t' = now + CleaningTime
  /\ UNCHANGED <<app_reg, active, now, dangling>>

-----------------------------------------------------------------------------
(* The environment: time passes; a face loses its socket or gets one.      *)

Tick ==
  /\ now < MaxTime
  /\ now' = now + 1 /\ tx' = {}
  /\ UNCHANGED <<pit, app_pit, app_reg, active, pit_clean_t, dangling>>

FaceDown(f) ==
  /\ f \in active
  /\ active' = active \ {f} /\ tx' = {}
  /\ UNCHANGED <<pit, app_pit, app_reg, now, pit_clean_t, dangling>>

FaceUp(f) ==
  /\ f \notin active
  /\ active' = active \cup {f} /\ tx' = {}
  /\ UNCHANGED <<pit, app_pit, app_reg, now, pit_clean_t, dangling>>

-----------------------------------------------------------------------------
\* One pass of the main loop handles one of these.  What the daemon does
\* after it used freed memory is not modelled.
Next ==
  /\ dangling = {}
  /\ \/ /\ now <= LastArrival
        /\ \/ \E f \in Consumers, m \in Interests : Interest(f, m)
           \/ \E f \in Consumers, m \in Registrations : AppPitReg(f, m)
     \/ \E f \in Consumers, m \in Registrations : AppPitDereg(f, m)
     \/ Registrations # {} /\ \E f \in Consumers : AppReg(f) \/ AppDereg(f)
     \/ \E f \in Producers, o \in Objects : Object(f, o)
     \/ \E f \in Producers, m \in Returns : InterestReturn(f, m)
     \/ PitSweep
     \/ Tick
     \/ \E f \in Flaky : FaceDown(f) \/ FaceUp(f)

Spec == Init /\ [][Next]_vars

\* The main loop calls cefnetd_pit_cleanup in every iteration, and the clock
\* runs.
Fairness == WF_vars(Tick) /\ WF_vars(PitSweep)
FairSpec == Spec /\ Fairness

-----------------------------------------------------------------------------
(* Properties.                                                             *)

Tbls == {pit, app_pit}

\* The advertised lifetime of an entry is never shorter than the lifetime of
\* one of its down faces, and the drop time trails it by the cleaning time:
\* cef_pit_entry_down_face_update keeps the two in step over extensions,
\* reductions and cancellations.
DownFacesCovered == \A tbl \in Tbls : \A k \in DOMAIN tbl : Covered(tbl[k])

\* Every insertion into a table is behind a check of its size, on the three
\* paths that insert.
TablesBounded ==
  Cardinality(DOMAIN pit) <= PitMax /\ Cardinality(DOMAIN app_pit) <= AppPitMax

\* Requests that are still pending stay in the table, each in its entry.
Spared(tbl, tblNext) ==
  \A k \in DOMAIN tbl : \A f \in DOMAIN tbl[k].dn :
    now <= tbl[k].dn[f].life => k \in DOMAIN tblNext /\ f \in DOMAIN tblNext[k].dn

\* The sweep of cefnetd_pit_cleanup drops no entry and takes out no down face
\* whose lifetime has not ended, though it decides by the times of the entry.
SweepSparesPending == [][PitSweep => Spared(pit, pit') /\ Spared(app_pit, app_pit')]_vars

\* There is a way for an Interest of f: an active next hop, and hops left.
Reachable(f, m) ==
  IF app_reg # NoFace /\ app_reg # f THEN app_reg \in active
  ELSE NextHop(f) # {} /\ HopsLeft(f, m) >= 1

SentInterest == \E s \in tx' : s.what = "int"

\* adv_lifetime_us is the lifetime advertised upstream: an Interest that raises
\* it, and does not take a request back, goes upstream if there is a way.
ExtensionAdvertised ==
  [][\A f \in Consumers, m \in Interests :
       LET k == <<m.restr, m.chunk>> IN
       /\ k \in DOMAIN pit' /\ k \in DOMAIN pit /\ pit'[k].adv > pit[k].adv
       /\ InterestPit(f, m) /\ f \in active /\ Reachable(f, m) /\ m.life # 0
       => SentInterest]_vars

\* An Object that is neither for a registered application nor for an entry
\* of its own reaches every active down face of the Symbolic entry whose
\* window it falls in, in whatever order the chunks of the stream come.
SubscribersServed ==
  [][\A f \in Producers, o \in Objects :
       ObjectPit(f, o) /\ f \in active /\ SearchWithChunk(pit, o) = {} =>
         \A k \in Subscribed(o) :
           To(DOMAIN PitCleanup(pit[k], now, active).dn \cap active, "obj") \subseteq tx']_vars

\* Once Interests stop, both tables are drained for good, whatever was
\* pending, aggregated or held: nothing keeps an entry alive but requests.
Drains == <>[](DOMAIN pit = {} /\ DOMAIN app_pit = {})

-----------------------------------------------------------------------------
(* The promise.  The down faces of both tables are the requests of         *)
(* Requests that wait, a topic is a key of one of them, and the requests   *)
(* that last are those of the long-lived entries.                          *)

TheTopics == {"pit", "app"} \X Keys
Table(t) == IF t = "pit" THEN pit ELSE app_pit

WaitingNow ==
  {r \in Faces \X TheTopics :
     r[2][2] \in DOMAIN Table(r[2][1]) /\ r[1] \in DOMAIN Table(r[2][1])[r[2][2]].dn}

waitingBar == [r \in WaitingNow |-> Table(r[2][1])[r[2][2]].dn[r[1]].life]
lastingBar == {t \in TheTopics : t[2] \in DOMAIN Table(t[1]) /\ Table(t[1])[t[2]].longlife}
answeredBar == {s.to : s \in {x \in tx : x.what \in {"obj", "ret"}}}

Promise ==
  INSTANCE Requests WITH
    Requesters <- Faces, Topics <- TheTopics, Withdrawable <- {"app"} \X Keys,
    waiting <- waitingBar, lasting <- lastingBar, reachable <- active,
    clock <- now, answered <- answeredBar

\* Every behaviour of the handlers and the sweep is one of Requests: whoever
\* waits is answered when an answer to its request comes, once if it asked
\* once, and is not forgotten before its time.
KeepsPromise == Promise!RSpec
=============================================================================
