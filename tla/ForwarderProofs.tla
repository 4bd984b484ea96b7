-------------------------- MODULE ForwarderProofs ---------------------------
(***************************************************************************)
(* Theorems about Forwarder, for every set of faces, every set of          *)
(* messages, every table size and every setting of the lifetimes.          *)
(***************************************************************************)
EXTENDS Forwarder, WellFoundedInduction, FiniteSetTheorems, TLAPS

(***************************************************************************)
(* What the operators of PitEntry keep: an entry stays an entry, and its   *)
(* advertised lifetime goes on covering its down faces.                    *)
(***************************************************************************)

\* The fields of a message that an entry looks at.
IsMessage(m) ==
  m.kind \in {"Rgl", "Long", "Sym"} /\ m.life \in Nat \cup {NoLife} /\ m.hop \in Nat

Good(e) == IsEntry(e) /\ Covered(e)

-----------------------------------------------------------------------------
(* Greatest lifetimes.                                                     *)

LEMMA PlacesAreNat ==
  ASSUME NEW S, S \subseteq Faces
  PROVE  IsFiniteSet(S) /\ Cardinality(S) \in Nat
BY FacesAssumption, FS_Subset, FS_CardinalityType

\* A set of numbers that is not empty has a least one.
LEMMA LeastNat ==
  ASSUME NEW T, T \subseteq Nat, T # {}
  PROVE  \E x \in T : \A y \in T : x <= y
<1> DEFINE Less == OpToRel(<, Nat)
<1>1. IsWellFoundedOn(Less, Nat) BY NatLessThanWellFounded, Zenon
<1>2. \A x, y \in Nat : x < y => <<x, y>> \in Less BY Zenon DEF OpToRel
<1> HIDE DEF Less
<1>3. PICK x \in T : \A y \in T : ~(<<y, x>> \in Less) BY <1>1, WFMin
<1>4. \A y \in T : ~(y < x) BY <1>2, <1>3
<1>5. QED BY <1>4

\* A set of numbers that has a bound has a greatest element: the least of its
\* bounds belongs to it.
LEMMA GreatestNat ==
  ASSUME NEW T, T \subseteq Nat, T # {}, NEW b \in Nat, \A x \in T : x <= b
  PROVE  \E x \in T : \A y \in T : y <= x
<1> DEFINE U == {u \in Nat : \A x \in T : x <= u}
<1>1. U \subseteq Nat /\ U # {} OBVIOUS
<1> HIDE DEF U
<1>2. PICK u \in U : \A v \in U : u <= v BY <1>1, LeastNat
<1>3. u \in Nat /\ \A x \in T : x <= u BY <1>2 DEF U
<1>4. u \in T
  <2>1. SUFFICES ASSUME u \notin T PROVE FALSE OBVIOUS
  <2>2. \A x \in T : x < u BY <1>3, <2>1
  <2>3. u > 0
    <3>1. PICK x \in T : TRUE OBVIOUS
    <3>2. x \in Nat /\ x < u BY <3>1, <2>2
    <3>3. QED BY <3>2, <1>3
  <2>4. u - 1 \in U BY <2>2, <2>3, <1>3 DEF U
  <2>5. QED BY <2>4, <1>2, <1>3
<1>5. QED BY <1>3, <1>4

LEMMA LongestLifeCovers ==
  ASSUME NEW dn, IsDownList(dn), NEW b \in Nat, \A f \in DOMAIN dn : dn[f].life <= b
  PROVE  /\ LongestLife(dn) \in Nat
         /\ \A f \in DOMAIN dn : dn[f].life <= LongestLife(dn)
<1> DEFINE T == {0} \cup {dn[f].life : f \in DOMAIN dn}
<1>1. \A f \in DOMAIN dn : dn[f].life \in Nat BY DEF IsDownList, DownFace
<1>2. T \subseteq Nat /\ T # {} /\ \A x \in T : x <= b BY <1>1
<1> HIDE DEF T
<1>3. \E t \in T : \A y \in T : y <= t BY <1>2, GreatestNat
<1>4. \A f \in DOMAIN dn : dn[f].life \in T BY DEF T
<1>5. \E t \in T : \A f \in DOMAIN dn : dn[f].life <= t BY <1>3, <1>4
<1>6. LongestLife(dn) = CHOOSE t \in T : \A f \in DOMAIN dn : dn[f].life <= t
  BY DEF LongestLife, T
<1>7. LongestLife(dn) \in T /\ \A f \in DOMAIN dn : dn[f].life <= LongestLife(dn)
  BY <1>5, <1>6, Zenon
<1>8. QED BY <1>2, <1>7

-----------------------------------------------------------------------------
(* The list.                                                               *)

LEMMA KeepList ==
  ASSUME NEW dn, IsDownList(dn), NEW S, S \subseteq DOMAIN dn
  PROVE  /\ IsDownList(Keep(dn, S))
         /\ DOMAIN Keep(dn, S) = S
         /\ \A f \in S : Keep(dn, S)[f].life = dn[f].life
<1> DEFINE at(f) == Cardinality({g \in S : dn[g].pos <= dn[f].pos})
<1>1. \A f \in S : at(f) \in Nat
  <2> TAKE f \in S
  <2>1. {g \in S : dn[g].pos <= dn[f].pos} \subseteq Faces BY DEF IsDownList
  <2>2. QED BY <2>1, PlacesAreNat
<1> HIDE DEF at
<1>2. Keep(dn, S) = [f \in S |-> [dn[f] EXCEPT !.pos = at(f)]] BY DEF Keep, at
<1>3. \A f \in S : dn[f] \in DownFace BY DEF IsDownList
<1>4. \A f \in S : [dn[f] EXCEPT !.pos = at(f)] \in DownFace BY <1>1, <1>3 DEF DownFace
<1>5. QED BY <1>2, <1>3, <1>4 DEF IsDownList, DownFace

LEMMA PutDownFaceList ==
  ASSUME NEW dn, IsDownList(dn), NEW f \in Faces, NEW life \in Nat
  PROVE  /\ IsDownList(PutDownFace(dn, f, life))
         /\ DOMAIN PutDownFace(dn, f, life) = DOMAIN dn \cup {f}
         /\ PutDownFace(dn, f, life)[f].life = life
         /\ \A g \in DOMAIN dn \ {f} : PutDownFace(dn, f, life)[g] = dn[g]
<1>1. Cardinality(DOMAIN dn) + 1 \in Nat
  <2>1. DOMAIN dn \subseteq Faces BY DEF IsDownList
  <2>2. QED BY <2>1, PlacesAreNat
<1>2. [life |-> life, pos |-> Cardinality(DOMAIN dn) + 1, ir |-> "none"] \in DownFace
  BY <1>1 DEF DownFace, IrCodes
<1>3. \A g \in DOMAIN dn : dn[g] \in DownFace /\ [dn[g] EXCEPT !.life = life] \in DownFace
  BY DEF IsDownList, DownFace
<1>4. \A g \in DOMAIN dn : [dn[g] EXCEPT !.life = life].life = life
  BY <1>3 DEF DownFace
<1>5. QED BY <1>2, <1>3, <1>4 DEF PutDownFace, IsDownList

-----------------------------------------------------------------------------
(* The entry.                                                              *)

LEMMA NewEntryGood ==
  ASSUME NEW type \in PitTypes, NEW clock \in Nat
  PROVE  Good(NewEntry(type, clock))
BY TimesAssumption DEF Good, NewEntry, NoDown, IsEntry, Covered, IsDownList

\* Down faces may leave an entry, whatever becomes of its clean time.
LEMMA ShrinkGood ==
  ASSUME NEW e, Good(e), NEW S, S \subseteq DOMAIN e.dn, NEW c \in Nat, NEW s \in BOOLEAN
  PROVE  /\ Good([e EXCEPT !.dn = Keep(e.dn, S)])
         /\ Good([e EXCEPT !.clean = c, !.dn = Keep(e.dn, S)])
         /\ Good([e EXCEPT !.dn = NoDown])
         /\ Good([e EXCEPT !.dn = NoDown, !.stole = s])
<1>1. IsDownList(e.dn) BY DEF Good, IsEntry
<1>2. /\ IsDownList(Keep(e.dn, S))
      /\ \A f \in DOMAIN Keep(e.dn, S) : Keep(e.dn, S)[f].life = e.dn[f].life
      /\ DOMAIN Keep(e.dn, S) \subseteq DOMAIN e.dn
  BY <1>1, KeepList
<1>3. IsDownList(NoDown) /\ DOMAIN NoDown = {} BY DEF NoDown, IsDownList
<1> DEFINE K == Keep(e.dn, S)
<1> HIDE DEF K
<1>4. /\ IsDownList(K) /\ DOMAIN K \subseteq DOMAIN e.dn
      /\ \A f \in DOMAIN K : K[f].life = e.dn[f].life
  BY <1>2 DEF K
<1>5. Good([e EXCEPT !.dn = K]) /\ Good([e EXCEPT !.clean = c, !.dn = K])
  BY <1>4 DEF Good, IsEntry, Covered
<1>6. Good([e EXCEPT !.dn = NoDown]) /\ Good([e EXCEPT !.dn = NoDown, !.stole = s])
  BY <1>3 DEF Good, IsEntry, Covered
<1>7. QED BY <1>5, <1>6 DEF K

LEMMA UpFaceUpdateGood ==
  ASSUME NEW e, Good(e), NEW S \in SUBSET Faces
  PROVE  Good(UpFaceUpdate(e, S))
BY DEF Good, UpFaceUpdate, IsEntry, Covered

LEMMA PitCleanupGood ==
  ASSUME NEW e, Good(e), NEW clock \in Nat, NEW open
  PROVE  Good(PitCleanup(e, clock, open))
<1>1. clock + CleaningTime \in Nat BY TimesAssumption
<1>2. QED BY <1>1, ShrinkGood DEF PitCleanup

LEMMA PitEntryCleanGood ==
  ASSUME NEW e, Good(e), NEW clock \in Nat
  PROVE  Good(PitEntryClean(e, clock))
<1>1. clock + CleaningTime \in Nat BY TimesAssumption
<1>2. QED BY <1>1, ShrinkGood DEF PitEntryClean

LEMMA InterestReturnSetGood ==
  ASSUME NEW e, Good(e), NEW f \in Faces, NEW code \in IrCodes
  PROVE  Good(InterestReturnSet(e, f, code))
<1> DEFINE g == IF f \in DOMAIN e.dn THEN f ELSE LastOf(e.dn)
<1> HIDE DEF g
<1> DEFINE d == [e.dn EXCEPT ![g].ir = code]
<1>1. IsDownList(e.dn) BY DEF Good, IsEntry
<1>2. \A h \in DOMAIN e.dn : e.dn[h] \in DownFace BY <1>1 DEF IsDownList
<1>3. \A h \in DOMAIN e.dn : /\ [e.dn[h] EXCEPT !.ir = code] \in DownFace
                            /\ [e.dn[h] EXCEPT !.ir = code].life = e.dn[h].life
  BY <1>2 DEF DownFace
<1>4. /\ DOMAIN d = DOMAIN e.dn
      /\ \A h \in DOMAIN e.dn : d[h] = IF h = g THEN [e.dn[h] EXCEPT !.ir = code] ELSE e.dn[h]
  BY <1>1 DEF IsDownList
<1>5. d = [h \in DOMAIN e.dn |-> d[h]] BY <1>1 DEF IsDownList
<1> HIDE DEF d
<1>6. IsDownList(d) /\ \A h \in DOMAIN d : d[h].life = e.dn[h].life
  BY <1>1, <1>2, <1>3, <1>4, <1>5 DEF IsDownList
<1>7. Good([e EXCEPT !.dn = d]) BY <1>4, <1>6 DEF Good, IsEntry, Covered
<1>8. [e EXCEPT !.dn[g].ir = code] = [e EXCEPT !.dn = d] BY DEF d
<1>9. InterestReturnSet(e, f, code) \in {e, [e EXCEPT !.dn[g].ir = code]}
  BY DEF InterestReturnSet, g
<1>10. QED BY <1>7, <1>8, <1>9

-----------------------------------------------------------------------------
(* An Interest.                                                            *)

LEMMA ExtentIsNat ==
  ASSUME NEW e, Good(e), NEW m, IsMessage(m), NEW reg \in BOOLEAN
  PROVE  Extent(e, m, reg) \in Nat
BY TimesAssumption DEF Extent, AtMost, IsMessage

\* The heart of the matter: whichever of the three ways the lifetimes go
\* (extended, lowered to the longest left, or kept), the advertised lifetime
\* covers the down faces.
LEMMA RefreshGood ==
  ASSUME NEW e, Good(e), NEW f \in Faces, NEW m, IsMessage(m),
         NEW clock \in Nat, clock > 0, NEW reg \in BOOLEAN
  PROVE  Good(Refresh(e, f, m, clock, reg).entry)
<1> DEFINE life == clock + Extent(e, m, reg)
<1> DEFINE dn == PutDownFace(e.dn, f, life)
<1> DEFINE longest == LongestLife(dn)
<1> DEFINE extended == life > e.adv
<1> DEFINE lowered == (~extended /\ f \in DOMAIN e.dn /\ life < e.dn[f].life) /\ longest < e.adv
<1> DEFINE adv == IF extended THEN life ELSE IF lowered THEN longest ELSE e.adv
<1> DEFINE long == e.longlife \/ (f \notin DOMAIN e.dn /\ m.kind # "Rgl")
<1> DEFINE drp == IF extended \/ lowered THEN adv + CleaningTime ELSE e.drp
<1>1. life \in Nat /\ life > 0 BY ExtentIsNat
<1>2. IsDownList(e.dn) /\ e.adv \in Nat /\ e.drp \in Nat BY DEF Good, IsEntry
<1> HIDE DEF life
<1>3. /\ IsDownList(dn) /\ DOMAIN dn = DOMAIN e.dn \cup {f}
      /\ dn[f].life = life
      /\ \A g \in DOMAIN dn \ {f} : g \in DOMAIN e.dn /\ dn[g] = e.dn[g]
  <2>1. /\ IsDownList(dn) /\ DOMAIN dn = DOMAIN e.dn \cup {f}
        /\ dn[f].life = life
        /\ \A g \in DOMAIN e.dn \ {f} : dn[g] = e.dn[g]
    BY <1>1, <1>2, PutDownFaceList, Zenon
  <2> HIDE DEF dn
  <2>2. QED BY <2>1
<1> HIDE DEF dn
<1>4. \A g \in DOMAIN e.dn : e.dn[g].life \in Nat /\ e.dn[g].life <= e.adv
  BY <1>2 DEF Good, Covered, IsDownList, DownFace
<1>5. \A g \in DOMAIN dn : dn[g].life <= life + e.adv
  <2>1. \A g \in DOMAIN dn \ {f} : dn[g].life \in Nat /\ dn[g].life <= e.adv
    BY <1>3, <1>4
  <2>2. QED BY <1>1, <1>2, <1>3, <2>1
<1>6. /\ longest \in Nat
      /\ \A g \in DOMAIN dn : dn[g].life <= longest
  BY <1>1, <1>2, <1>3, <1>5, LongestLifeCovers
<1> HIDE DEF longest
<1>7. adv \in Nat /\ \A g \in DOMAIN dn : dn[g].life <= adv
  <2>1. CASE extended
    BY <2>1, <1>1, <1>2, <1>3, <1>4
  <2>2. CASE ~extended /\ lowered
    BY <2>2, <1>6
  <2>3. CASE ~extended /\ ~lowered
    BY <2>3, <1>1, <1>2, <1>3, <1>4
  <2>4. QED BY <2>1, <2>2, <2>3
<1>8. (extended \/ lowered) => adv > 0
  <2>1. longest >= life BY <1>3, <1>6
  <2>2. QED BY <2>1, <1>1, <1>6
<1>9. drp \in Nat /\ drp = IF adv = 0 THEN 0 ELSE adv + CleaningTime
  <2>1. CASE extended \/ lowered BY <2>1, <1>7, <1>8, TimesAssumption
  <2>2. CASE ~(extended \/ lowered) BY <2>2, <1>2 DEF Good, Covered
  <2>3. QED BY <2>1, <2>2
<1>10. Refresh(e, f, m, clock, reg).entry =
         [e EXCEPT !.dn = dn, !.adv = adv, !.longlife = long, !.drp = drp]
  BY DEF Refresh, life, dn, longest
<1>11. long \in BOOLEAN BY DEF Good, IsEntry
<1> HIDE DEF adv, long, drp
<1>12. Good([e EXCEPT !.dn = dn, !.adv = adv, !.longlife = long, !.drp = drp])
  BY <1>3, <1>7, <1>9, <1>11 DEF Good, IsEntry, Covered
<1>13. QED BY <1>10, <1>12

LEMMA DownFaceUpdateGood ==
  ASSUME NEW e, Good(e), NEW f \in Faces, NEW m, IsMessage(m),
         NEW clock \in Nat, clock > 0, NEW reg \in BOOLEAN, NEW resend
  PROVE  Good(DownFaceUpdate(e, f, m, clock, reg, resend).entry)
<1> DEFINE r == Refresh(e, f, m, clock, reg)
<1> DEFINE kept == IF r.cancel THEN DownFaceidRemove(r.entry, Cancelled(r.entry)) ELSE r.entry
<1> DEFINE fwd == Resends(e, f, m, resend, r.advertise)
<1> DEFINE hop == IF resend # "NOSUP" /\ fwd /\ m.hop > e.hop THEN m.hop ELSE e.hop
<1>1. Good(r.entry) BY RefreshGood
<1> HIDE DEF r
<1>2. Good(kept) BY <1>1, ShrinkGood, TimesAssumption DEF DownFaceidRemove
<1>3. hop \in Nat BY DEF Good, IsEntry, IsMessage
<1>4. DownFaceUpdate(e, f, m, clock, reg, resend).entry = [kept EXCEPT !.hop = hop]
  BY DEF DownFaceUpdate, r
<1> HIDE DEF kept, hop
<1>5. Good([kept EXCEPT !.hop = hop]) BY <1>2, <1>3 DEF Good, IsEntry, Covered
<1>6. QED BY <1>4, <1>5

-----------------------------------------------------------------------------
(* The tables and the handlers.                                            *)

GoodTable(tbl) ==
  /\ DOMAIN tbl \subseteq Keys /\ tbl = [k \in DOMAIN tbl |-> tbl[k]]
  /\ \A k \in DOMAIN tbl : Good(tbl[k])

\* The inductive invariant: the types, the coverage of every entry, and a
\* clock that has left 0 (an advertised lifetime of 0 marks a new entry).
IInv == TypeOK /\ DownFacesCovered /\ now > 0

LEMMA IInvTables == IInv <=> /\ GoodTable(pit) /\ GoodTable(app_pit)
                             /\ app_reg \in Faces \cup {NoFace}
                             /\ active \subseteq Faces
                             /\ now \in Nat /\ pit_clean_t \in Nat
                             /\ tx \subseteq Sent
                             /\ dangling \subseteq Keys
                             /\ now > 0
BY DEF IInv, TypeOK, DownFacesCovered, GoodTable, IsTable, Tbls, Good

LEMMA MessageIs ==
  ASSUME NEW m \in Message
  PROVE  /\ IsMessage(m) /\ <<m.restr, m.chunk>> \in Keys
         /\ PitTypeOf(m) \in PitTypes
BY DEF Message, IsMessage, Keys, PitTypeOf, PitTypes

LEMMA Inputs ==
  /\ Interests \subseteq Message /\ Registrations \subseteq Message
  /\ Consumers \subseteq Faces /\ Flaky \subseteq Faces
  /\ NoFace \notin Faces
BY ForwarderAssumption

LEMMA ToIsSent ==
  ASSUME NEW S \in SUBSET Faces, NEW what \in {"int", "obj", "ret", "ir"}
  PROVE  To(S, what) \subseteq Sent
BY DEF To, Sent

-----------------------------------------------------------------------------
(* What the steps of a handler keep of a table.                            *)

LEMMA PutTable ==
  ASSUME NEW tbl, GoodTable(tbl), NEW k \in Keys, NEW e, Good(e)
  PROVE  GoodTable(Put(tbl, k, e)) /\ DOMAIN Put(tbl, k, e) = DOMAIN tbl \cup {k}
BY DEF GoodTable, Put

LEMMA SubTable ==
  ASSUME NEW tbl, GoodTable(tbl), NEW S, S \subseteq DOMAIN tbl
  PROVE  GoodTable([k \in S |-> tbl[k]])
BY DEF GoodTable

LEMMA DropTable ==
  ASSUME NEW tbl, GoodTable(tbl), NEW k
  PROVE  GoodTable(Drop(tbl, k)) /\ DOMAIN Drop(tbl, k) = DOMAIN tbl \ {k}
BY DEF GoodTable, Drop

LEMMA CleanedTable ==
  ASSUME NEW tbl, GoodTable(tbl), NEW K, now \in Nat
  PROVE  GoodTable(CleanedIn(tbl, K)) /\ DOMAIN CleanedIn(tbl, K) = DOMAIN tbl
BY PitCleanupGood DEF GoodTable, CleanedIn

LEMMA LookedGood ==
  ASSUME NEW tbl, GoodTable(tbl), NEW k, NEW m \in Message, now \in Nat
  PROVE  Good(Looked(tbl, k, m))
BY MessageIs, NewEntryGood DEF GoodTable, Looked

LEMMA ForwardObjectGood ==
  ASSUME NEW e, Good(e), NEW first
  PROVE  Good(ForwardObject(e, first))
<1> DEFINE s == e.stole \/ ServedLast(first, e) \cap active # {}
<1>1. s \in BOOLEAN BY DEF Good, IsEntry
<1>2. 0 \in Nat OBVIOUS
<1>3. Good([e EXCEPT !.dn = NoDown, !.stole = s])
  <2> HIDE DEF s
  <2>1. {} \subseteq DOMAIN e.dn OBVIOUS
  <2>2. QED BY <1>1, <1>2, <2>1, ShrinkGood
<1>4. Good([e EXCEPT !.dn = Keep(e.dn, DOMAIN e.dn \cap active)])
  <2>1. DOMAIN e.dn \cap active \subseteq DOMAIN e.dn OBVIOUS
  <2>2. QED BY <1>2, <2>1, ShrinkGood
<1>5. QED BY <1>3, <1>4 DEF ForwardObject

LEMMA ConsumedTable ==
  ASSUME NEW tbl, GoodTable(tbl), NEW k \in DOMAIN tbl, NEW first
  PROVE  GoodTable(Consumed(tbl, k, first)) /\ DOMAIN Consumed(tbl, k, first) \subseteq DOMAIN tbl
<1>1. k \in Keys /\ Good(tbl[k]) BY DEF GoodTable
<1>2. Good(ForwardObject(tbl[k], first)) BY <1>1, ForwardObjectGood
<1> DEFINE e == ForwardObject(tbl[k], first)
<1>3. GoodTable(Put(tbl, k, e)) /\ DOMAIN Put(tbl, k, e) = DOMAIN tbl \cup {k}
  BY <1>1, <1>2, PutTable, Zenon
<1>4. GoodTable(Drop(tbl, k)) /\ DOMAIN Drop(tbl, k) = DOMAIN tbl \ {k}
  BY DropTable
<1>5. Consumed(tbl, k, first) \in {Put(tbl, k, e), Drop(tbl, k)} BY DEF Consumed
<1> HIDE DEF e
<1>6. QED BY <1>3, <1>4, <1>5

LEMMA DownFacesAreFaces ==
  ASSUME NEW tbl, GoodTable(tbl), NEW k \in DOMAIN tbl
  PROVE  DOMAIN tbl[k].dn \subseteq Faces
BY DEF GoodTable, Good, IsEntry, IsDownList

LEMMA PitSearchedTable ==
  ASSUME GoodTable(pit), now \in Nat, NEW o \in Objects
  PROVE  GoodTable(PitSearched(o)) /\ DOMAIN PitSearched(o) = DOMAIN pit
<1> DEFINE tbl == CleanedIn(pit, SymbolicKey(pit, o.keyid, o.chunk))
<1>1. GoodTable(tbl) /\ DOMAIN tbl = DOMAIN pit BY CleanedTable
<1> HIDE DEF tbl
<1>2. Subscribed(o) # {} => o.chunk \in Nat
  BY ForwarderAssumption DEF Subscribed, SearchSymbolic, SymbolicKey
<1>3. \A k \in DOMAIN tbl : k \in Subscribed(o) => Good([tbl[k] EXCEPT !.last = o.chunk])
  <2> TAKE k \in DOMAIN tbl
  <2> HAVE k \in Subscribed(o)
  <2>1. o.chunk \in Nat BY <1>2
  <2>2. Good(tbl[k]) BY <1>1 DEF GoodTable
  <2>3. QED BY <2>1, <2>2 DEF Good, IsEntry, Covered
<1>4. PitSearched(o) = [k \in DOMAIN tbl |-> IF k \in Subscribed(o) /\ tbl[k].last < o.chunk
                              THEN [tbl[k] EXCEPT !.last = o.chunk] ELSE tbl[k]]
  BY DEF PitSearched, tbl
<1>5. QED BY <1>1, <1>3, <1>4 DEF GoodTable

LEMMA SweptTable ==
  ASSUME NEW tbl, GoodTable(tbl), now \in Nat
  PROVE  GoodTable(Swept(tbl)) /\ DOMAIN Swept(tbl) \subseteq DOMAIN tbl
BY PitEntryCleanGood DEF GoodTable, Swept

-----------------------------------------------------------------------------
(* The Interest.                                                           *)

LEMMA RoutedFaces ==
  ASSUME active \subseteq Faces, NEW f \in Faces, NEW m, NEW forward
  PROVE  /\ Routed(f, m, forward).next \in SUBSET Faces
         /\ Routed(f, m, forward).ir \in SUBSET Faces
<1>1. NextHop(f) \in SUBSET Faces
  BY ForwarderAssumption DEF NextHop
<1>2. QED BY <1>1 DEF Routed

LEMMA UpdatedGood ==
  ASSUME now \in Nat, now > 0, active \subseteq Faces,
         NEW e, Good(e), NEW f \in Faces, NEW m \in Message
  PROVE  Good(Updated(e, f, m).entry) /\ Updated(e, f, m).tx \subseteq Sent
<1> DEFINE u == DownFaceUpdate(e, f, m, now, FALSE, Resend)
<1> DEFINE held == IF m.hop = 1 /\ ~IsLocal(f) /\ IrOn
                     THEN InterestReturnSet(u.entry, f, "hoplimit") ELSE u.entry
<1> DEFINE r == Routed(f, m, u.forward)
<1>1. Good(u.entry) BY MessageIs, DownFaceUpdateGood
<1> HIDE DEF u
<1>2. Good(held) BY <1>1, InterestReturnSetGood DEF IrCodes
<1> HIDE DEF held
<1>3. r.next \in SUBSET Faces /\ r.ir \in SUBSET Faces BY RoutedFaces
<1> HIDE DEF r
<1>4. Good(UpFaceUpdate(held, r.next)) BY <1>2, <1>3, UpFaceUpdateGood
<1>5. To(r.next, "int") \cup To(r.ir, "ir") \subseteq Sent BY <1>3, ToIsSent
<1>6. /\ Updated(e, f, m).entry = UpFaceUpdate(held, r.next)
      /\ Updated(e, f, m).tx = To(r.next, "int") \cup To(r.ir, "ir")
  BY DEF Updated, u, held, r
<1>7. QED BY <1>4, <1>5, <1>6
-----------------------------------------------------------------------------
(* Type correctness and coverage.                                          *)

LEMMA InitIInv == Init => IInv
BY DEF Init, IInv, TypeOK, DownFacesCovered, Tbls, NoEntries, IsTable

\* The whole invariant after a step, from the parts that handlers disturb.
LEMMA IInvPrime ==
  ASSUME GoodTable(pit'), GoodTable(app_pit'), app_reg' \in Faces \cup {NoFace},
         active' \subseteq Faces, now' \in Nat, now' > 0, pit_clean_t' \in Nat,
         tx' \subseteq Sent, dangling' \subseteq Keys
  PROVE  IInv'
BY DEF IInv, TypeOK, DownFacesCovered, GoodTable, IsTable, Tbls, Good

LEMMA InterestIInv ==
  ASSUME IInv, NEW f \in Consumers, NEW m \in Interests, Interest(f, m)
  PROVE  IInv'
<1> DEFINE k == <<m.restr, m.chunk>>
<1> DEFINE atbl == AppPitCleaned(f, m)
<1> USE IInvTables
<1>1. f \in Faces /\ m \in Message /\ k \in Keys BY Inputs, MessageIs
<1> HIDE DEF k
<1>2. GoodTable(atbl) BY CleanedTable DEF AppPitCleaned
<1> HIDE DEF atbl
<1>3. UNCHANGED <<app_reg, active, now, pit_clean_t, dangling>> BY DEF Interest
<1>4. GoodTable(pit') /\ GoodTable(app_pit') /\ tx' \subseteq Sent
  <2>1. CASE InterestSpent(f, m)
    <3>1. To({f}, "ir") \subseteq Sent BY <1>1, ToIsSent
    <3>2. QED BY <2>1, <3>1 DEF InterestSpent
  <2>2. CASE InterestClashes(f, m)
    BY <2>2 DEF InterestClashes
  <2>3. CASE InterestPit(f, m)
    <3> DEFINE u == Updated(Looked(pit, k, m), f, m)
    <3>1. Good(u.entry) /\ u.tx \subseteq Sent BY <1>1, LookedGood, UpdatedGood
    <3> HIDE DEF u
    <3>2. GoodTable(Put(pit, k, u.entry)) BY <1>1, <3>1, PutTable
    <3>3. app_pit' = atbl /\ (pit' = pit \/ pit' = Put(pit, k, u.entry)) /\ (tx' = {} \/ tx' = u.tx)
      BY <2>3 DEF InterestPit, u, atbl, k
    <3>4. QED BY <1>2, <3>1, <3>2, <3>3
  <2>4. CASE InterestAppPit(f, m)
    <3> DEFINE u == Updated(Looked(atbl, k, m), f, m)
    <3>1. Good(u.entry) /\ u.tx \subseteq Sent BY <1>1, <1>2, LookedGood, UpdatedGood
    <3> HIDE DEF u
    <3>2. GoodTable(Put(atbl, k, u.entry)) BY <1>1, <1>2, <3>1, PutTable
    <3>3. pit' = pit /\ app_pit' = Put(atbl, k, u.entry) /\ tx' = u.tx
      BY <2>4 DEF InterestAppPit, u, atbl, k
    <3>4. QED BY <1>2, <3>1, <3>2, <3>3
  <2>5. QED BY <2>1, <2>2, <2>3, <2>4 DEF Interest
<1>5. QED BY <1>3, <1>4, IInvPrime

LEMMA ObjectIInv ==
  ASSUME IInv, NEW f \in Producers, NEW o \in Objects, Object(f, o)
  PROVE  IInv'
<1> USE IInvTables
<1>1. UNCHANGED <<app_reg, active, now, pit_clean_t, dangling>> BY DEF Object
<1>2. GoodTable(pit') /\ GoodTable(app_pit') /\ tx' \subseteq Sent
  <2>1. CASE ObjectAppPit(f, o)
    <3>1. PICK k \in ObjectForApp(f, o) :
            /\ tx' = {} \/ tx' = To(DOMAIN app_pit[k].dn \cap active, "obj")
            /\ app_pit' = app_pit \/ app_pit' = Consumed(app_pit, k, NoDown)
            /\ pit' = pit
      BY <2>1 DEF ObjectAppPit
    <3>2. k \in DOMAIN app_pit BY DEF ObjectForApp, SearchWithChunk
    <3>3. DOMAIN app_pit[k].dn \cap active \in SUBSET Faces BY <3>2, DownFacesAreFaces
    <3>4. To(DOMAIN app_pit[k].dn \cap active, "obj") \subseteq Sent BY <3>3, ToIsSent
    <3>5. GoodTable(Consumed(app_pit, k, NoDown)) BY <3>2, ConsumedTable
    <3>6. QED BY <3>1, <3>4, <3>5
  <2>2. CASE ObjectPit(f, o)
    <3> DEFINE tbl == PitSearched(o)
    <3> DEFINE first == IF Subscribed(o) = {} THEN NoDown ELSE tbl[CHOOSE s \in Subscribed(o) : TRUE].dn
    <3>1. GoodTable(tbl) /\ DOMAIN tbl = DOMAIN pit BY PitSearchedTable
    <3>2. /\ app_pit' = app_pit
          /\ \/ tx' = {} /\ pit' = tbl
             \/ \E k \in Matched(tbl, o) :
                  /\ tx' = To(DOMAIN tbl[k].dn \cap active, "obj")
                  /\ pit' = Consumed(tbl, k, first)
      BY <2>2 DEF ObjectPit
    <3>3. Matched(tbl, o) \subseteq DOMAIN tbl
      BY <3>1 DEF Matched, SearchWithChunk, Subscribed, SearchSymbolic, SymbolicKey
    <3> HIDE DEF tbl, first
    <3>4. ASSUME NEW k \in Matched(tbl, o)
          PROVE  GoodTable(Consumed(tbl, k, first)) /\ To(DOMAIN tbl[k].dn \cap active, "obj") \subseteq Sent
      <4>1. DOMAIN tbl[k].dn \cap active \in SUBSET Faces BY <3>1, <3>3, DownFacesAreFaces
      <4>2. QED BY <3>1, <3>3, <4>1, ToIsSent, ConsumedTable
    <3>5. QED BY <3>1, <3>2, <3>4
  <2>3. QED BY <2>1, <2>2 DEF Object
<1>3. QED BY <1>1, <1>2, IInvPrime

LEMMA InterestReturnIInv ==
  ASSUME IInv, NEW f \in Producers, NEW m \in Returns, InterestReturn(f, m)
  PROVE  IInv'
<1> USE IInvTables
<1>1. UNCHANGED <<app_reg, active, now, pit_clean_t>> BY DEF InterestReturn
<1> DEFINE atbl == ReturnCleaned(app_pit, m)
<1> DEFINE ptbl == ReturnCleaned(pit, m)
<1>2. /\ GoodTable(atbl) /\ DOMAIN atbl = DOMAIN app_pit
      /\ GoodTable(ptbl) /\ DOMAIN ptbl = DOMAIN pit
  BY CleanedTable DEF ReturnCleaned
<1>3. /\ ReturnedOn(app_pit, m) \subseteq DOMAIN atbl
      /\ ReturnedOn(pit, m) \subseteq DOMAIN ptbl
  BY <1>2 DEF ReturnedOn, Search, LonglifeKey
<1>4. /\ GoodTable(pit') /\ GoodTable(app_pit') /\ tx' \subseteq Sent
      /\ dangling' \subseteq Keys
  <2>1. CASE ReturnAppPit(m)
    <3>1. PICK k \in ReturnedOn(app_pit, m) :
            /\ tx' = To(DOMAIN atbl[k].dn \cap active, "ret")
            /\ app_pit' = Put(atbl, k, ForwardObject(atbl[k], NoDown))
            /\ \/ pit' = Drop(pit, k) /\ dangling' = dangling \cup {k}
               \/ UNCHANGED <<pit, dangling>>
      BY <2>1 DEF ReturnAppPit
    <3> HIDE DEF atbl
    <3>2. k \in DOMAIN atbl /\ k \in Keys /\ Good(atbl[k]) BY <1>2, <1>3 DEF GoodTable
    <3>3. DOMAIN atbl[k].dn \cap active \in SUBSET Faces BY <1>2, <3>2, DownFacesAreFaces
    <3>4. To(DOMAIN atbl[k].dn \cap active, "ret") \subseteq Sent BY <3>3, ToIsSent
    <3>5. Good(ForwardObject(atbl[k], NoDown)) BY <3>2, ForwardObjectGood
    <3>6. GoodTable(Put(atbl, k, ForwardObject(atbl[k], NoDown))) BY <1>2, <3>2, <3>5, PutTable
    <3>7. GoodTable(Drop(pit, k)) BY DropTable
    <3>8. QED BY <3>1, <3>2, <3>4, <3>6, <3>7
  <2>2. CASE ReturnPit(m)
    <3>1. /\ app_pit' = atbl /\ dangling' = dangling
          /\ \/ tx' = {} /\ pit' = ptbl
             \/ \E k \in ReturnedOn(pit, m) :
                  /\ tx' = To(DOMAIN ptbl[k].dn \cap active, "ret")
                  /\ pit' = Consumed(ptbl, k, NoDown)
      BY <2>2 DEF ReturnPit
    <3> HIDE DEF atbl, ptbl
    <3>2. ASSUME NEW k \in ReturnedOn(pit, m)
          PROVE  /\ GoodTable(Consumed(ptbl, k, NoDown))
                 /\ To(DOMAIN ptbl[k].dn \cap active, "ret") \subseteq Sent
      <4>1. DOMAIN ptbl[k].dn \cap active \in SUBSET Faces BY <1>2, <1>3, DownFacesAreFaces
      <4>2. QED BY <1>2, <1>3, <4>1, ToIsSent, ConsumedTable
    <3>3. QED BY <1>2, <3>1, <3>2
  <2>3. QED BY <2>1, <2>2 DEF InterestReturn
<1>5. QED BY <1>1, <1>4, IInvPrime

LEMMA AppPitIInv ==
  ASSUME IInv, NEW f \in Consumers, NEW m \in Registrations,
         AppPitReg(f, m) \/ AppPitDereg(f, m)
  PROVE  IInv'
<1> USE IInvTables
<1> DEFINE k == <<m.restr, m.chunk>>
<1>1. f \in Faces /\ m \in Message /\ k \in Keys /\ IsMessage(m) BY Inputs, MessageIs
<1>2. CASE AppPitReg(f, m)
  <2> DEFINE e == Looked(app_pit, k, m)
  <2> DEFINE u == DownFaceUpdate(e, f, m, now, TRUE, "NOSUP")
  <2>1. Good(e) BY <1>1, LookedGood
  <2> HIDE DEF e
  <2>2. Good(u.entry) BY <1>1, <2>1, DownFaceUpdateGood
  <2> HIDE DEF u, k
  <2>3. GoodTable(Put(app_pit, k, u.entry)) BY <1>1, <2>2, PutTable
  <2>4. app_pit' = Put(app_pit, k, u.entry) BY <1>2 DEF AppPitReg, u, e, k
  <2>5. tx' = {} /\ UNCHANGED <<pit, app_reg, active, now, pit_clean_t, dangling>>
    BY <1>2 DEF AppPitReg
  <2>6. QED BY <2>3, <2>4, <2>5, IInvPrime
<1>3. CASE AppPitDereg(f, m)
  <2> DEFINE tbl == ReturnCleaned(app_pit, m)
  <2>1. GoodTable(tbl) BY CleanedTable DEF ReturnCleaned
  <2>2. PICK S : app_pit' = [x \in DOMAIN tbl \ S |-> tbl[x]] BY <1>3 DEF AppPitDereg
  <2> HIDE DEF tbl
  <2>3. GoodTable(app_pit') BY <2>1, <2>2, SubTable
  <2>4. tx' = {} /\ UNCHANGED <<pit, app_reg, active, now, pit_clean_t, dangling>>
    BY <1>3 DEF AppPitDereg
  <2>5. QED BY <2>3, <2>4, IInvPrime
<1>4. QED BY <1>2, <1>3

LEMMA AppRegIInv ==
  ASSUME IInv, NEW f \in Consumers, AppReg(f) \/ AppDereg(f)
  PROVE  IInv'
BY IInvTables, IInvPrime, Inputs DEF AppReg, AppDereg

LEMMA PitSweepIInv == ASSUME IInv, PitSweep PROVE IInv'
<1> USE IInvTables
<1>1. GoodTable(pit') /\ GoodTable(app_pit') BY SweptTable DEF PitSweep
<1>2. tx' \subseteq Sent
  <2>1. ASSUME NEW tbl, GoodTable(tbl) PROVE SweptIr(tbl) \in SUBSET Faces
    <3>1. ASSUME NEW k \in DOMAIN tbl PROVE IrReturned(tbl[k], now, active) \subseteq Faces
      <4>1. DOMAIN tbl[k].dn \subseteq Faces BY <2>1, DownFacesAreFaces
      <4>2. IrReturned(tbl[k], now, active) \subseteq DOMAIN tbl[k].dn BY DEF IrReturned
      <4>3. QED BY <4>1, <4>2
    <3>2. QED BY <3>1 DEF SweptIr
  <2>2. SweptIr(pit) \cup SweptIr(app_pit) \in SUBSET Faces BY <2>1
  <2>3. To(SweptIr(pit) \cup SweptIr(app_pit), "ir") \subseteq Sent BY <2>2, ToIsSent
  <2>4. QED BY <2>3 DEF PitSweep
<1>3. pit_clean_t' \in Nat BY TimesAssumption DEF PitSweep
<1>4. UNCHANGED <<app_reg, active, now, dangling>> BY DEF PitSweep
<1>5. QED BY <1>1, <1>2, <1>3, <1>4, IInvPrime

LEMMA EnvironmentIInv ==
  ASSUME IInv, Tick \/ \E f \in Flaky : FaceDown(f) \/ FaceUp(f)
  PROVE  IInv'
<1> USE IInvTables
<1>1. CASE Tick BY <1>1, IInvPrime DEF Tick
<1>2. CASE \E f \in Flaky : FaceDown(f) \/ FaceUp(f)
  BY <1>2, IInvPrime, Inputs DEF FaceDown, FaceUp
<1>3. QED BY <1>1, <1>2

LEMMA NextIInv == IInv /\ [Next]_vars => IInv'
<1> SUFFICES ASSUME IInv, [Next]_vars PROVE IInv' OBVIOUS
<1>1. ASSUME NEW f \in Consumers, NEW m \in Interests, Interest(f, m) PROVE IInv'
  BY <1>1, InterestIInv
<1>2. ASSUME NEW f \in Consumers, NEW m \in Registrations, AppPitReg(f, m) \/ AppPitDereg(f, m)
      PROVE IInv'
  BY <1>2, AppPitIInv
<1>3. ASSUME NEW f \in Consumers, AppReg(f) \/ AppDereg(f) PROVE IInv'
  BY <1>3, AppRegIInv
<1>4. ASSUME NEW f \in Producers, NEW o \in Objects, Object(f, o) PROVE IInv'
  BY <1>4, ObjectIInv
<1>5. ASSUME NEW f \in Producers, NEW m \in Returns, InterestReturn(f, m) PROVE IInv'
  BY <1>5, InterestReturnIInv
<1>6. CASE PitSweep BY <1>6, PitSweepIInv
<1>7. CASE Tick \/ \E f \in Flaky : FaceDown(f) \/ FaceUp(f) BY <1>7, EnvironmentIInv
<1>8. CASE UNCHANGED vars
  BY <1>8 DEF vars, IInv, TypeOK, DownFacesCovered, Tbls, IsTable
<1>9. QED BY <1>1, <1>2, <1>3, <1>4, <1>5, <1>6, <1>7, <1>8 DEF Next

\* The variables of the forwarding plane keep their types.
THEOREM TypeCorrect == Spec => []TypeOK
<1>1. IInv => TypeOK BY DEF IInv
<1>2. QED BY InitIInv, NextIInv, <1>1, PTL DEF Spec

\* Through every extension, reduction and cancellation, aggregation, cleaning
\* and consumption, the advertised lifetime of every entry covers its down
\* faces and the drop time trails it.
THEOREM Coverage == Spec => []DownFacesCovered
<1>1. IInv => DownFacesCovered BY DEF IInv
<1>2. QED BY InitIInv, NextIInv, <1>1, PTL DEF Spec
-----------------------------------------------------------------------------
(* The sweep.                                                              *)

LEMMA SweptSpares ==
  ASSUME NEW tbl, GoodTable(tbl), now \in Nat, now > 0
  PROVE  Spared(tbl, Swept(tbl))
<1> SUFFICES ASSUME NEW k \in DOMAIN tbl, NEW f \in DOMAIN tbl[k].dn, now <= tbl[k].dn[f].life
             PROVE  k \in DOMAIN Swept(tbl) /\ f \in DOMAIN Swept(tbl)[k].dn
  BY DEF Spared
<1> DEFINE e == tbl[k]
<1>1. Good(e) BY DEF GoodTable
<1>2. /\ e.adv \in Nat /\ e.drp \in Nat /\ e.dn[f].life \in Nat
      /\ e.dn[f].life <= e.adv
      /\ e.drp = IF e.adv = 0 THEN 0 ELSE e.adv + CleaningTime
  BY <1>1 DEF Good, IsEntry, Covered, IsDownList, DownFace
<1>3. now <= e.adv /\ e.drp >= now BY <1>2, TimesAssumption
<1>4. k \in DOMAIN Swept(tbl) /\ Swept(tbl)[k] = PitEntryClean(e, now) BY <1>3 DEF Swept
<1>5. f \in DOMAIN PitEntryClean(e, now).dn
  <2> DEFINE S == {g \in DOMAIN e.dn : now <= e.dn[g].life}
  <2>1. f \in S OBVIOUS
  <2>2. f \in DOMAIN Keep(e.dn, S) BY <2>1 DEF Keep
  <2> HIDE DEF S
  <2>3. PitEntryClean(e, now) \in {e, [e EXCEPT !.clean = now + CleaningTime, !.dn = Keep(e.dn, S)]}
    BY <1>2, <1>3 DEF PitEntryClean, S
  <2>4. [e EXCEPT !.clean = now + CleaningTime, !.dn = Keep(e.dn, S)].dn = Keep(e.dn, S)
    BY <1>1 DEF Good, IsEntry
  <2>5. QED BY <2>2, <2>3, <2>4
<1>6. QED BY <1>4, <1>5

\* No sweep drops an entry, or takes out a down face, that is still pending.
THEOREM SweepSpares == Spec => SweepSparesPending
<1>1. IInv /\ [Next]_vars => [PitSweep => Spared(pit, pit') /\ Spared(app_pit, app_pit')]_vars
  <2> SUFFICES ASSUME IInv, PitSweep PROVE Spared(pit, pit') /\ Spared(app_pit, app_pit')
    OBVIOUS
  <2>1. Spared(pit, Swept(pit)) /\ Spared(app_pit, Swept(app_pit))
    BY IInvTables, SweptSpares
  <2>2. pit' = Swept(pit) /\ app_pit' = Swept(app_pit) BY DEF PitSweep
  <2>3. QED BY <2>1, <2>2
<1>2. QED BY InitIInv, NextIInv, <1>1, PTL DEF Spec, SweepSparesPending

-----------------------------------------------------------------------------
(* The sizes of the tables.                                                *)

Bounded(tbl, max) == IsFiniteSet(DOMAIN tbl) /\ Cardinality(DOMAIN tbl) <= max

LEMMA FewerBounded ==
  ASSUME NEW tbl, NEW max \in Nat, Bounded(tbl, max), NEW new, DOMAIN new \subseteq DOMAIN tbl
  PROVE  Bounded(new, max)
<1>1. /\ IsFiniteSet(DOMAIN new) /\ Cardinality(DOMAIN new) <= Cardinality(DOMAIN tbl)
      /\ Cardinality(DOMAIN new) \in Nat /\ Cardinality(DOMAIN tbl) \in Nat
  BY FS_Subset, FS_CardinalityType DEF Bounded
<1>2. QED BY <1>1 DEF Bounded

LEMMA PutBounded ==
  ASSUME NEW tbl, NEW max \in Nat, Bounded(tbl, max), NEW k, ~LookupFails(tbl, k, max),
         NEW new, DOMAIN new = DOMAIN tbl \cup {k}
  PROVE  Bounded(new, max)
<1>1. CASE k \in DOMAIN tbl
  <2>1. DOMAIN new = DOMAIN tbl BY <1>1
  <2>2. QED BY <2>1 DEF Bounded
<1>2. CASE k \notin DOMAIN tbl
  <2>1. Cardinality(DOMAIN tbl) # max BY <1>2 DEF LookupFails, Full
  <2>2. Cardinality(DOMAIN tbl) \in Nat BY FS_CardinalityType DEF Bounded
  <2>3. /\ IsFiniteSet(DOMAIN new)
        /\ Cardinality(DOMAIN new) = Cardinality(DOMAIN tbl) + 1
    BY <1>2, FS_AddElement DEF Bounded
  <2>4. QED BY <2>1, <2>2, <2>3 DEF Bounded
<1>3. QED BY <1>1, <1>2

BInv == Bounded(pit, PitMax) /\ Bounded(app_pit, AppPitMax)

LEMMA NextBInv == IInv /\ BInv /\ [Next]_vars => BInv'
<1> SUFFICES ASSUME IInv, BInv, [Next]_vars PROVE BInv' OBVIOUS
<1> USE IInvTables
<1>1. PitMax \in Nat /\ AppPitMax \in Nat BY ForwarderAssumption
<1>2. SUFFICES Bounded(pit', PitMax) /\ Bounded(app_pit', AppPitMax) BY DEF BInv, Bounded
<1>3. Bounded(pit, PitMax) /\ Bounded(app_pit, AppPitMax) BY DEF BInv
<1>4. ASSUME NEW f \in Consumers, NEW m \in Interests, Interest(f, m)
      PROVE  Bounded(pit', PitMax) /\ Bounded(app_pit', AppPitMax)
  <2> DEFINE k == <<m.restr, m.chunk>>
  <2> DEFINE atbl == AppPitCleaned(f, m)
  <2>1. DOMAIN atbl = DOMAIN app_pit BY CleanedTable DEF AppPitCleaned
  <2> HIDE DEF k, atbl
  <2>2. Bounded(atbl, AppPitMax) BY <1>3, <2>1 DEF Bounded
  <2>3. \/ pit' = pit
        \/ ~LookupFails(pit, k, PitMax) /\ DOMAIN pit' = DOMAIN pit \cup {k}
    BY <1>4 DEF Interest, InterestSpent, InterestClashes, InterestPit, InterestAppPit, Put, k
  <2>4. \/ app_pit' = app_pit \/ app_pit' = atbl
        \/ ~LookupFails(app_pit, k, AppPitMax) /\ DOMAIN app_pit' = DOMAIN app_pit \cup {k}
    BY <1>4, <2>1 DEF Interest, InterestSpent, InterestClashes, InterestPit, InterestAppPit,
                      WaitsInAppPit, Put, k, atbl
  <2>5. QED BY <1>1, <1>3, <2>2, <2>3, <2>4, PutBounded
<1>5. ASSUME NEW f \in Consumers, NEW m \in Registrations, AppPitReg(f, m)
      PROVE  Bounded(pit', PitMax) /\ Bounded(app_pit', AppPitMax)
  <2> DEFINE k == <<m.restr, m.chunk>>
  <2>1. /\ pit' = pit /\ ~LookupFails(app_pit, k, AppPitMax)
        /\ DOMAIN app_pit' = DOMAIN app_pit \cup {k}
    BY <1>5 DEF AppPitReg, Put, LookupFails
  <2>2. QED BY <1>1, <1>3, <2>1, PutBounded
<1>6. CASE /\ ~(\E f \in Consumers, m \in Interests : Interest(f, m))
           /\ ~(\E f \in Consumers, m \in Registrations : AppPitReg(f, m))
  <2>1. DOMAIN pit' \subseteq DOMAIN pit /\ DOMAIN app_pit' \subseteq DOMAIN app_pit
    <3>1. ASSUME NEW f \in Consumers, NEW m \in Registrations, AppPitDereg(f, m)
          PROVE  DOMAIN pit' \subseteq DOMAIN pit /\ DOMAIN app_pit' \subseteq DOMAIN app_pit
      BY <3>1 DEF AppPitDereg, ReturnCleaned, CleanedIn
    <3>2. ASSUME NEW f \in Producers, NEW o \in Objects, Object(f, o)
          PROVE  DOMAIN pit' \subseteq DOMAIN pit /\ DOMAIN app_pit' \subseteq DOMAIN app_pit
      <4>1. CASE ObjectAppPit(f, o)
        <5>1. ObjectForApp(f, o) \subseteq DOMAIN app_pit BY DEF ObjectForApp, SearchWithChunk
        <5>2. pit' = pit /\ \E k \in ObjectForApp(f, o) :
                 app_pit' = app_pit \/ app_pit' = Consumed(app_pit, k, NoDown)
          BY <4>1 DEF ObjectAppPit
        <5>3. QED BY <5>1, <5>2, ConsumedTable
      <4>2. CASE ObjectPit(f, o)
        <5> DEFINE tbl == PitSearched(o)
        <5>1. GoodTable(tbl) /\ DOMAIN tbl = DOMAIN pit BY PitSearchedTable
        <5>2. Matched(tbl, o) \subseteq DOMAIN tbl
          BY <5>1 DEF Matched, SearchWithChunk, Subscribed, SearchSymbolic, SymbolicKey
        <5>3. app_pit' = app_pit /\ (pit' = tbl \/ \E k \in Matched(tbl, o) : \E first : pit' = Consumed(tbl, k, first))
          BY <4>2 DEF ObjectPit
        <5> HIDE DEF tbl
        <5>4. QED BY <5>1, <5>2, <5>3, ConsumedTable
      <4>3. QED BY <3>2, <4>1, <4>2 DEF Object
    <3>3. ASSUME NEW f \in Producers, NEW m \in Returns, InterestReturn(f, m)
          PROVE  DOMAIN pit' \subseteq DOMAIN pit /\ DOMAIN app_pit' \subseteq DOMAIN app_pit
      <4> DEFINE atbl == ReturnCleaned(app_pit, m)
      <4> DEFINE ptbl == ReturnCleaned(pit, m)
      <4>1. /\ GoodTable(atbl) /\ DOMAIN atbl = DOMAIN app_pit
            /\ GoodTable(ptbl) /\ DOMAIN ptbl = DOMAIN pit
        BY CleanedTable DEF ReturnCleaned
      <4>2. /\ ReturnedOn(app_pit, m) \subseteq DOMAIN atbl
            /\ ReturnedOn(pit, m) \subseteq DOMAIN ptbl
        BY <4>1 DEF ReturnedOn, Search, LonglifeKey
      <4>3. CASE ReturnAppPit(m)
        <5>1. /\ \E k \in ReturnedOn(app_pit, m) : DOMAIN app_pit' = DOMAIN atbl \cup {k}
              /\ pit' = pit \/ \E k : DOMAIN pit' = DOMAIN pit \ {k}
          BY <4>3 DEF ReturnAppPit, Put, Drop
        <5> HIDE DEF atbl, ptbl
        <5>2. QED BY <4>1, <4>2, <5>1
      <4>4. CASE ReturnPit(m)
        <5>1. app_pit' = atbl /\ (pit' = ptbl \/ \E k \in ReturnedOn(pit, m) : pit' = Consumed(ptbl, k, NoDown))
          BY <4>4 DEF ReturnPit
        <5> HIDE DEF atbl, ptbl
        <5>2. QED BY <4>1, <4>2, <5>1, ConsumedTable
      <4>5. QED BY <3>3, <4>3, <4>4 DEF InterestReturn
    <3>4. CASE PitSweep BY <3>4, SweptTable DEF PitSweep
    <3>5. CASE UNCHANGED <<pit, app_pit>> BY <3>5
    <3>6. QED BY <1>6, <3>1, <3>2, <3>3, <3>4, <3>5
               DEF Next, vars, AppReg, AppDereg, Tick, FaceDown, FaceUp
  <2>2. QED BY <1>1, <1>3, <2>1, FewerBounded
<1>7. QED BY <1>4, <1>5, <1>6

\* No table outgrows the size it was created with.
THEOREM Boundedness == Spec => []TablesBounded
<1>1. Init => BInv
  BY FS_EmptySet, ForwarderAssumption DEF Init, BInv, Bounded, NoEntries
<1>2. BInv => TablesBounded BY DEF BInv, Bounded, TablesBounded
<1>3. QED BY InitIInv, NextIInv, NextBInv, <1>1, <1>2, PTL DEF Spec

-----------------------------------------------------------------------------
(* The promise.  A step of the tables is seen as what it loses of their    *)
(* requests and what it asks anew; lost and asked are sets of pairs of a   *)
(* key and a face.                                                         *)

Lapsed(tbl, k, f) == tbl[k].dn[f].life < now \/ f \notin active

\* What is lost is over, or in lost; what is new is in asked.
Moves(tbl, new, lost, asked) ==
  /\ \A k \in DOMAIN tbl : \A f \in DOMAIN tbl[k].dn :
       (k \in DOMAIN new /\ f \in DOMAIN new[k].dn) \/ Lapsed(tbl, k, f) \/ <<k, f>> \in lost
  /\ \A k \in DOMAIN new : \A f \in DOMAIN new[k].dn :
       \/ k \in DOMAIN tbl /\ f \in DOMAIN tbl[k].dn /\ new[k].dn[f].life = tbl[k].dn[f].life
       \/ <<k, f>> \in asked
  /\ \A k \in DOMAIN new :
       new[k].longlife => (k \in DOMAIN tbl /\ tbl[k].longlife) \/ \E f : <<k, f>> \in asked

\* No entry of the table is marked as used up.
Unused(tbl) == \A k \in DOMAIN tbl : ~tbl[k].stole

LEMMA SameMoves == ASSUME NEW tbl PROVE Moves(tbl, tbl, {}, {})
BY DEF Moves

\* What is cleaned first may move on.
LEMMA MovesOn ==
  ASSUME NEW tbl, NEW mid, NEW new, NEW lost, NEW asked,
         Moves(tbl, mid, {}, {}), Moves(mid, new, lost, asked)
  PROVE  Moves(tbl, new, lost, asked)
<1>1. ASSUME NEW k \in DOMAIN tbl, NEW f \in DOMAIN tbl[k].dn
      PROVE  (k \in DOMAIN new /\ f \in DOMAIN new[k].dn) \/ Lapsed(tbl, k, f) \/ <<k, f>> \in lost
  <2>1. CASE k \in DOMAIN mid /\ f \in DOMAIN mid[k].dn
    <3>1. mid[k].dn[f].life = tbl[k].dn[f].life BY <2>1 DEF Moves
    <3>2. Lapsed(mid, k, f) <=> Lapsed(tbl, k, f) BY <3>1 DEF Lapsed
    <3>3. QED BY <2>1, <3>2 DEF Moves
  <2>2. QED BY <2>1 DEF Moves
<1>2. ASSUME NEW k \in DOMAIN new, NEW f \in DOMAIN new[k].dn
      PROVE  \/ k \in DOMAIN tbl /\ f \in DOMAIN tbl[k].dn /\ new[k].dn[f].life = tbl[k].dn[f].life
             \/ <<k, f>> \in asked
  BY DEF Moves
<1>3. ASSUME NEW k \in DOMAIN new, new[k].longlife
      PROVE  (k \in DOMAIN tbl /\ tbl[k].longlife) \/ \E f : <<k, f>> \in asked
  BY <1>3 DEF Moves
<1>4. QED BY <1>1, <1>2, <1>3 DEF Moves

-----------------------------------------------------------------------------
(* Cleaning and sweeping lose only what is over.                           *)

\* An entry of which only the faces of S stay
Trimmed(e, c, S) == [e EXCEPT !.clean = c, !.dn = Keep(e.dn, S)]

LEMMA TrimmedEntry ==
  ASSUME NEW e, Good(e), NEW S, S \subseteq DOMAIN e.dn, NEW c
  PROVE  /\ DOMAIN Trimmed(e, c, S).dn = S
         /\ Trimmed(e, c, S).longlife = e.longlife /\ Trimmed(e, c, S).stole = e.stole
         /\ \A f \in S : Trimmed(e, c, S).dn[f].life = e.dn[f].life
<1> DEFINE d == Keep(e.dn, S)
<1>1. IsDownList(e.dn) BY DEF Good, IsEntry
<1>2. DOMAIN d = S /\ \A f \in S : d[f].life = e.dn[f].life BY <1>1, KeepList
<1>3. Trimmed(e, c, S) = [e EXCEPT !.clean = c, !.dn = d] BY DEF Trimmed
<1> HIDE DEF d
<1>4. LET n == Trimmed(e, c, S) IN n.dn = d /\ n.longlife = e.longlife /\ n.stole = e.stole
  BY <1>3 DEF Good, IsEntry
<1>5. QED BY <1>2, <1>4

LEMMA CleanedMoves ==
  ASSUME NEW tbl, GoodTable(tbl), NEW K, now \in Nat
  PROVE  /\ Moves(tbl, CleanedIn(tbl, K), {}, {}) /\ (Unused(tbl) => Unused(CleanedIn(tbl, K)))
         /\ \A k \in DOMAIN tbl : CleanedIn(tbl, K)[k].longlife = tbl[k].longlife
<1> DEFINE new == CleanedIn(tbl, K)
<1>1. DOMAIN new = DOMAIN tbl BY DEF CleanedIn
<1>2. ASSUME NEW k \in DOMAIN tbl
      PROVE  /\ \A f \in DOMAIN tbl[k].dn : f \in DOMAIN new[k].dn \/ Lapsed(tbl, k, f)
             /\ \A f \in DOMAIN new[k].dn : f \in DOMAIN tbl[k].dn /\ new[k].dn[f].life = tbl[k].dn[f].life
             /\ new[k].longlife = tbl[k].longlife /\ new[k].stole = tbl[k].stole
  <2> DEFINE e == tbl[k]
             S == {f \in DOMAIN e.dn : now <= e.dn[f].life /\ f \in active}
             n == Trimmed(e, now + CleaningTime, S)
  <2>1. Good(e) BY DEF GoodTable
  <2>2. new[k] = e \/ new[k] = n BY DEF CleanedIn, PitCleanup, Trimmed
  <2>3. \A f \in DOMAIN e.dn : f \in S \/ Lapsed(tbl, k, f)
    <3>1. \A f \in DOMAIN e.dn : e.dn[f].life \in Nat BY <2>1 DEF Good, IsEntry, IsDownList, DownFace
    <3>2. QED BY <3>1 DEF Lapsed
  <2>4. S \subseteq DOMAIN e.dn OBVIOUS
  <2> HIDE DEF S, new
  <2>5. /\ DOMAIN n.dn = S /\ n.longlife = e.longlife /\ n.stole = e.stole
        /\ \A f \in S : n.dn[f].life = e.dn[f].life
    BY <2>1, <2>4, TrimmedEntry
  <2> HIDE DEF n
  <2>6. QED BY <2>2, <2>3, <2>4, <2>5
<1> HIDE DEF new
<1>3. Moves(tbl, new, {}, {}) BY <1>1, <1>2 DEF Moves
<1>4. Unused(tbl) => Unused(new) BY <1>1, <1>2 DEF Unused
<1>5. \A k \in DOMAIN tbl : new[k].longlife = tbl[k].longlife BY <1>2
<1>6. QED BY <1>3, <1>4, <1>5 DEF new

LEMMA SweptMoves ==
  ASSUME NEW tbl, GoodTable(tbl), now \in Nat, now > 0
  PROVE  Moves(tbl, Swept(tbl), {}, {}) /\ (Unused(tbl) => Unused(Swept(tbl)))
<1> DEFINE new == Swept(tbl)
<1>1. DOMAIN new \subseteq DOMAIN tbl BY DEF Swept
<1>2. ASSUME NEW k \in DOMAIN new
      PROVE  /\ \A f \in DOMAIN new[k].dn : f \in DOMAIN tbl[k].dn /\ new[k].dn[f].life = tbl[k].dn[f].life
             /\ new[k].longlife = tbl[k].longlife /\ new[k].stole = tbl[k].stole
  <2> DEFINE e == tbl[k]
             S == {f \in DOMAIN e.dn : now <= e.dn[f].life}
             n == Trimmed(e, now + CleaningTime, S)
             o == [e EXCEPT !.dn = NoDown]
  <2>1. Good(e) BY <1>1 DEF GoodTable
  <2>2. new[k] = PitEntryClean(e, now)
    <3>1. k \in {x \in DOMAIN tbl : tbl[x].drp >= now} BY DEF Swept
    <3>2. QED BY <3>1 DEF Swept
  <2> HIDE DEF new
  <2>3. new[k] = e \/ new[k] = n \/ new[k] = o BY <2>2 DEF PitEntryClean, Trimmed
  <2>4. DOMAIN o.dn = {} /\ o.longlife = e.longlife /\ o.stole = e.stole
    BY <2>1 DEF Good, IsEntry, NoDown
  <2>5. S \subseteq DOMAIN e.dn OBVIOUS
  <2> HIDE DEF S, o
  <2>6. /\ DOMAIN n.dn = S /\ n.longlife = e.longlife /\ n.stole = e.stole
        /\ \A f \in S : n.dn[f].life = e.dn[f].life
    BY <2>1, <2>5, TrimmedEntry
  <2> HIDE DEF n
  <2>7. QED BY <2>3, <2>4, <2>5, <2>6
<1>3. Spared(tbl, new) BY SweptSpares
<1>4. \A k \in DOMAIN tbl : \A f \in DOMAIN tbl[k].dn : tbl[k].dn[f].life \in Nat
  BY DEF GoodTable, Good, IsEntry, IsDownList, DownFace
<1> HIDE DEF new
<1>5. Moves(tbl, new, {}, {}) BY <1>1, <1>2, <1>3, <1>4 DEF Moves, Spared, Lapsed
<1>6. Unused(tbl) => Unused(new) BY <1>1, <1>2 DEF Unused
<1>7. QED BY <1>5, <1>6 DEF new

-----------------------------------------------------------------------------
(* A request that is made, and one that is answered.                       *)

\* The entry n is e with a request of the face f more, or a new one.
Joined(e, n, f) ==
  /\ DOMAIN n.dn = DOMAIN e.dn \cup {f}
  /\ \A g \in DOMAIN e.dn \ {f} : n.dn[g].life = e.dn[g].life
  /\ n.stole = e.stole

LEMMA UpdateJoins ==
  ASSUME NEW e, Good(e), NEW f \in Faces, NEW m, IsMessage(m), m.life # 0,
         NEW clock \in Nat, clock > 0, NEW reg \in BOOLEAN, NEW resend
  PROVE  Joined(e, DownFaceUpdate(e, f, m, clock, reg, resend).entry, f)
<1> DEFINE r == Refresh(e, f, m, clock, reg)
           life == clock + Extent(e, m, reg)
           dn == PutDownFace(e.dn, f, life)
           fwd == Resends(e, f, m, resend, r.advertise)
           hop == IF resend # "NOSUP" /\ fwd /\ m.hop > e.hop THEN m.hop ELSE e.hop
<1>1. life \in Nat BY ExtentIsNat
<1>2. IsDownList(e.dn) BY DEF Good, IsEntry
<1> HIDE DEF life
<1>3. /\ DOMAIN dn = DOMAIN e.dn \cup {f}
      /\ \A g \in DOMAIN e.dn \ {f} : dn[g] = e.dn[g]
  <2>1. ASSUME NEW d, IsDownList(d), NEW l \in Nat
        PROVE  /\ DOMAIN PutDownFace(d, f, l) = DOMAIN d \cup {f}
               /\ \A g \in DOMAIN d \ {f} : PutDownFace(d, f, l)[g] = d[g]
    BY <2>1, PutDownFaceList
  <2>2. QED BY <1>1, <1>2, <2>1
<1> HIDE DEF dn
<1>4. ~r.cancel BY DEF Refresh
<1>5. r.entry.dn = dn /\ r.entry.stole = e.stole /\ Good(r.entry)
  <2>1. Good(r.entry) BY RefreshGood
  <2>2. r.entry.dn = dn /\ r.entry.stole = e.stole BY DEF Refresh, dn, life, Good, IsEntry
  <2>3. QED BY <2>1, <2>2
<1> HIDE DEF r, hop
<1>6. DownFaceUpdate(e, f, m, clock, reg, resend).entry = [r.entry EXCEPT !.hop = hop]
  BY <1>4 DEF DownFaceUpdate, r, hop
<1>7. [r.entry EXCEPT !.hop = hop].dn = dn /\ [r.entry EXCEPT !.hop = hop].stole = e.stole
  BY <1>5 DEF Good, IsEntry
<1>8. QED BY <1>3, <1>6, <1>7 DEF Joined

LEMMA ReturnSetJoins ==
  ASSUME NEW e, NEW n, Good(n), NEW f \in Faces, Joined(e, n, f), NEW code \in IrCodes
  PROVE  Joined(e, InterestReturnSet(n, f, code), f)
<1> DEFINE d == [n.dn EXCEPT ![f].ir = code]
<1>1. IsDownList(n.dn) /\ f \in DOMAIN n.dn BY DEF Good, IsEntry, Joined
<1>2. \A g \in DOMAIN n.dn : n.dn[g] \in DownFace BY <1>1 DEF IsDownList
<1>3. DOMAIN d = DOMAIN n.dn /\ \A g \in DOMAIN n.dn \ {f} : d[g] = n.dn[g] OBVIOUS
<1> HIDE DEF d
<1>4. \/ InterestReturnSet(n, f, code) = n
      \/ InterestReturnSet(n, f, code) = [n EXCEPT !.dn = d]
  BY <1>1 DEF InterestReturnSet, d
<1>5. [n EXCEPT !.dn = d].dn = d /\ [n EXCEPT !.dn = d].stole = n.stole BY DEF Good, IsEntry
<1>6. QED BY <1>3, <1>4, <1>5 DEF Joined

LEMMA UpdatedJoins ==
  ASSUME now \in Nat, now > 0, active \subseteq Faces,
         NEW e, Good(e), NEW f \in Faces, NEW m \in Message, m.life # 0
  PROVE  Joined(e, Updated(e, f, m).entry, f)
<1> DEFINE u == DownFaceUpdate(e, f, m, now, FALSE, Resend)
           held == IF m.hop = 1 /\ ~IsLocal(f) /\ IrOn
                     THEN InterestReturnSet(u.entry, f, "hoplimit") ELSE u.entry
           r == Routed(f, m, u.forward)
<1>1. Good(u.entry) BY MessageIs, DownFaceUpdateGood
<1>2. Joined(e, u.entry, f) BY MessageIs, UpdateJoins
<1> HIDE DEF u
<1>3. Joined(e, held, f) /\ Good(held)
  <2>1. "hoplimit" \in IrCodes BY DEF IrCodes
  <2>2. QED BY <1>1, <1>2, <2>1, ReturnSetJoins, InterestReturnSetGood
<1> HIDE DEF held, r
<1>4. Updated(e, f, m).entry = UpFaceUpdate(held, r.next) BY DEF Updated, u, held, r
<1>5. UpFaceUpdate(held, r.next).dn = held.dn /\ UpFaceUpdate(held, r.next).stole = held.stole
  BY <1>3 DEF UpFaceUpdate, Good, IsEntry
<1>6. QED BY <1>3, <1>4, <1>5 DEF Joined

\* An entry of the key is joined, or a new one.
LEMMA PutMoves ==
  ASSUME NEW tbl, GoodTable(tbl), NEW k, NEW m, NEW f, NEW n, Joined(Looked(tbl, k, m), n, f)
  PROVE  Moves(tbl, Put(tbl, k, n), {}, {<<k, f>>}) /\ (Unused(tbl) => Unused(Put(tbl, k, n)))
<1> DEFINE new == Put(tbl, k, n)
           e == Looked(tbl, k, m)
<1>1. DOMAIN new = DOMAIN tbl \cup {k} /\ new[k] = n /\ \A j \in DOMAIN tbl \ {k} : new[j] = tbl[j]
  BY DEF Put
<1>2. /\ k \in DOMAIN tbl => e = tbl[k]
      /\ k \notin DOMAIN tbl => DOMAIN e.dn = {} /\ ~e.stole
  BY DEF Looked, NewEntry, NoDown
<1> HIDE DEF new, e
<1>3. Joined(e, n, f) BY DEF e
<1>4. Moves(tbl, new, {}, {<<k, f>>}) BY <1>1, <1>2, <1>3 DEF Moves, Joined
<1>5. Unused(tbl) => Unused(new) BY <1>1, <1>2, <1>3 DEF Unused, Joined
<1>6. QED BY <1>4, <1>5 DEF new

\* The requests of an entry that are answered are lost unless it is long-lived.
Spent(tbl, k) == {x \in {k} \X DOMAIN tbl[k].dn : ~tbl[k].longlife}

LEMMA ForwardMoves ==
  ASSUME NEW tbl, GoodTable(tbl), NEW k \in DOMAIN tbl, ~tbl[k].stole, NEW first,
         NEW new, NEW e, e = ForwardObject(tbl[k], first),
         new = Put(tbl, k, e) \/ (new = Drop(tbl, k) /\ e.stole)
  PROVE  /\ Moves(tbl, new, Spent(tbl, k), {})
         /\ ~tbl[k].longlife => \A f \in Faces : ~(k \in DOMAIN new /\ f \in DOMAIN new[k].dn)
         /\ e.stole => ~tbl[k].longlife
         /\ Unused(tbl) /\ (e.stole => new = Drop(tbl, k)) => Unused(new)
<1> DEFINE o == tbl[k]
<1>1. Good(o) BY DEF GoodTable
<1>2. CASE o.longlife
  <2> DEFINE d == Keep(o.dn, DOMAIN o.dn \cap active)
  <2>1. IsDownList(o.dn) BY <1>1 DEF Good, IsEntry
  <2>2. DOMAIN d = DOMAIN o.dn \cap active /\ \A f \in DOMAIN d : d[f].life = o.dn[f].life
    BY <2>1, KeepList
  <2> HIDE DEF d
  <2>3. e = [o EXCEPT !.dn = d] BY <1>2 DEF ForwardObject, d
  <2>4. e.dn = d /\ e.stole = FALSE /\ e.longlife = o.longlife BY <1>1, <2>3 DEF Good, IsEntry
  <2>5. DOMAIN new = DOMAIN tbl /\ new[k] = e /\ \A j \in DOMAIN tbl \ {k} : new[j] = tbl[j]
    BY <2>4 DEF Put
  <2>6. Moves(tbl, new, Spent(tbl, k), {}) BY <2>2, <2>4, <2>5 DEF Moves, Lapsed
  <2>7. Unused(tbl) => Unused(new) BY <2>4, <2>5 DEF Unused
  <2>8. QED BY <1>2, <2>4, <2>6, <2>7
<1>3. CASE ~o.longlife
  <2> DEFINE s == o.stole \/ ServedLast(first, o) \cap active # {}
  <2>1. e = [o EXCEPT !.dn = NoDown, !.stole = s] BY <1>3 DEF ForwardObject
  <2> HIDE DEF s
  <2>2. DOMAIN e.dn = {} /\ e.longlife = FALSE BY <1>1, <1>3, <2>1 DEF Good, IsEntry, NoDown
  <2>3. /\ DOMAIN new \subseteq DOMAIN tbl /\ DOMAIN tbl \ {k} \subseteq DOMAIN new
        /\ \A j \in DOMAIN tbl \ {k} : new[j] = tbl[j]
        /\ k \in DOMAIN new => new[k] = e
    BY DEF Put, Drop
  <2>4. Spent(tbl, k) = {k} \X DOMAIN o.dn BY <1>3 DEF Spent
  <2>5. Moves(tbl, new, Spent(tbl, k), {}) BY <2>2, <2>3, <2>4 DEF Moves
  <2>6. ASSUME Unused(tbl), e.stole => new = Drop(tbl, k) PROVE Unused(new)
    <3>1. k \in DOMAIN new => ~e.stole BY <2>6 DEF Drop
    <3>2. QED BY <2>3, <2>6, <3>1 DEF Unused
  <2>7. QED BY <1>3, <2>2, <2>3, <2>5, <2>6
<1>4. QED BY <1>2, <1>3

LEMMA ConsumedMoves ==
  ASSUME NEW tbl, GoodTable(tbl), Unused(tbl), NEW k \in DOMAIN tbl, NEW first
  PROVE  /\ Moves(tbl, Consumed(tbl, k, first), Spent(tbl, k), {})
         /\ ~tbl[k].longlife => \A f \in Faces : ~(/\ k \in DOMAIN Consumed(tbl, k, first)
                                                  /\ f \in DOMAIN Consumed(tbl, k, first)[k].dn)
         /\ Unused(Consumed(tbl, k, first))
<1> DEFINE e == ForwardObject(tbl[k], first)
           new == Consumed(tbl, k, first)
<1>1. IF e.stole THEN new = Drop(tbl, k) ELSE new = Put(tbl, k, e) BY DEF Consumed
<1>2. ~tbl[k].stole BY DEF Unused
<1>3. e = ForwardObject(tbl[k], first) OBVIOUS
<1> HIDE DEF e, new
<1>4. QED BY <1>1, <1>2, <1>3, ForwardMoves DEF new

LEMMA PitSearchedMoves ==
  ASSUME GoodTable(pit), now \in Nat, NEW o \in Objects
  PROVE  /\ Moves(pit, PitSearched(o), {}, {}) /\ (Unused(pit) => Unused(PitSearched(o)))
         /\ \A k \in DOMAIN pit : PitSearched(o)[k].longlife = pit[k].longlife
<1> DEFINE tbl == CleanedIn(pit, SymbolicKey(pit, o.keyid, o.chunk))
           new == PitSearched(o)
<1>1. GoodTable(tbl) /\ DOMAIN tbl = DOMAIN pit BY CleanedTable
<1>2. /\ Moves(pit, tbl, {}, {}) /\ (Unused(pit) => Unused(tbl))
      /\ \A k \in DOMAIN pit : tbl[k].longlife = pit[k].longlife
  BY CleanedMoves
<1>3. new = [k \in DOMAIN tbl |-> IF k \in Subscribed(o) /\ tbl[k].last < o.chunk
                                THEN [tbl[k] EXCEPT !.last = o.chunk] ELSE tbl[k]]
  BY DEF PitSearched
<1> HIDE DEF tbl, new
<1>4. \A k \in DOMAIN tbl : new[k].dn = tbl[k].dn /\ new[k].longlife = tbl[k].longlife /\ new[k].stole = tbl[k].stole
  BY <1>1, <1>3 DEF GoodTable, Good, IsEntry
<1>5. DOMAIN new = DOMAIN tbl BY <1>3
<1>6. Moves(tbl, new, {}, {}) /\ (Unused(tbl) => Unused(new)) BY <1>4, <1>5 DEF Moves, Unused
<1>7. \A k \in DOMAIN pit : new[k].longlife = pit[k].longlife BY <1>1, <1>2, <1>4
<1>8. QED BY <1>2, <1>6, <1>7, MovesOn DEF new

-----------------------------------------------------------------------------
(* The requests of Requests, read from the two tables.                     *)

TableOf(p, a, t) == IF t = "pit" THEN p ELSE a
WaitsIn(p, a) ==
  {r \in Faces \X TheTopics : r[2][2] \in DOMAIN TableOf(p, a, r[2][1])
                              /\ r[1] \in DOMAIN TableOf(p, a, r[2][1])[r[2][2]].dn}
WaitingIn(p, a) == [r \in WaitsIn(p, a) |-> TableOf(p, a, r[2][1])[r[2][2]].dn[r[1]].life]
LastingIn(p, a) ==
  {t \in TheTopics : t[2] \in DOMAIN TableOf(p, a, t[1]) /\ TableOf(p, a, t[1])[t[2]].longlife}

LEMMA BarsAre ==
  /\ waitingBar = WaitingIn(pit, app_pit) /\ lastingBar = LastingIn(pit, app_pit)
  /\ waitingBar' = WaitingIn(pit', app_pit') /\ lastingBar' = LastingIn(pit', app_pit')
BY DEF waitingBar, lastingBar, WaitingNow, WaitingIn, WaitsIn, LastingIn, Table, TableOf

\* A request, taken apart.
LEMMA RequestIs ==
  ASSUME NEW p, NEW a, NEW r
  PROVE  r \in DOMAIN WaitingIn(p, a) <=>
           \E f \in Faces, t \in {"pit", "app"}, k \in Keys :
             /\ r = <<f, <<t, k>>>> /\ k \in DOMAIN TableOf(p, a, t) /\ f \in DOMAIN TableOf(p, a, t)[k].dn
<1>1. DOMAIN WaitingIn(p, a) = WaitsIn(p, a) BY DEF WaitingIn
<1>2. ASSUME r \in WaitsIn(p, a)
      PROVE  \E f \in Faces, t \in {"pit", "app"}, k \in Keys :
             /\ r = <<f, <<t, k>>>> /\ k \in DOMAIN TableOf(p, a, t) /\ f \in DOMAIN TableOf(p, a, t)[k].dn
  <2>1. PICK f \in Faces, x \in TheTopics : r = <<f, x>> BY <1>2 DEF WaitsIn
  <2>2. PICK t \in {"pit", "app"}, k \in Keys : x = <<t, k>> BY DEF TheTopics
  <2>3. QED BY <1>2, <2>1, <2>2 DEF WaitsIn
<1>3. ASSUME NEW f \in Faces, NEW t \in {"pit", "app"}, NEW k \in Keys, r = <<f, <<t, k>>>>,
             k \in DOMAIN TableOf(p, a, t), f \in DOMAIN TableOf(p, a, t)[k].dn
      PROVE  r \in WaitsIn(p, a)
  <2>1. <<t, k>> \in TheTopics BY DEF TheTopics
  <2>2. r \in Faces \X TheTopics BY <1>3, <2>1
  <2>3. QED BY <1>3, <2>2 DEF WaitsIn
<1>4. QED BY <1>1, <1>2, <1>3

LEMMA RequestValue ==
  ASSUME NEW p, NEW a, NEW f, NEW t, NEW k, <<f, <<t, k>>>> \in DOMAIN WaitingIn(p, a)
  PROVE  /\ f \in Faces /\ t \in {"pit", "app"} /\ k \in Keys
         /\ k \in DOMAIN TableOf(p, a, t) /\ f \in DOMAIN TableOf(p, a, t)[k].dn
         /\ WaitingIn(p, a)[<<f, <<t, k>>>>] = TableOf(p, a, t)[k].dn[f].life
<1>1. PICK g \in Faces, u \in {"pit", "app"}, j \in Keys :
        /\ <<f, <<t, k>>>> = <<g, <<u, j>>>> /\ j \in DOMAIN TableOf(p, a, u) /\ g \in DOMAIN TableOf(p, a, u)[j].dn
  BY RequestIs
<1>2. f = g /\ t = u /\ k = j BY <1>1
<1>3. QED BY <1>1, <1>2 DEF WaitingIn

-----------------------------------------------------------------------------
(* Steps of the tables are steps of Requests.                              *)

\* The requests of a table, among those of Requests.
Among(S, t, R) == \A k, f : <<k, f>> \in S => <<f, <<t, k>>>> \in R

LEMMA NoneAmong == \A t, R : Among({}, t, R)
BY DEF Among

\* What a step of Requests loses that is not over, and what it asks anew.
Lifts(lost, asked) ==
  /\ \A r \in DOMAIN waitingBar \ DOMAIN waitingBar' : Promise!Over(r) \/ r \in lost
  /\ \A r \in DOMAIN waitingBar' : \/ r \in DOMAIN waitingBar /\ waitingBar'[r] = waitingBar[r]
                                   \/ r \in asked
  /\ \A t \in lastingBar' : t \in lastingBar \/ \E r \in asked : r[2] = t

\* What both tables lose and ask, in the terms of Requests.
LEMMA Lifted ==
  ASSUME UNCHANGED <<now, active>>, NEW lost, NEW asked,
         NEW lostPit, NEW lostApp, NEW askedPit, NEW askedApp,
         Moves(pit, pit', lostPit, askedPit), Moves(app_pit, app_pit', lostApp, askedApp),
         Among(lostPit, "pit", lost),
         Among(lostApp, "app", lost),
         Among(askedPit, "pit", asked),
         Among(askedApp, "app", asked)
  PROVE  Lifts(lost, asked)
<1> DEFINE W == WaitingIn(pit, app_pit)
           V == WaitingIn(pit', app_pit')
<1>1. waitingBar = W /\ waitingBar' = V BY BarsAre
<1>2. ASSUME NEW t \in {"pit", "app"}
      PROVE  /\ \A k \in DOMAIN TableOf(pit, app_pit, t) : \A f \in DOMAIN TableOf(pit, app_pit, t)[k].dn :
                  \/ k \in DOMAIN TableOf(pit', app_pit', t) /\ f \in DOMAIN TableOf(pit', app_pit', t)[k].dn
                  \/ Lapsed(TableOf(pit, app_pit, t), k, f)
                  \/ <<f, <<t, k>>>> \in lost
             /\ \A k \in DOMAIN TableOf(pit', app_pit', t) : \A f \in DOMAIN TableOf(pit', app_pit', t)[k].dn :
                  \/ /\ k \in DOMAIN TableOf(pit, app_pit, t) /\ f \in DOMAIN TableOf(pit, app_pit, t)[k].dn
                     /\ TableOf(pit', app_pit', t)[k].dn[f].life = TableOf(pit, app_pit, t)[k].dn[f].life
                  \/ <<f, <<t, k>>>> \in asked
             /\ \A k \in DOMAIN TableOf(pit', app_pit', t) : TableOf(pit', app_pit', t)[k].longlife =>
                  \/ k \in DOMAIN TableOf(pit, app_pit, t) /\ TableOf(pit, app_pit, t)[k].longlife
                  \/ \E f : <<f, <<t, k>>>> \in asked
  <2>1. CASE t = "pit"
    <3>1. TableOf(pit, app_pit, t) = pit /\ TableOf(pit', app_pit', t) = pit' BY <2>1 DEF TableOf
    <3>2. QED BY <2>1, <3>1 DEF Moves, Among
  <2>2. CASE t = "app"
    <3>1. TableOf(pit, app_pit, t) = app_pit /\ TableOf(pit', app_pit', t) = app_pit' BY <2>2 DEF TableOf
    <3>2. QED BY <2>2, <3>1 DEF Moves, Among
  <2>3. QED BY <2>1, <2>2
<1>3. ASSUME NEW r \in DOMAIN W, r \notin DOMAIN V PROVE Promise!Over(r) \/ r \in lost
  <2>1. PICK f \in Faces, t \in {"pit", "app"}, k \in Keys :
          r = <<f, <<t, k>>>> /\ k \in DOMAIN TableOf(pit, app_pit, t) /\ f \in DOMAIN TableOf(pit, app_pit, t)[k].dn
    BY RequestIs
  <2>2. ~(k \in DOMAIN TableOf(pit', app_pit', t) /\ f \in DOMAIN TableOf(pit', app_pit', t)[k].dn)
    BY <1>3, <2>1, RequestIs
  <2>3. Lapsed(TableOf(pit, app_pit, t), k, f) \/ r \in lost BY <1>2, <2>1, <2>2
  <2>4. waitingBar[r] = TableOf(pit, app_pit, t)[k].dn[f].life BY <1>1, <2>1, RequestValue
  <2>5. r[1] = f BY <2>1
  <2>6. QED BY <2>3, <2>4, <2>5 DEF Lapsed, Promise!Over
<1>4. ASSUME NEW r \in DOMAIN V
      PROVE  (r \in DOMAIN W /\ V[r] = W[r]) \/ r \in asked
  <2>1. PICK f \in Faces, t \in {"pit", "app"}, k \in Keys :
          r = <<f, <<t, k>>>> /\ k \in DOMAIN TableOf(pit', app_pit', t) /\ f \in DOMAIN TableOf(pit', app_pit', t)[k].dn
    BY RequestIs
  <2>2. V[r] = TableOf(pit', app_pit', t)[k].dn[f].life BY <2>1, RequestValue
  <2>3. CASE r \in asked BY <2>3
  <2>4. CASE r \notin asked
    <3>1. /\ k \in DOMAIN TableOf(pit, app_pit, t) /\ f \in DOMAIN TableOf(pit, app_pit, t)[k].dn
          /\ TableOf(pit', app_pit', t)[k].dn[f].life = TableOf(pit, app_pit, t)[k].dn[f].life
      BY <1>2, <2>1, <2>4
    <3>2. r \in DOMAIN W BY <2>1, <3>1, RequestIs
    <3>3. W[r] = TableOf(pit, app_pit, t)[k].dn[f].life BY <2>1, <3>2, RequestValue
    <3>4. QED BY <2>2, <3>1, <3>2, <3>3
  <2>5. QED BY <2>3, <2>4
<1>5. ASSUME NEW x \in lastingBar' PROVE x \in lastingBar \/ \E r \in asked : r[2] = x
  <2>1. x \in LastingIn(pit', app_pit') BY BarsAre
  <2>2. PICK t \in {"pit", "app"}, k \in Keys : x = <<t, k>> BY <2>1 DEF LastingIn, TheTopics
  <2>3. k \in DOMAIN TableOf(pit', app_pit', t) /\ TableOf(pit', app_pit', t)[k].longlife
    BY <2>1, <2>2 DEF LastingIn
  <2>4. CASE k \in DOMAIN TableOf(pit, app_pit, t) /\ TableOf(pit, app_pit, t)[k].longlife
    <3>1. x \in LastingIn(pit, app_pit) BY <2>1, <2>2, <2>4 DEF LastingIn
    <3>2. QED BY <3>1, BarsAre
  <2>5. CASE \E f : <<f, <<t, k>>>> \in asked
    <3>1. PICK f : <<f, x>> \in asked BY <2>2, <2>5
    <3>2. <<f, x>>[2] = x OBVIOUS
    <3>3. QED BY <3>1, <3>2
  <2>6. QED BY <1>2, <2>3, <2>4, <2>5
<1> HIDE DEF W, V
<1>6. QED BY <1>1, <1>3, <1>4, <1>5 DEF Lifts

LEMMA AnsweredIs ==
  ASSUME NEW S \in SUBSET Faces
  PROVE  /\ \A what \in {"obj", "ret"} : tx' = To(S, what) => answeredBar' = S
         /\ \A what \in {"int", "ir"} : tx' = To(S, what) => answeredBar' = {}
         /\ tx' = {} => answeredBar' = {}
<1>1. answeredBar' = {s.to : s \in {x \in tx' : x.what \in {"obj", "ret"}}} BY DEF answeredBar
<1>2. ASSUME NEW what \in {"obj", "ret"}, tx' = To(S, what) PROVE answeredBar' = S
  <2>1. {x \in tx' : x.what \in {"obj", "ret"}} = tx' BY <1>2 DEF To
  <2>2. {s.to : s \in tx'} = S
    <3>1. \A s \in tx' : s.to \in S BY <1>2 DEF To
    <3>2. \A f \in S : [to |-> f, what |-> what] \in tx' BY <1>2 DEF To
    <3>3. \A f \in S : \E s \in tx' : s.to = f BY <3>2
    <3>4. QED BY <3>1, <3>3
  <2>3. QED BY <1>1, <2>1, <2>2
<1>3. ASSUME NEW what \in {"int", "ir"}, tx' = To(S, what) PROVE answeredBar' = {}
  <2>1. {x \in tx' : x.what \in {"obj", "ret"}} = {} BY <1>3 DEF To
  <2>2. QED BY <1>1, <2>1
<1>4. tx' = {} => answeredBar' = {} BY <1>1
<1>5. QED BY <1>2, <1>3, <1>4

LEMMA Forgetting ==
  ASSUME UNCHANGED <<now, active>>, answeredBar' = {},
         Moves(pit, pit', {}, {}), Moves(app_pit, app_pit', {}, {})
  PROVE  Promise!RNext
<1>1. Lifts({}, {}) BY NoneAmong, Lifted
<1>2. Promise!Forget BY <1>1 DEF Lifts, Promise!Forget, Promise!SameUntil
<1>3. QED BY <1>2 DEF Promise!RNext

LEMMA Asking ==
  ASSUME UNCHANGED <<now, active>>, answeredBar' = {}, NEW f \in Faces, f \in active, NEW k \in Keys, NEW t,
         \/ t = "pit" /\ Moves(pit, pit', {}, {<<k, f>>}) /\ Moves(app_pit, app_pit', {}, {})
         \/ t = "app" /\ Moves(pit, pit', {}, {}) /\ Moves(app_pit, app_pit', {}, {<<k, f>>})
  PROVE  Promise!RNext
<1> DEFINE asked == {<<f, <<t, k>>>>}
<1>1. Lifts({}, asked)
  <2>1. CASE t = "pit"
    <3>1. Moves(pit, pit', {}, {<<k, f>>}) /\ Moves(app_pit, app_pit', {}, {}) BY <2>1
    <3>2. Among({<<k, f>>}, "pit", asked) BY <2>1 DEF Among
    <3> HIDE DEF asked
    <3>3. QED BY <3>1, <3>2, NoneAmong, Lifted
  <2>2. CASE t = "app"
    <3>1. Moves(pit, pit', {}, {}) /\ Moves(app_pit, app_pit', {}, {<<k, f>>}) BY <2>2
    <3>2. Among({<<k, f>>}, "app", asked) BY <2>2 DEF Among
    <3> HIDE DEF asked
    <3>3. QED BY <3>1, <3>2, NoneAmong, Lifted
  <2>3. QED BY <2>1, <2>2
<1>2. \A x \in lastingBar' : x \in lastingBar \/ x = <<t, k>> BY <1>1 DEF Lifts
<1>3. \A r \in asked : r = <<f, <<t, k>>>> OBVIOUS
<1> HIDE DEF asked
<1>4. Promise!Ask(f, <<t, k>>) BY <1>1, <1>2, <1>3 DEF Lifts, Promise!Ask, Promise!SameUntil
<1>5. <<t, k>> \in TheTopics BY DEF TheTopics
<1>6. QED BY <1>4, <1>5 DEF Promise!RNext

LEMMA Withdrawing ==
  ASSUME UNCHANGED <<now, active>>, answeredBar' = {}, NEW lost \in SUBSET (Keys \X Faces),
         Moves(pit, pit', {}, {}), Moves(app_pit, app_pit', lost, {})
  PROVE  Promise!RNext
<1> DEFINE L == Faces \X ({"app"} \X Keys)
<1>1. Lifts(L, {})
  <2>1. Among(lost, "app", L) BY DEF Among
  <2> HIDE DEF L
  <2>2. QED BY <2>1, NoneAmong, Lifted
<1>2. Promise!Withdraw BY <1>1 DEF Lifts, Promise!Withdraw, Promise!SameUntil
<1>3. QED BY <1>2 DEF Promise!RNext

\* The table t is cleaned to mid, and the entry k of that is answered.
LEMMA Answering ==
  ASSUME UNCHANGED <<now, active>>, NEW t \in {"pit", "app"}, NEW cur, NEW mid, NEW new, NEW k \in Keys,
         \/ t = "pit" /\ cur = pit /\ new = pit' /\ Moves(app_pit, app_pit', {}, {})
         \/ t = "app" /\ cur = app_pit /\ new = app_pit' /\ Moves(pit, pit', {}, {}),
         DOMAIN mid = DOMAIN cur, \A j \in DOMAIN cur : mid[j].longlife = cur[j].longlife,
         Moves(cur, mid, {}, {}), k \in DOMAIN mid, Moves(mid, new, Spent(mid, k), {}),
         DOMAIN cur[k].dn \subseteq Faces,
         ~mid[k].longlife => \A f \in Faces : ~(k \in DOMAIN new /\ f \in DOMAIN new[k].dn),
         answeredBar' = DOMAIN mid[k].dn \cap active
  PROVE  Promise!RNext
<1> DEFINE topic == <<t, k>>
           lost == {r \in DOMAIN waitingBar : r[2] = topic /\ ~cur[k].longlife}
           takers == {r \in DOMAIN waitingBar : r[2] = topic /\ r[1] \in active}
<1>1. cur = TableOf(pit, app_pit, t) /\ new = TableOf(pit', app_pit', t) BY DEF TableOf
<1>2. \A f \in DOMAIN mid[k].dn : f \in DOMAIN cur[k].dn /\ mid[k].dn[f].life = cur[k].dn[f].life
  BY DEF Moves
<1>3. \A f \in Faces : <<f, topic>> \in DOMAIN waitingBar <=> f \in DOMAIN cur[k].dn
  <2>1. waitingBar = WaitingIn(pit, app_pit) BY BarsAre
  <2>2. QED BY <1>1, <2>1, RequestIs, RequestValue
<1>4. \A f \in Faces : <<f, topic>> \in DOMAIN waitingBar' <=> k \in DOMAIN new /\ f \in DOMAIN new[k].dn
  <2>1. waitingBar' = WaitingIn(pit', app_pit') BY BarsAre
  <2>2. QED BY <1>1, <2>1, RequestIs, RequestValue
<1>5. Lifts(lost, {})
  <2>1. Moves(cur, new, Spent(mid, k), {}) BY MovesOn
  <2>2. Among(Spent(mid, k), t, lost)
    <3>1. SUFFICES ASSUME NEW j, NEW g, <<j, g>> \in Spent(mid, k) PROVE <<g, <<t, j>>>> \in lost BY DEF Among
    <3>2. j = k /\ g \in DOMAIN mid[k].dn /\ ~mid[k].longlife BY <3>1 DEF Spent
    <3>3. g \in Faces /\ g \in DOMAIN cur[k].dn BY <1>2, <3>2
    <3>4. QED BY <1>3, <3>2, <3>3
  <2>3. CASE t = "pit"
    <3> HIDE DEF lost
    <3>1. Moves(pit, pit', Spent(mid, k), {}) /\ Moves(app_pit, app_pit', {}, {}) BY <2>1, <2>3
    <3>2. Among(Spent(mid, k), "pit", lost) BY <2>2, <2>3
    <3>3. QED BY <3>1, <3>2, NoneAmong, Lifted
  <2>4. CASE t = "app"
    <3> HIDE DEF lost
    <3>1. Moves(pit, pit', {}, {}) /\ Moves(app_pit, app_pit', Spent(mid, k), {}) BY <2>1, <2>4
    <3>2. Among(Spent(mid, k), "app", lost) BY <2>2, <2>4
    <3>3. QED BY <3>1, <3>2, NoneAmong, Lifted
  <2>5. QED BY <2>3, <2>4
<1>6. \A r \in DOMAIN waitingBar : \E f \in Faces : \E x : r = <<f, x>>
  <2>1. waitingBar = WaitingIn(pit, app_pit) BY BarsAre
  <2>2. QED BY <2>1, RequestIs
<1>7. \A r \in takers : r[1] \in Faces /\ r = <<r[1], topic>> /\ r[1] \in DOMAIN cur[k].dn BY <1>3, <1>6
<1>8. answeredBar' \subseteq {r[1] : r \in takers}
  <2>1. SUFFICES ASSUME NEW f \in DOMAIN mid[k].dn, f \in active PROVE f \in {r[1] : r \in takers} OBVIOUS
  <2>2. f \in Faces /\ f \in DOMAIN cur[k].dn BY <1>2
  <2>3. <<f, topic>> \in takers BY <1>3, <2>1, <2>2
  <2>4. <<f, topic>>[1] = f OBVIOUS
  <2> HIDE DEF takers, topic
  <2>5. QED BY <2>3, <2>4
<1>9. \A r \in takers : ~Promise!Over(r) => r[1] \in answeredBar'
  <2>1. SUFFICES ASSUME NEW r \in takers, ~Promise!Over(r) PROVE r[1] \in answeredBar' OBVIOUS
  <2>2. PICK f \in Faces : f = r[1] BY <1>7
  <2>3. f \in active /\ r = <<f, <<t, k>>>> /\ f \in DOMAIN cur[k].dn /\ r \in DOMAIN waitingBar BY <1>7, <2>1, <2>2
  <2>4. waitingBar[r] = cur[k].dn[f].life
    <3>1. waitingBar = WaitingIn(pit, app_pit) BY BarsAre
    <3>2. QED BY <1>1, <2>3, <3>1, RequestValue
  <2>5. ~Lapsed(cur, k, f) BY <2>1, <2>2, <2>3, <2>4 DEF Promise!Over, Lapsed
  <2>6. f \in DOMAIN mid[k].dn BY <2>3, <2>5 DEF Moves
  <2>7. QED BY <2>2, <2>3, <2>6
<1>10. topic \notin lastingBar => ~cur[k].longlife
  <2>1. lastingBar = LastingIn(pit, app_pit) BY BarsAre
  <2>2. topic \in TheTopics /\ topic[1] = t /\ topic[2] = k BY DEF TheTopics
  <2>3. QED BY <1>1, <2>1, <2>2 DEF LastingIn
<1>11. topic \notin lastingBar => takers \cap DOMAIN waitingBar' = {}
  <2>1. SUFFICES ASSUME topic \notin lastingBar, NEW r \in takers, r \in DOMAIN waitingBar' PROVE FALSE OBVIOUS
  <2>2. ~mid[k].longlife BY <1>10, <2>1
  <2>3. r[1] \in Faces /\ r = <<r[1], topic>> BY <1>7
  <2>4. k \in DOMAIN new /\ r[1] \in DOMAIN new[k].dn BY <1>4, <2>1, <2>3
  <2>5. QED BY <2>2, <2>3, <2>4
<1>12. \A r \in lost : Promise!Over(r) \/ (r \in takers /\ topic \notin lastingBar)
  <2>1. SUFFICES ASSUME NEW r \in lost, ~Promise!Over(r) PROVE r \in takers /\ topic \notin lastingBar OBVIOUS
  <2>2. r[1] \in active BY <2>1 DEF Promise!Over
  <2>3. topic \notin lastingBar
    <3>1. ~cur[k].longlife OBVIOUS
    <3>2. lastingBar = LastingIn(pit, app_pit) BY BarsAre
    <3>3. topic[1] = t /\ topic[2] = k OBVIOUS
    <3>4. QED BY <1>1, <3>1, <3>2, <3>3 DEF LastingIn
  <2>4. QED BY <2>2, <2>3
<1> HIDE DEF takers, lost
<1>13. Promise!Answer(topic)
  BY <1>5, <1>8, <1>9, <1>11, <1>12 DEF Lifts, Promise!Answer, Promise!SameUntil, takers
<1>14. topic \in TheTopics BY DEF TheTopics
<1>15. QED BY <1>13, <1>14 DEF Promise!RNext

-----------------------------------------------------------------------------
(* The handlers.                                                           *)

\* No Interest and no registration takes a request back: with a lifetime of 0
\* the code takes out the last element of the list, whoever asked.
NoTakeBack == \A m \in Interests \cup Registrations : m.life # 0

\* What a step that leaves nothing dangling keeps.
Kept == Promise!RNext /\ Unused(pit') /\ Unused(app_pit')

LEMMA NoAnswer ==
  ASSUME \A s \in tx' : s.what \notin {"obj", "ret"}
  PROVE  answeredBar' = {}
BY DEF answeredBar

LEMMA UpdatedTx ==
  ASSUME NEW e, NEW f, NEW m
  PROVE  \A s \in Updated(e, f, m).tx : s.what \notin {"obj", "ret"}
<1> DEFINE u == DownFaceUpdate(e, f, m, now, FALSE, Resend)
           r == Routed(f, m, u.forward)
<1>1. Updated(e, f, m).tx = To(r.next, "int") \cup To(r.ir, "ir") BY DEF Updated
<1> HIDE DEF r
<1>2. QED BY <1>1 DEF To

LEMMA InterestKept ==
  ASSUME IInv, Unused(pit), Unused(app_pit), NoTakeBack,
         NEW f \in Consumers, NEW m \in Interests, Interest(f, m)
  PROVE  Kept
<1> DEFINE k == <<m.restr, m.chunk>>
           atbl == AppPitCleaned(f, m)
<1> USE IInvTables
<1>1. f \in Faces /\ m \in Message /\ k \in Keys /\ m.life # 0 BY Inputs, MessageIs DEF NoTakeBack
<1> HIDE DEF k
<1>2. GoodTable(atbl) BY CleanedTable DEF AppPitCleaned
<1>3. Moves(app_pit, atbl, {}, {}) /\ Unused(atbl)
  BY CleanedMoves, SameMoves DEF AppPitCleaned
<1> HIDE DEF atbl
<1>4. f \in active /\ UNCHANGED <<now, active>> BY DEF Interest
<1>5. Moves(pit, pit, {}, {}) /\ Moves(app_pit, app_pit, {}, {}) BY SameMoves
<1>6. CASE InterestSpent(f, m) \/ InterestClashes(f, m)
  <2>1. pit' = pit /\ app_pit' = app_pit /\ \A s \in tx' : s.what \notin {"obj", "ret"}
    BY <1>6 DEF InterestSpent, InterestClashes, To
  <2>2. answeredBar' = {} BY <2>1, NoAnswer
  <2>3. Promise!RNext BY <1>4, <1>5, <2>1, <2>2, Forgetting
  <2>4. QED BY <2>1, <2>3 DEF Kept
<1>7. CASE InterestPit(f, m)
  <2> DEFINE e == Looked(pit, k, m)
             u == Updated(e, f, m)
  <2>1. Good(e) BY <1>1, LookedGood
  <2>2. Joined(e, u.entry, f) BY <1>1, <2>1, UpdatedJoins
  <2>3. Moves(pit, Put(pit, k, u.entry), {}, {<<k, f>>}) /\ Unused(Put(pit, k, u.entry))
    BY <2>2, PutMoves
  <2>4. \A s \in u.tx : s.what \notin {"obj", "ret"} BY UpdatedTx
  <2>5. /\ app_pit' = atbl
        /\ \/ pit' = pit /\ tx' = {}
           \/ pit' = Put(pit, k, u.entry) /\ tx' = u.tx
    BY <1>7 DEF InterestPit, k, atbl
  <2> HIDE DEF u, e
  <2>6. answeredBar' = {} BY <2>4, <2>5, NoAnswer
  <2>7. CASE pit' = pit
    <3>1. Promise!RNext BY <1>3, <1>4, <1>5, <2>5, <2>6, <2>7, Forgetting
    <3>2. QED BY <1>3, <2>5, <2>7, <3>1 DEF Kept
  <2>8. CASE pit' = Put(pit, k, u.entry)
    <3>1. Moves(pit, pit', {}, {<<k, f>>}) /\ Moves(app_pit, app_pit', {}, {}) BY <1>3, <2>3, <2>5, <2>8
    <3>2. Promise!RNext BY <1>1, <1>4, <2>6, <3>1, Asking
    <3>3. QED BY <1>3, <2>3, <2>5, <2>8, <3>2 DEF Kept
  <2>9. QED BY <2>5, <2>7, <2>8
<1>8. CASE InterestAppPit(f, m)
  <2> DEFINE e == Looked(atbl, k, m)
             u == Updated(e, f, m)
  <2>1. Good(e) BY <1>1, <1>2, LookedGood
  <2>2. Joined(e, u.entry, f) BY <1>1, <2>1, UpdatedJoins
  <2>3. Moves(atbl, Put(atbl, k, u.entry), {}, {<<k, f>>}) /\ Unused(Put(atbl, k, u.entry))
    BY <1>2, <1>3, <2>2, PutMoves
  <2>4. \A s \in u.tx : s.what \notin {"obj", "ret"} BY UpdatedTx
  <2>5. pit' = pit /\ app_pit' = Put(atbl, k, u.entry) /\ tx' = u.tx
    BY <1>8 DEF InterestAppPit, k, atbl
  <2> HIDE DEF u, e
  <2>6. answeredBar' = {} BY <2>4, <2>5, NoAnswer
  <2>7. Moves(app_pit, app_pit', {}, {<<k, f>>}) BY <1>3, <2>3, <2>5, MovesOn
  <2>8. Moves(pit, pit', {}, {}) BY <1>5, <2>5
  <2>9. Promise!RNext BY <1>1, <1>4, <2>6, <2>7, <2>8, Asking
  <2>10. QED BY <2>3, <2>5, <2>9 DEF Kept
<1>9. QED BY <1>6, <1>7, <1>8 DEF Interest

LEMMA ObjectKept ==
  ASSUME IInv, Unused(pit), Unused(app_pit), NEW f \in Producers, NEW o \in Objects, Object(f, o)
  PROVE  Kept
<1> USE IInvTables
<1>1. UNCHANGED <<now, active>> BY DEF Object
<1>2. Moves(pit, pit, {}, {}) /\ Moves(app_pit, app_pit, {}, {}) BY SameMoves
<1>3. CASE ObjectAppPit(f, o)
  <2>1. PICK k \in ObjectForApp(f, o) :
          /\ pit' = pit
          /\ \/ tx' = {} /\ app_pit' = app_pit
             \/ tx' = To(DOMAIN app_pit[k].dn \cap active, "obj") /\ app_pit' = Consumed(app_pit, k, NoDown)
    BY <1>3 DEF ObjectAppPit
  <2>2. k \in DOMAIN app_pit /\ k \in Keys BY DEF ObjectForApp, SearchWithChunk, GoodTable
  <2>3. CASE tx' = {} /\ app_pit' = app_pit
    <3>1. answeredBar' = {} BY <2>3, NoAnswer
    <3>2. Promise!RNext BY <1>1, <1>2, <2>1, <2>3, <3>1, Forgetting
    <3>3. QED BY <2>1, <2>3, <3>2 DEF Kept
  <2>4. CASE tx' = To(DOMAIN app_pit[k].dn \cap active, "obj") /\ app_pit' = Consumed(app_pit, k, NoDown)
    <3>1. DOMAIN app_pit[k].dn \subseteq Faces BY <2>2, DownFacesAreFaces
    <3>2. DOMAIN app_pit[k].dn \cap active \in SUBSET Faces BY <3>1
    <3>3. answeredBar' = DOMAIN app_pit[k].dn \cap active BY <2>4, <3>2, AnsweredIs
    <3>4. /\ Moves(app_pit, app_pit', Spent(app_pit, k), {})
          /\ ~app_pit[k].longlife => \A g \in Faces : ~(k \in DOMAIN app_pit' /\ g \in DOMAIN app_pit'[k].dn)
          /\ Unused(app_pit')
      BY <2>2, <2>4, ConsumedMoves
    <3>5. "app" \in {"pit", "app"} /\ Moves(pit, pit', {}, {}) BY <1>2, <2>1
    <3>6. Promise!RNext BY <1>1, <1>2, <2>2, <3>1, <3>3, <3>4, <3>5, Answering
    <3>7. QED BY <2>1, <3>4, <3>6 DEF Kept
  <2>5. QED BY <2>1, <2>3, <2>4
<1>4. CASE ObjectPit(f, o)
  <2> DEFINE mid == PitSearched(o)
             first == IF Subscribed(o) = {} THEN NoDown ELSE mid[CHOOSE s \in Subscribed(o) : TRUE].dn
  <2>1. GoodTable(mid) /\ DOMAIN mid = DOMAIN pit BY PitSearchedTable
  <2>2. /\ Moves(pit, mid, {}, {}) /\ Unused(mid)
        /\ \A j \in DOMAIN pit : mid[j].longlife = pit[j].longlife
    BY PitSearchedMoves
  <2>3. Matched(mid, o) \subseteq DOMAIN mid
    BY <2>1 DEF Matched, SearchWithChunk, Subscribed, SearchSymbolic, SymbolicKey
  <2>4. /\ app_pit' = app_pit
        /\ \/ tx' = {} /\ pit' = mid
           \/ \E k \in Matched(mid, o) :
                /\ tx' = To(DOMAIN mid[k].dn \cap active, "obj")
                /\ pit' = Consumed(mid, k, first)
    BY <1>4 DEF ObjectPit
  <2> HIDE DEF mid, first
  <2>5. CASE tx' = {} /\ pit' = mid
    <3>1. answeredBar' = {} BY <2>5, NoAnswer
    <3>2. Promise!RNext BY <1>1, <1>2, <2>2, <2>4, <2>5, <3>1, Forgetting
    <3>3. QED BY <2>2, <2>4, <2>5, <3>2 DEF Kept
  <2>6. ASSUME NEW k \in Matched(mid, o), tx' = To(DOMAIN mid[k].dn \cap active, "obj"),
               pit' = Consumed(mid, k, first)
        PROVE  Kept
    <3>1. k \in DOMAIN mid /\ k \in Keys BY <2>1, <2>3 DEF GoodTable
    <3>2. DOMAIN mid[k].dn \subseteq Faces /\ DOMAIN pit[k].dn \subseteq Faces
      BY <2>1, <3>1, DownFacesAreFaces
    <3>3. DOMAIN mid[k].dn \cap active \in SUBSET Faces BY <3>2
    <3>4. answeredBar' = DOMAIN mid[k].dn \cap active BY <2>6, <3>3, AnsweredIs
    <3>5. /\ Moves(mid, pit', Spent(mid, k), {})
          /\ ~mid[k].longlife => \A g \in Faces : ~(k \in DOMAIN pit' /\ g \in DOMAIN pit'[k].dn)
          /\ Unused(pit')
      BY <2>1, <2>2, <2>6, <3>1, ConsumedMoves
    <3>6. "pit" \in {"pit", "app"} /\ Moves(app_pit, app_pit', {}, {}) BY <1>2, <2>4
    <3>7. Promise!RNext BY <1>1, <2>1, <2>2, <3>1, <3>2, <3>4, <3>5, <3>6, Answering
    <3>8. QED BY <2>4, <3>5, <3>7 DEF Kept
  <2>7. QED BY <2>4, <2>5, <2>6
<1>5. QED BY <1>3, <1>4 DEF Object

LEMMA InterestReturnKept ==
  ASSUME IInv, Unused(pit), Unused(app_pit), NEW f \in Producers, NEW m \in Returns,
         InterestReturn(f, m), dangling' = {}
  PROVE  Kept
<1> DEFINE atbl == ReturnCleaned(app_pit, m)
           ptbl == ReturnCleaned(pit, m)
<1> USE IInvTables
<1>1. UNCHANGED <<now, active>> BY DEF InterestReturn
<1>2. /\ GoodTable(atbl) /\ DOMAIN atbl = DOMAIN app_pit
      /\ GoodTable(ptbl) /\ DOMAIN ptbl = DOMAIN pit
  BY CleanedTable DEF ReturnCleaned
<1>3. /\ Moves(app_pit, atbl, {}, {}) /\ Unused(atbl)
      /\ \A j \in DOMAIN app_pit : atbl[j].longlife = app_pit[j].longlife
  BY CleanedMoves DEF ReturnCleaned
<1>4. /\ Moves(pit, ptbl, {}, {}) /\ Unused(ptbl)
      /\ \A j \in DOMAIN pit : ptbl[j].longlife = pit[j].longlife
  BY CleanedMoves DEF ReturnCleaned
<1>5. Moves(pit, pit, {}, {}) BY SameMoves
<1>6. /\ ReturnedOn(app_pit, m) \subseteq DOMAIN atbl
      /\ ReturnedOn(pit, m) \subseteq DOMAIN ptbl
  BY <1>2 DEF ReturnedOn, Search, LonglifeKey
<1>7. CASE ReturnAppPit(m)
  <2>1. PICK k \in ReturnedOn(app_pit, m) :
          /\ tx' = To(DOMAIN atbl[k].dn \cap active, "ret")
          /\ app_pit' = Put(atbl, k, ForwardObject(atbl[k], NoDown))
          /\ \/ ForwardObject(atbl[k], NoDown).stole /\ dangling' = dangling \cup {k}
             \/ ~ForwardObject(atbl[k], NoDown).stole /\ pit' = pit
    BY <1>7 DEF ReturnAppPit
  <2> HIDE DEF atbl
  <2> DEFINE e == ForwardObject(atbl[k], NoDown)
  <2>2. ~e.stole /\ pit' = pit BY <2>1
  <2>3. k \in DOMAIN atbl /\ k \in Keys BY <1>2, <1>6 DEF GoodTable
  <2>4. DOMAIN atbl[k].dn \subseteq Faces /\ DOMAIN app_pit[k].dn \subseteq Faces
    BY <1>2, <2>3, DownFacesAreFaces
  <2>5. DOMAIN atbl[k].dn \cap active \in SUBSET Faces BY <2>4
  <2>6. answeredBar' = DOMAIN atbl[k].dn \cap active BY <2>1, <2>5, AnsweredIs
  <2>7. ~atbl[k].stole BY <1>3, <2>3 DEF Unused
  <2>8. e = ForwardObject(atbl[k], NoDown) /\ app_pit' = Put(atbl, k, e) BY <2>1
  <2> HIDE DEF e
  <2>9. /\ Moves(atbl, app_pit', Spent(atbl, k), {})
        /\ ~atbl[k].longlife => \A g \in Faces : ~(k \in DOMAIN app_pit' /\ g \in DOMAIN app_pit'[k].dn)
        /\ Unused(app_pit')
    BY <1>2, <1>3, <2>2, <2>3, <2>7, <2>8, ForwardMoves
  <2>10. "app" \in {"pit", "app"} /\ Moves(pit, pit', {}, {}) BY <1>5, <2>2
  <2>11. Promise!RNext BY <1>1, <1>2, <1>3, <2>3, <2>4, <2>6, <2>9, <2>10, Answering
  <2>12. QED BY <2>2, <2>9, <2>11 DEF Kept
<1>8. CASE ReturnPit(m)
  <2>1. /\ app_pit' = atbl
        /\ \/ tx' = {} /\ pit' = ptbl
           \/ \E k \in ReturnedOn(pit, m) :
                /\ tx' = To(DOMAIN ptbl[k].dn \cap active, "ret")
                /\ pit' = Consumed(ptbl, k, NoDown)
    BY <1>8 DEF ReturnPit
  <2> HIDE DEF atbl, ptbl
  <2>2. CASE tx' = {} /\ pit' = ptbl
    <3>1. answeredBar' = {} BY <2>2, NoAnswer
    <3>2. Promise!RNext BY <1>1, <1>3, <1>4, <2>1, <2>2, <3>1, Forgetting
    <3>3. QED BY <1>3, <1>4, <2>1, <2>2, <3>2 DEF Kept
  <2>3. ASSUME NEW k \in ReturnedOn(pit, m), tx' = To(DOMAIN ptbl[k].dn \cap active, "ret"),
               pit' = Consumed(ptbl, k, NoDown)
        PROVE  Kept
    <3>1. k \in DOMAIN ptbl /\ k \in Keys BY <1>2, <1>6 DEF GoodTable
    <3>2. DOMAIN ptbl[k].dn \subseteq Faces /\ DOMAIN pit[k].dn \subseteq Faces
      BY <1>2, <3>1, DownFacesAreFaces
    <3>3. DOMAIN ptbl[k].dn \cap active \in SUBSET Faces BY <3>2
    <3>4. answeredBar' = DOMAIN ptbl[k].dn \cap active BY <2>3, <3>3, AnsweredIs
    <3>5. /\ Moves(ptbl, pit', Spent(ptbl, k), {})
          /\ ~ptbl[k].longlife => \A g \in Faces : ~(k \in DOMAIN pit' /\ g \in DOMAIN pit'[k].dn)
          /\ Unused(pit')
      BY <1>2, <1>4, <2>3, <3>1, ConsumedMoves
    <3>6. "pit" \in {"pit", "app"} /\ Moves(app_pit, app_pit', {}, {}) BY <1>3, <2>1
    <3>7. Promise!RNext BY <1>1, <1>2, <1>4, <3>1, <3>2, <3>4, <3>5, <3>6, Answering
    <3>8. QED BY <1>3, <2>1, <3>5, <3>7 DEF Kept
  <2>4. QED BY <2>1, <2>2, <2>3
<1>9. QED BY <1>7, <1>8 DEF InterestReturn

LEMMA AppPitKept ==
  ASSUME IInv, Unused(pit), Unused(app_pit), NoTakeBack,
         NEW f \in Consumers, NEW m \in Registrations, AppPitReg(f, m) \/ AppPitDereg(f, m)
  PROVE  Kept
<1> USE IInvTables
<1> DEFINE k == <<m.restr, m.chunk>>
<1>1. f \in Faces /\ m \in Message /\ k \in Keys /\ IsMessage(m) /\ m.life # 0
  BY Inputs, MessageIs DEF NoTakeBack
<1>2. pit' = pit /\ tx' = {} /\ f \in active /\ UNCHANGED <<now, active>>
  BY DEF AppPitReg, AppPitDereg
<1>3. answeredBar' = {} BY <1>2, NoAnswer
<1>4. Moves(pit, pit', {}, {}) BY <1>2, SameMoves
<1>5. CASE AppPitReg(f, m)
  <2> DEFINE e == Looked(app_pit, k, m)
             u == DownFaceUpdate(e, f, m, now, TRUE, "NOSUP")
  <2>1. Good(e) BY <1>1, LookedGood
  <2> HIDE DEF k
  <2>2. Joined(e, u.entry, f)
    <3> HIDE DEF e
    <3>1. QED BY <1>1, <2>1, UpdateJoins
  <2>3. Moves(app_pit, Put(app_pit, k, u.entry), {}, {<<k, f>>}) /\ Unused(Put(app_pit, k, u.entry))
    BY <2>2, PutMoves
  <2>4. app_pit' = Put(app_pit, k, u.entry) BY <1>5 DEF AppPitReg, k
  <2> HIDE DEF u, e
  <2>5. Moves(app_pit, app_pit', {}, {<<k, f>>}) BY <2>3, <2>4
  <2>6. Promise!RNext BY <1>1, <1>2, <1>3, <1>4, <2>5, Asking
  <2>7. QED BY <1>2, <2>3, <2>4, <2>6 DEF Kept
<1>6. CASE AppPitDereg(f, m)
  <2> DEFINE tbl == ReturnCleaned(app_pit, m)
             lost == Keys \X Faces
  <2>1. GoodTable(tbl) /\ DOMAIN tbl = DOMAIN app_pit BY CleanedTable DEF ReturnCleaned
  <2>2. Moves(app_pit, tbl, {}, {}) /\ Unused(tbl) BY CleanedMoves DEF ReturnCleaned
  <2>3. PICK S : app_pit' = [x \in DOMAIN tbl \ S |-> tbl[x]] BY <1>6 DEF AppPitDereg
  <2> HIDE DEF tbl
  <2>4. \A j \in DOMAIN tbl : j \in Keys /\ DOMAIN tbl[j].dn \subseteq Faces
    BY <2>1, DownFacesAreFaces DEF GoodTable
  <2>5. Moves(tbl, app_pit', lost, {})
    <3>1. \A j \in DOMAIN tbl : \A g \in DOMAIN tbl[j].dn : <<j, g>> \in lost BY <2>4
    <3> HIDE DEF lost
    <3>2. DOMAIN app_pit' \subseteq DOMAIN tbl /\ \A j \in DOMAIN app_pit' : app_pit'[j] = tbl[j] BY <2>3
    <3>3. QED BY <3>1, <3>2 DEF Moves
  <2>6. Unused(app_pit') BY <2>2, <2>3 DEF Unused
  <2>7. lost \in SUBSET (Keys \X Faces) OBVIOUS
  <2> HIDE DEF lost
  <2>8. Moves(app_pit, app_pit', lost, {}) BY <2>2, <2>5, MovesOn
  <2>9. Promise!RNext BY <1>2, <1>3, <1>4, <2>7, <2>8, Withdrawing
  <2>10. QED BY <1>2, <2>6, <2>9 DEF Kept
<1>7. QED BY <1>5, <1>6

LEMMA AppRegKept ==
  ASSUME Unused(pit), Unused(app_pit), NEW f \in Consumers, AppReg(f) \/ AppDereg(f)
  PROVE  Kept
<1>1. tx' = {} /\ UNCHANGED <<pit, app_pit, now, active>> BY DEF AppReg, AppDereg
<1>2. answeredBar' = {} BY <1>1, NoAnswer
<1>3. Moves(pit, pit', {}, {}) /\ Moves(app_pit, app_pit', {}, {}) BY <1>1, SameMoves
<1>4. Promise!RNext BY <1>1, <1>2, <1>3, Forgetting
<1>5. QED BY <1>1, <1>4 DEF Kept

LEMMA PitSweepKept ==
  ASSUME IInv, Unused(pit), Unused(app_pit), PitSweep
  PROVE  Kept
<1> USE IInvTables
<1>1. pit' = Swept(pit) /\ app_pit' = Swept(app_pit) /\ UNCHANGED <<now, active>> BY DEF PitSweep
<1>2. \A s \in tx' : s.what \notin {"obj", "ret"}
  <2>1. PICK S : tx' = To(S, "ir") BY DEF PitSweep
  <2>2. QED BY <2>1 DEF To
<1>3. answeredBar' = {} BY <1>2, NoAnswer
<1>4. /\ Moves(pit, pit', {}, {}) /\ Unused(pit')
      /\ Moves(app_pit, app_pit', {}, {}) /\ Unused(app_pit')
  BY <1>1, SweptMoves
<1>5. Promise!RNext BY <1>1, <1>3, <1>4, Forgetting
<1>6. QED BY <1>4, <1>5 DEF Kept

LEMMA EnvironmentKept ==
  ASSUME IInv, Unused(pit), Unused(app_pit), Tick \/ \E f \in Flaky : FaceDown(f) \/ FaceUp(f)
  PROVE  Kept
<1> USE IInvTables
<1>1. tx' = {} /\ UNCHANGED <<pit, app_pit>> BY DEF Tick, FaceDown, FaceUp
<1>2. answeredBar' = {} BY <1>1, NoAnswer
<1>3. UNCHANGED <<waitingBar, lastingBar>> BY <1>1, BarsAre
<1>4. now' \in {now, now + 1} /\ active' \subseteq Faces BY Inputs DEF Tick, FaceDown, FaceUp
<1>5. Promise!World BY <1>2, <1>3, <1>4 DEF Promise!World
<1>6. Promise!RNext BY <1>5 DEF Promise!RNext
<1>7. QED BY <1>1, <1>6 DEF Kept

-----------------------------------------------------------------------------
(* As long as nothing dangles, no entry in a table is marked as used up.   *)

PInv == dangling = {} => Unused(pit) /\ Unused(app_pit)

LEMMA InitPromise == Init => PInv /\ Promise!RInit
<1> SUFFICES ASSUME Init PROVE PInv /\ Promise!RInit OBVIOUS
<1>1. DOMAIN pit = {} /\ DOMAIN app_pit = {} BY DEF Init, NoEntries
<1>2. Unused(pit) /\ Unused(app_pit) BY <1>1 DEF Unused
<1>3. \A t : DOMAIN TableOf(pit, app_pit, t) = {} BY <1>1 DEF TableOf
<1>4. WaitsIn(pit, app_pit) = {} /\ LastingIn(pit, app_pit) = {} BY <1>3 DEF WaitsIn, LastingIn
<1>5. waitingBar = [r \in {} |-> 0] /\ lastingBar = {}
  <2>1. WaitingIn(pit, app_pit) = [r \in {} |-> 0] BY <1>4 DEF WaitingIn
  <2>2. QED BY <1>4, <2>1, BarsAre
<1>6. answeredBar = {} /\ active = Faces /\ now = 1 BY DEF Init, answeredBar
<1>7. QED BY <1>2, <1>4, <1>5, <1>6 DEF PInv, Promise!RInit

LEMMA NextPromise ==
  ASSUME NoTakeBack, IInv, PInv, [Next]_vars
  PROVE  PInv' /\ (dangling' = {} => [Promise!RNext]_(Promise!rvars))
<1>1. CASE UNCHANGED vars
  <2>1. PInv' BY <1>1 DEF PInv, Unused, vars
  <2>2. answeredBar' = answeredBar BY <1>1 DEF vars, answeredBar
  <2>3. UNCHANGED <<waitingBar, lastingBar>> BY <1>1, BarsAre DEF vars
  <2>4. UNCHANGED Promise!rvars BY <1>1, <2>2, <2>3 DEF Promise!rvars, vars
  <2>5. QED BY <2>1, <2>4
<1>2. CASE Next
  <2>1. CASE dangling' # {} BY <2>1 DEF PInv
  <2>2. CASE dangling' = {}
    <3>1. Unused(pit) /\ Unused(app_pit) BY <1>2 DEF Next, PInv
    <3>2. ASSUME NEW f \in Consumers, NEW m \in Interests, Interest(f, m) PROVE Kept
      BY <3>1, <3>2, InterestKept
    <3>3. ASSUME NEW f \in Consumers, NEW m \in Registrations, AppPitReg(f, m) \/ AppPitDereg(f, m)
          PROVE Kept
      BY <3>1, <3>3, AppPitKept
    <3>4. ASSUME NEW f \in Consumers, AppReg(f) \/ AppDereg(f) PROVE Kept
      BY <3>1, <3>4, AppRegKept
    <3>5. ASSUME NEW f \in Producers, NEW o \in Objects, Object(f, o) PROVE Kept
      BY <3>1, <3>5, ObjectKept
    <3>6. ASSUME NEW f \in Producers, NEW m \in Returns, InterestReturn(f, m) PROVE Kept
      BY <2>2, <3>1, <3>6, InterestReturnKept
    <3>7. ASSUME PitSweep PROVE Kept BY <3>1, <3>7, PitSweepKept
    <3>8. ASSUME Tick \/ \E f \in Flaky : FaceDown(f) \/ FaceUp(f) PROVE Kept BY <3>1, <3>8, EnvironmentKept
    <3>9. Kept BY <1>2, <3>2, <3>3, <3>4, <3>5, <3>6, <3>7, <3>8 DEF Next
    <3>10. Unused(pit)' /\ Unused(app_pit)' BY <3>9 DEF Kept, Unused
    <3>11. QED BY <3>9, <3>10 DEF PInv, Kept
  <2>3. QED BY <2>1, <2>2
<1>3. QED BY <1>1, <1>2

\* The tables implement the promise of Requests.  Two things that the code
\* does are outside: an Interest that takes a request back (NoTakeBack), and
\* the Interest Return that frees an entry of app_pit through the handle of
\* pit, after which dangling is not empty.
THEOREM PromiseKept ==
  ASSUME NoTakeBack
  PROVE  Spec /\ [](dangling = {}) => KeepsPromise
<1>1. Init => IInv /\ PInv /\ Promise!RInit BY InitIInv, InitPromise
<1>2. IInv /\ PInv /\ [Next]_vars => IInv' /\ PInv' BY NextIInv, NextPromise
<1>3. IInv /\ PInv /\ [Next]_vars /\ (dangling = {})' => [Promise!RNext]_(Promise!rvars)
  BY NextPromise
<1>4. QED BY <1>1, <1>2, <1>3, PTL DEF Spec, KeepsPromise, Promise!RSpec

\* Without Interest Return nothing ever dangles, and the promise is kept.
THEOREM PromiseKeptWithoutReturns ==
  ASSUME NoTakeBack, ~IrOn
  PROVE  Spec => KeepsPromise
<1>1. Init => dangling = {} BY DEF Init
<1>2. dangling = {} /\ [Next]_vars => (dangling = {})'
  BY DEF Next, vars, Interest, Object, InterestReturn, AppPitReg, AppPitDereg, AppReg, AppDereg,
         PitSweep, Tick, FaceDown, FaceUp
<1>3. Spec => [](dangling = {}) BY <1>1, <1>2, PTL DEF Spec
<1>4. QED BY <1>3, PromiseKept, PTL

-----------------------------------------------------------------------------
(* Action properties of the streams.                                       *)

\* A search makes no difference to what a later one finds.
LEMMA PitSearchedEntry ==
  ASSUME GoodTable(pit), NEW o \in Objects, NEW k \in DOMAIN pit
  PROVE  /\ PitSearched(o)[k].adv = pit[k].adv
         /\ k \in Subscribed(o) => PitSearched(o)[k].dn = PitCleanup(pit[k], now, active).dn
<1> DEFINE K == SymbolicKey(pit, o.keyid, o.chunk)
           e == CleanedIn(pit, K)[k]
<1>1. Good(pit[k]) BY DEF GoodTable
<1>2. e = IF k \in K THEN PitCleanup(pit[k], now, active) ELSE pit[k] BY DEF CleanedIn
<1>3. /\ e.adv = pit[k].adv
      /\ [e EXCEPT !.last = o.chunk].adv = pit[k].adv
      /\ [e EXCEPT !.last = o.chunk].dn = e.dn
  <2>1. CASE e = pit[k] BY <1>1, <2>1 DEF Good, IsEntry
  <2>2. CASE e = Trimmed(pit[k], now + CleaningTime,
                         {f \in DOMAIN pit[k].dn : now <= pit[k].dn[f].life /\ f \in active})
    <3> DEFINE S == {f \in DOMAIN pit[k].dn : now <= pit[k].dn[f].life /\ f \in active}
               d == Keep(pit[k].dn, S)
    <3>1. e = [pit[k] EXCEPT !.clean = now + CleaningTime, !.dn = d] BY <2>2 DEF Trimmed
    <3> HIDE DEF d, e
    <3>2. QED BY <1>1, <3>1 DEF Good, IsEntry
  <2>3. \/ e = pit[k]
        \/ e = Trimmed(pit[k], now + CleaningTime,
                       {f \in DOMAIN pit[k].dn : now <= pit[k].dn[f].life /\ f \in active})
    BY <1>2 DEF PitCleanup, Trimmed
  <2> HIDE DEF e
  <2>4. QED BY <2>1, <2>2, <2>3
<1>4. \/ PitSearched(o)[k] = e \/ PitSearched(o)[k] = [e EXCEPT !.last = o.chunk]
  BY DEF PitSearched, CleanedIn
<1>5. k \in Subscribed(o) => k \in K BY DEF Subscribed, SearchSymbolic
<1> HIDE DEF e
<1>6. QED BY <1>2, <1>3, <1>4, <1>5

\* An Object that no registered application and no entry of its own takes
\* reaches every active face of the stream it falls in.
THEOREM StreamServed == Spec => SubscribersServed
<1> DEFINE Served == \A f \in Producers, o \in Objects :
             ObjectPit(f, o) /\ f \in active /\ SearchWithChunk(pit, o) = {} =>
               \A k \in Subscribed(o) :
                 To(DOMAIN PitCleanup(pit[k], now, active).dn \cap active, "obj") \subseteq tx'
<1>1. IInv => Served
  <2>1. SUFFICES ASSUME IInv, NEW f \in Producers, NEW o \in Objects, ObjectPit(f, o),
                        SearchWithChunk(pit, o) = {}, NEW k \in Subscribed(o)
                 PROVE  To(DOMAIN PitCleanup(pit[k], now, active).dn \cap active, "obj") \subseteq tx'
    OBVIOUS
  <2> DEFINE tbl == PitSearched(o)
  <2>2. GoodTable(pit) /\ DOMAIN tbl = DOMAIN pit BY <2>1, IInvTables, PitSearchedTable
  <2>3. \A j \in DOMAIN pit : /\ tbl[j].adv = pit[j].adv
                              /\ j \in Subscribed(o) => tbl[j].dn = PitCleanup(pit[j], now, active).dn
    BY <2>2, PitSearchedEntry
  <2>4. PICK key \in Keys : Subscribed(o) \subseteq {key} /\ Subscribed(o) \subseteq DOMAIN pit /\ o.chunk # NoChunk
    <3>1. /\ Subscribed(o) \subseteq {KeyOr(pit, o.keyid, NoChunk)}
          /\ Subscribed(o) \subseteq DOMAIN pit /\ o.chunk # NoChunk
      BY DEF Subscribed, SearchSymbolic, SymbolicKey
    <3>2. KeyOr(pit, o.keyid, NoChunk) \in Keys BY <2>2, <3>1 DEF GoodTable
    <3>3. QED BY <3>1, <3>2
  <2>5. SearchWithChunk(tbl, o) = {}
    BY <2>1, <2>2, <2>3 DEF SearchWithChunk, KeyOr, Alive
  <2>6. Matched(tbl, o) = Subscribed(o) BY <2>4, <2>5 DEF Matched
  <2>7. \A j \in Matched(tbl, o) : j = k BY <2>4, <2>6
  <2>8. tx' = To(DOMAIN tbl[k].dn \cap active, "obj") BY <2>1, <2>6, <2>7 DEF ObjectPit
  <2>9. QED BY <2>3, <2>4, <2>8
<1>2. Served => [Served]_vars OBVIOUS
<1>3. QED BY InitIInv, NextIInv, <1>1, PTL DEF Spec, SubscribersServed

\* The advertised lifetime is raised only where the message extends it.
LEMMA RaisedIsAdvertised ==
  ASSUME NEW e, Good(e), NEW f \in Faces, NEW m \in Message, m.life # 0, now \in Nat, now > 0,
         DownFaceUpdate(e, f, m, now, FALSE, "NOSUP").entry.adv > e.adv
  PROVE  DownFaceUpdate(e, f, m, now, FALSE, "NOSUP").forward
<1> DEFINE r == Refresh(e, f, m, now, FALSE)
           life == now + Extent(e, m, FALSE)
           dn == PutDownFace(e.dn, f, life)
           ext == life > e.adv
           low == (~ext /\ f \in DOMAIN e.dn /\ life < e.dn[f].life) /\ LongestLife(dn) < e.adv
           adv == IF ext THEN life ELSE IF low THEN LongestLife(dn) ELSE e.adv
           n == DownFaceUpdate(e, f, m, now, FALSE, "NOSUP")
<1>1. Good(r.entry) BY MessageIs, RefreshGood
<1>2. r.entry.adv = adv /\ r.advertise = (ext \/ low) /\ ~r.cancel
  <2>1. r.advertise = (ext \/ low) /\ ~r.cancel BY DEF Refresh
  <2>2. r.entry.adv = adv
    <3> DEFINE drp == IF ext \/ low THEN adv + CleaningTime ELSE e.drp
               long == e.longlife \/ (f \notin DOMAIN e.dn /\ m.kind # "Rgl")
    <3>1. r.entry = [e EXCEPT !.dn = dn, !.adv = adv, !.longlife = long, !.drp = drp] BY DEF Refresh
    <3> HIDE DEF adv, drp, long, dn, r
    <3>2. QED BY <3>1 DEF Good, IsEntry
  <2>3. QED BY <2>1, <2>2
<1> HIDE DEF r, ext, low
<1>3. n.entry = [r.entry EXCEPT !.hop = e.hop] BY <1>2 DEF DownFaceUpdate, r
<1>4. n.entry.adv = adv
  <2> HIDE DEF adv, n
  <2>1. QED BY <1>1, <1>2, <1>3 DEF Good, IsEntry
<1>5. r.advertise
  <2>1. adv > e.adv /\ e.adv \in Nat BY <1>4 DEF Good, IsEntry
  <2>2. adv # e.adv
    <3> HIDE DEF adv
    <3>1. QED BY <2>1
  <2>3. QED BY <1>2, <2>2
<1>6. QED BY <1>5, <1>2 DEF DownFaceUpdate, Resends, r

LEMMA ReturnSetAdv ==
  ASSUME NEW e, Good(e), NEW f, NEW code
  PROVE  InterestReturnSet(e, f, code).adv = e.adv
BY DEF InterestReturnSet, Good, IsEntry

\* Without suppression, an Interest that raises what the entry advertises goes
\* upstream as long as there is a way.
THEOREM ExtensionsGoUp == ASSUME Resend = "NOSUP" PROVE Spec => ExtensionAdvertised
<1> DEFINE Told == \A f \in Consumers, m \in Interests :
             LET k == <<m.restr, m.chunk>> IN
             /\ k \in DOMAIN pit' /\ k \in DOMAIN pit /\ pit'[k].adv > pit[k].adv
             /\ InterestPit(f, m) /\ f \in active /\ Reachable(f, m) /\ m.life # 0
             => SentInterest
<1>1. IInv => Told
  <2> DEFINE key(m) == <<m.restr, m.chunk>>
  <2>1. SUFFICES ASSUME IInv, NEW f \in Consumers, NEW m \in Interests,
                        key(m) \in DOMAIN pit', key(m) \in DOMAIN pit,
                        pit'[key(m)].adv > pit[key(m)].adv,
                        InterestPit(f, m), f \in active, Reachable(f, m), m.life # 0
                 PROVE  SentInterest
    OBVIOUS
  <2> DEFINE k == key(m)
             e == pit[k]
             u == DownFaceUpdate(e, f, m, now, FALSE, Resend)
             held == IF m.hop = 1 /\ ~IsLocal(f) /\ IrOn
                       THEN InterestReturnSet(u.entry, f, "hoplimit") ELSE u.entry
             r == Routed(f, m, u.forward)
             new == Updated(e, f, m)
  <2>2. /\ f \in Faces /\ m \in Message /\ Good(e) /\ e.adv \in Nat /\ now \in Nat /\ now > 0
        /\ active \subseteq Faces
    BY <2>1, Inputs, IInvTables DEF GoodTable, Good, IsEntry
  <2>3. ~LookupFails(pit, k, PitMax) /\ Looked(pit, k, m) = e BY <2>1 DEF LookupFails, Looked
  <2>4. pit' = Put(pit, k, new.entry) /\ tx' = new.tx BY <2>1, <2>3 DEF InterestPit
  <2> HIDE DEF new
  <2>5. new.entry.adv > e.adv BY <2>1, <2>4 DEF Put
  <2> HIDE DEF e, k, key
  <2>6. new.entry = UpFaceUpdate(held, r.next) /\ new.tx = To(r.next, "int") \cup To(r.ir, "ir")
    BY DEF Updated, new
  <2> HIDE DEF r
  <2>7. Good(u.entry) BY <2>2, MessageIs, DownFaceUpdateGood
  <2> HIDE DEF u
  <2>8. held.adv = u.entry.adv /\ Good(held)
    <3>1. "hoplimit" \in IrCodes BY DEF IrCodes
    <3>2. QED BY <2>2, <2>7, <3>1, ReturnSetAdv, InterestReturnSetGood
  <2> HIDE DEF held
  <2>9. new.entry.adv = held.adv BY <2>6, <2>8 DEF UpFaceUpdate, Good, IsEntry
  <2>10. u.entry.adv > e.adv BY <2>5, <2>8, <2>9
  <2>11. u.forward BY <2>1, <2>2, <2>10, RaisedIsAdvertised DEF u
  <2>12. r.next # {}
    <3>1. CASE app_reg # NoFace /\ app_reg # f
      BY <2>1, <3>1 DEF Reachable, Routed, r
    <3>2. CASE ~(app_reg # NoFace /\ app_reg # f)
      <4>1. NextHop(f) # {} /\ HopsLeft(f, m) >= 1 BY <2>1, <3>2 DEF Reachable
      <4>2. FibFaces # << >>
        <5>1. SUFFICES ASSUME FibFaces = << >> PROVE NextHop(f) = {} BY <4>1
        <5>2. DOMAIN FibFaces = {} BY <5>1
        <5>3. QED BY <5>2 DEF NextHop
      <4>3. HopsLeft(f, m) \in Int BY <2>2 DEF HopsLeft, Message
      <4>4. QED BY <2>11, <3>2, <4>1, <4>2, <4>3 DEF Routed, r
    <3>3. QED BY <3>1, <3>2
  <2>13. PICK g \in r.next : TRUE BY <2>12
  <2>14. [to |-> g, what |-> "int"] \in tx' BY <2>4, <2>6 DEF To
  <2>15. QED BY <2>14 DEF SentInterest
<1>2. QED BY InitIInv, NextIInv, <1>1, PTL DEF Spec, ExtensionAdvertised
=============================================================================
