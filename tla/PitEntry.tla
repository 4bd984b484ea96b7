------------------------------ MODULE PitEntry ------------------------------
(***************************************************************************)
(* One entry of the Pending Interest Table of cefnetd, as                  *)
(* src/src/lib/cef_pit.c keeps it: the down faces that wait for a Content  *)
(* Object, in list order, each until its own lifetime; the lifetime        *)
(* advertised upstream; the time the entry may be dropped.                 *)
(*                                                                         *)
(* Times are counted in units of CefC_Pit_CleaningTime's grain; an entry   *)
(* is a value and every function of cef_pit.c that changes one is an       *)
(* operator that returns the changed entry.  pm->nonce is never set by the *)
(* parser, so it is 0 in every comparison and is left out: the list holds  *)
(* at most one element per Face-ID.                                        *)
(***************************************************************************)
EXTENDS Naturals, FiniteSets

CONSTANTS
  Faces,          \* Face-IDs
  CleaningTime,   \* CefC_Pit_CleaningTime
  RegularMax,     \* regular_max_lifetime
  SymbolicMax,    \* symbolic_max_lifetime
  DefaultLife,    \* CefC_Default_LifetimeUs
  AppRegLife,     \* lifetime of a registration that names none (60 min)
  NoLife          \* "the message has no lifetime option" (lifetime_f = 0)

ASSUME TimesAssumption ==
  /\ CleaningTime \in Nat /\ CleaningTime > 0
  /\ RegularMax \in Nat /\ SymbolicMax \in Nat
  /\ DefaultLife \in Nat /\ AppRegLife \in Nat
  /\ NoLife \notin Nat

ASSUME FacesAssumption == IsFiniteSet(Faces)

IrCodes == {"none", "no_route", "hoplimit", "congestion"}
PitTypes == {"Rgl", "Sym"}

\* An element of dnfaces: its lifetime, its place in the list, and the
\* Interest Return held for it (IR_Type, IR_msg).
DownFace == [life : Nat, pos : Nat, ir : IrCodes]

IsDownList(dn) == DOMAIN dn \subseteq Faces /\ dn \in [DOMAIN dn -> DownFace]

\* The entry; dnfacenum is the size of the domain of dn.
IsEntry(e) ==
  /\ e \in [ type : PitTypes, longlife : BOOLEAN, stole : BOOLEAN,
             adv : Nat, drp : Nat, clean : Nat, hop : Nat, last : Nat,
             dn : {e.dn}, up : SUBSET Faces ]
  /\ IsDownList(e.dn)

\* The lifetime advertised covers every down face, and the drop time trails it.
Covered(e) ==
  /\ \A f \in DOMAIN e.dn : e.dn[f].life <= e.adv
  /\ e.drp = IF e.adv = 0 THEN 0 ELSE e.adv + CleaningTime

NoDown == [f \in {} |-> [life |-> 0, pos |-> 0, ir |-> "none"]]

\* The entry cef_pit_entry_lookup_with_lock creates.
NewEntry(type, now) ==
  [ type |-> type, longlife |-> FALSE, stole |-> FALSE,
    adv |-> 0, drp |-> 0, clean |-> now + CleaningTime, hop |-> 0, last |-> 0,
    dn |-> NoDown, up |-> {} ]

-----------------------------------------------------------------------------
(* The list of down faces.                                                 *)

\* dn with only the faces of S, in the order they had.
Keep(dn, S) ==
  [f \in S |-> [dn[f] EXCEPT !.pos = Cardinality({g \in S : dn[g].pos <= dn[f].pos})]]

\* cef_pit_entry_down_face_lookup and the assignment of face->lifetime_us:
\* a face that is not in the list is appended.
PutDownFace(dn, f, life) ==
  [g \in DOMAIN dn \cup {f} |->
     IF g # f THEN dn[g]
     ELSE IF f \in DOMAIN dn THEN [dn[f] EXCEPT !.life = life]
     ELSE [life |-> life, pos |-> Cardinality(DOMAIN dn) + 1, ir |-> "none"]]

\* The last element of a list that is not empty.
LastOf(dn) == CHOOSE f \in DOMAIN dn : \A g \in DOMAIN dn : dn[g].pos <= dn[f].pos

\* The longest lifetime of the list (the loop starts at the head, whose
\* lifetime is 0).
LongestLife(dn) ==
  CHOOSE t \in {0} \cup {dn[f].life : f \in DOMAIN dn} :
    \A f \in DOMAIN dn : dn[f].life <= t

\* cef_pit_down_faceid_remove
DownFaceidRemove(e, f) == [e EXCEPT !.dn = Keep(e.dn, DOMAIN e.dn \ {f})]

\* cef_pit_entry_up_face_update, for the one face or none that was sent to
UpFaceUpdate(e, S) == [e EXCEPT !.up = @ \cup S]

-----------------------------------------------------------------------------
(* An Interest from face f.  m.kind is "Rgl", "Long" (a Regular Interest   *)
(* with T_LONGLIFE) or "Sym"; m.life is the lifetime option; reg says that *)
(* the message is a PIT registration of a local application.               *)

\* Mutant: a Long Interest makes an entry of a type of its own.
PitTypeOfKind(m) == m.kind

PitTypeOf(m) == IF m.kind = "Sym" THEN "Sym" ELSE "Rgl"

AtMost(t, limit) == IF t > limit THEN limit ELSE t

\* extent_us
Extent(e, m, reg) ==
  IF m.life = NoLife THEN IF reg THEN AppRegLife ELSE DefaultLife
  ELSE IF reg THEN m.life
  ELSE AtMost(m.life, IF e.type = "Rgl" THEN RegularMax ELSE SymbolicMax)

\* Mutant: a shorter lifetime lowers the advertised one to itself, without the
\* search for the longest lifetime left.
RefreshWithoutSearch(e, f, m, now, reg) ==
  LET life      == now + Extent(e, m, reg)
      extended  == life > e.adv
      shortened == ~extended /\ f \in DOMAIN e.dn /\ life < e.dn[f].life
  IN  [ entry |-> [e EXCEPT !.dn = PutDownFace(e.dn, f, life),
                            !.adv = IF extended \/ shortened THEN life ELSE @,
                            !.longlife = @ \/ (f \notin DOMAIN e.dn /\ m.kind # "Rgl"),
                            !.drp = IF extended \/ shortened THEN life + CleaningTime ELSE @],
        advertise |-> extended \/ shortened,
        cancel    |-> shortened /\ m.life = 0 ]

\* The lifetimes after the message: of the face, and of the entry.  A
\* lifetime that ends later than the advertised one extends it; one that ends
\* earlier than the face's previous one may lower it to the longest left.
Refresh(e, f, m, now, reg) ==
  LET life      == now + Extent(e, m, reg)
      dn        == PutDownFace(e.dn, f, life)
      extended  == life > e.adv
      shortened == ~extended /\ f \in DOMAIN e.dn /\ life < e.dn[f].life
      lowered   == shortened /\ LongestLife(dn) < e.adv
      adv       == IF extended THEN life
                   ELSE IF lowered THEN LongestLife(dn) ELSE e.adv
  IN  [ entry |-> [e EXCEPT !.dn = dn, !.adv = adv,
                            !.longlife = @ \/ (f \notin DOMAIN e.dn /\ m.kind # "Rgl"),
                            !.drp = IF extended \/ lowered THEN adv + CleaningTime ELSE @],
        advertise |-> extended \/ lowered,
        cancel    |-> shortened /\ m.life = 0 ]

\* What a lifetime of 0 takes out: after the search for the longest lifetime
\* the cursor `face` stands on the last element of the list.
Cancelled(e) == LastOf(e.dn)

\* Mutant: without suppression, only a new down face is forwarded.
ResendsNewOnly(e, f, m, resend, advertise) ==
  IF resend = "NOSUP" THEN f \notin DOMAIN e.dn
  ELSE e.adv = 0 \/ f \in DOMAIN e.dn \/ m.hop > e.hop

\* Whether the Interest goes upstream, before the rule on lifetime 0.
Resends(e, f, m, resend, advertise) ==
  LET new == f \notin DOMAIN e.dn
  IN  IF resend = "NOSUP" THEN advertise \/ new
      ELSE e.adv = 0 \/ ~new \/ m.hop > e.hop

\* cef_pit_entry_down_face_update: the entry, and forward_interest_f.
DownFaceUpdate(e, f, m, now, reg, resend) ==
  LET r      == Refresh(e, f, m, now, reg)
      fwd    == Resends(e, f, m, resend, r.advertise)
      kept   == IF r.cancel THEN DownFaceidRemove(r.entry, Cancelled(r.entry))
                ELSE r.entry
      hop    == IF resend # "NOSUP" /\ fwd /\ m.hop > e.hop THEN m.hop ELSE e.hop
      others == Cardinality(DOMAIN kept.dn) > 1
  IN  [ entry   |-> [kept EXCEPT !.hop = hop],
        forward |-> fwd /\ ~(m.life = 0 /\ others) ]

-----------------------------------------------------------------------------
(* Cleaning.                                                               *)

\* cef_pit_cleanup, which the searches call: the down faces that expired, or
\* whose face has no socket, leave an entry whose time to clean has come.
PitCleanup(e, now, open) ==
  IF now < e.clean THEN e
  ELSE [e EXCEPT !.clean = now + CleaningTime,
                 !.dn = Keep(e.dn, {f \in DOMAIN e.dn : now <= e.dn[f].life /\ f \in open})]

\* Mutant: an entry is over when its advertised lifetime is reached.
PitEntryCleanEarly(e, now) ==
  IF now >= e.adv THEN [e EXCEPT !.dn = NoDown]
  ELSE IF now < e.clean THEN e
  ELSE [e EXCEPT !.clean = now + CleaningTime,
                 !.dn = Keep(e.dn, {f \in DOMAIN e.dn : now <= e.dn[f].life})]

\* cefnetd_pit_entry_clean: every down face leaves an entry that expired,
\* whatever its time to clean; otherwise the ones that expired leave.
PitEntryClean(e, now) ==
  IF now > e.adv THEN [e EXCEPT !.dn = NoDown]
  ELSE IF now < e.clean THEN e
  ELSE [e EXCEPT !.clean = now + CleaningTime,
                 !.dn = Keep(e.dn, {f \in DOMAIN e.dn : now <= e.dn[f].life})]

\* The faces to which cefnetd_pit_entry_clean sends the Interest Return held:
\* all of them when the entry expired; otherwise, for each element taken out,
\* `dnface` is already the element kept before it.
IrReturned(e, now, active) ==
  LET holds == {f \in DOMAIN e.dn \cap active : e.dn[f].ir # "none"}
      kept  == {f \in DOMAIN e.dn : now <= e.dn[f].life}
  IN  IF now > e.adv THEN holds
      ELSE IF now < e.clean THEN {}
      ELSE {f \in holds \cap kept :
              \E g \in DOMAIN e.dn \ kept :
                /\ e.dn[f].pos < e.dn[g].pos
                /\ \A h \in kept : ~(e.dn[f].pos < e.dn[h].pos /\ e.dn[h].pos < e.dn[g].pos)}

\* cef_pit_interest_return_set: on the face, or on the last element when the
\* face is not in the list; a code already held gives way by priority.
InterestReturnSet(e, f, code) ==
  IF DOMAIN e.dn = {} THEN e      \* written to the head of the list
  ELSE LET g    == IF f \in DOMAIN e.dn THEN f ELSE LastOf(e.dn)
           held == e.dn[g].ir
       IN  IF held = "hoplimit" /\ held # code THEN e
           ELSE [e EXCEPT !.dn[g].ir = code]
=============================================================================
