----------------------------- MODULE ContentStat -----------------------------
(***************************************************************************)
(* The content records of src/src/lib/cef_csmgr_stat.c: for each content   *)
(* that is cached, which of its chunks are (the bit map), how many, its    *)
(* version and its lifetime; and the totals over all.  Every function      *)
(* holds stat_mutex while it works, so each is one operator.               *)
(***************************************************************************)
EXTENDS Integers, FiniteSetsExt

CONSTANT Contents

NoVersion == 0
NoRecord == [is |-> FALSE, map |-> {}, num |-> 0, version |-> NoVersion, expiry |-> 0]
Fresh == [NoRecord EXCEPT !.is = TRUE]

\* csmgr_stat_handle_create, csmgr_stat_cache_capacity_update
NewStat == [rcd |-> [c \in Contents |-> NoRecord], con |-> 0, cob |-> 0]

\* csmgr_stat_content_search, csmgr_stat_content_lookup
Looked(st, c) == IF st.rcd[c].is THEN st.rcd[c] ELSE Fresh

\* csmgr_stat_cob_update
Updated(st, c, chunk, expiry) ==
  LET r == Looked(st, c)
      new == IF chunk \in r.map THEN 0 ELSE 1 IN
  [st EXCEPT !.con = @ + (IF st.rcd[c].is THEN 0 ELSE 1), !.cob = @ + new,
             !.rcd[c] = [r EXCEPT !.map = @ \cup {chunk}, !.num = @ + new,
                                  !.expiry = IF @ < expiry THEN expiry ELSE @]]

\* csmgr_stat_content_info_version_init, for a record that has no version yet
Versioned(st, c, v) ==
  IF v # NoVersion /\ st.rcd[c].version = NoVersion
  THEN [st EXCEPT !.rcd[c].version = v] ELSE st

\* csmgr_stat_content_info_delete: the total of Objects keeps what the record counted.
Deleted(st, c) ==
  IF st.rcd[c].is THEN [st EXCEPT !.rcd[c] = NoRecord, !.con = @ - 1] ELSE st

\* csmgr_stat_cob_remove
Removed(st, c, chunk) ==
  LET r == st.rcd[c]
      old == IF chunk \in r.map THEN 1 ELSE 0
      s == [st EXCEPT !.cob = @ - old, !.rcd[c] = [r EXCEPT !.map = @ \ {chunk}, !.num = @ - old]] IN
  IF ~r.is THEN st ELSE IF s.rcd[c].num = 0 THEN Deleted(s, c) ELSE s

\* csmgr_stat_content_lifetime_update
Extended(st, c, expiry) == IF st.rcd[c].is THEN [st EXCEPT !.rcd[c].expiry = expiry] ELSE st

\* csmgr_stat_content_info_get: nothing when it is empty or overdue; else the
\* record, with its first and last chunk.
Current(st, c, now) == st.rcd[c].is /\ st.rcd[c].num # 0 /\ now <= st.rcd[c].expiry
FirstChunk(st, c) == IF st.rcd[c].map = {} THEN 0 ELSE Min(st.rcd[c].map)
LastChunk(st, c) == IF st.rcd[c].map = {} THEN 0 ELSE Max(st.rcd[c].map)

\* csmgr_stat_content_info_gets_for_RM: the records' counts together, as the set of the
\* units that they count
Units(st) == UNION {{c} \X (1 .. st.rcd[c].num) : c \in Contents}

\* cef_csmgr_cache_version_compare
Inconsistent(v, w) == (v = NoVersion) # (w = NoVersion)
\* Mutant: any other version counts as newer.
Other(v, w) == ~Inconsistent(v, w) /\ v # w
Newer(v, w) == ~Inconsistent(v, w) /\ v > w
=============================================================================
