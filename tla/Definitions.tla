----------------------------- MODULE Definitions -----------------------------
(***************************************************************************)
(* conpubcont.def, the list of what conpubd is to publish                  *)
(* (conpub_contdef_read in src/src/conpubd/conpubd/conpubd.c), and what a  *)
(* reload makes of it (conpubd_content_load_thread).                       *)
(*                                                                         *)
(* A line is a record of what its words say: the name (uri tells whether   *)
(* its form is right), version, path of the file with the size of the      *)
(* file in chunks, and up to three options.  A version is the sequence of  *)
(* its characters, <<>> for None.                                          *)
(***************************************************************************)
LOCAL INSTANCE Integers
LOCAL INSTANCE SequencesExt
LOCAL INSTANCE FiniteSetsExt

CONSTANTS
  LastDay,   \* the expiry of a line without a date: the end of 2037
  MaxPending \* CefC_CnpbMax_Pending_Timer

\* conpub_trim_line_string: three words at least; of the options a date, a time,
\* and one number, the pending time, each within its range.
Options(line) == Range(line.options)
Numbers(line) == {o \in Options(line) : o.is = "number"}
Trimmed(line) ==
  /\ line.words >= 3
  /\ Cardinality(Numbers(line)) <= 1 /\ \A o \in Numbers(line) : o.value \in 0 .. MaxPending
  /\ \A o \in Options(line) : o.is = "date" => o.form # "range"

\* conpub_parse_date
Dates(line) == {o \in Options(line) : o.is = "date"}
DateParsed(line) == \A o \in Dates(line) : o.form = "date"
Expiry(line) == IF Dates(line) = {} THEN LastDay ELSE (CHOOSE o \in Dates(line) : TRUE).value

\* conpub_check_file_path, stat
FileThere(line) == line.path # "missing"
\* cef_frame_conversion_uri_to_name; a name must not end with a slash.
NameRead(line) == line.uri = "name"
\* conpubd_check_version_char: a 0 stands for a character that no version has.
VersionRead(line) == ~Contains(line.ver, 0)

Accepted(line, now) ==
  /\ Trimmed(line) /\ FileThere(line) /\ DateParsed(line) /\ NameRead(line) /\ VersionRead(line)
  /\ Expiry(line) >= now

Entry(line) == [name |-> line.name, ver |-> line.ver, exp |-> Expiry(line),
                size |-> line.size, path |-> line.path]

\* The first line of a name counts.
Defined(entries, n) == \E i \in DOMAIN entries : entries[i].name = n
Read(lines, now) ==
  FoldLeft(LAMBDA es, line : IF Accepted(line, now) /\ ~Defined(es, line.name)
                             THEN Append(es, Entry(line)) ELSE es, <<>>, lines)

\* conpubd_version_compare: as memcmp over the longer one
Inconsistent(v, w) == (v = <<>>) # (w = <<>>)
At(v, i) == IF i \in DOMAIN v THEN v[i] ELSE 0
Newer(v, w) == \E i \in DOMAIN v : At(v, i) > At(w, i) /\ \A j \in 1 .. i - 1 : At(v, j) = At(w, j)

\* The content stays as it is: nothing changed, or what is defined is older, or
\* has a version where the content has none or the other way round.
Keeps(old, new) ==
  \/ Inconsistent(old.ver, new.ver)
  \/ old.ver = new.ver /\ old.exp = new.exp
  \/ Newer(old.ver, new.ver)

Kept(old, entries) == \E i \in DOMAIN entries : entries[i].name = old.name /\ Keeps(old, entries[i])
Fresh(new, olds) == \A o \in olds : o.name = new.name => ~Keeps(o, new)
=============================================================================
