------------------------------ MODULE DoxyXml -------------------------------
(***************************************************************************)
(* docs/doxygen/doxyxml: the directory of XML files that doxygen writes,   *)
(* as a tree of objects (doxyindex.py) that read their file when they are  *)
(* first asked for something (base.py).                                    *)
(*                                                                         *)
(* An object is a record: what kind of class it has, its name, the refid   *)
(* of its file (members have none), and the object it is a member of. The  *)
(* refid names the object, as _refs of the index keeps one for each.       *)
(* DoxygenBuild shows how one file is read; here a file is good,           *)
(* malformed (no XML) or missing.                                          *)
(***************************************************************************)
EXTENDS Lists, SequencesExt

CONSTANTS
  Index,     \* the compounds index.xml may list: sequences of objects
  Files,     \* what the files may hold: functions from refids to
             \* [state, memberdefs]
  IsHeader(_)\* whether a file's name ends in .h

VARIABLES
  index,     \* index.xml: the compounds still to be converted
  files,     \* the files of the directory
  parsed,    \* _parsed: the refids of the objects that parsed
  error,     \* _error: those whose file is malformed
  members,   \* _members of the objects with a file
  top        \* _members of the DoxyIndex

xmlVars == <<index, files, parsed, error, members, top>>

\* mem_classes: the kinds some class can parse. DoxyOther stands for more.
Compounds == {"class", "file", "namespace", "group"}
Others    == {"struct", "typedef"}
Kinds     == Compounds \cup Others \cup {"function", "friend"}

NoObject == [kind |-> "None", name |-> "", refid |-> "", owner |-> ""]

\* The compounds an index lists, and the members the files define.
Listed == UNION {Range(i) : i \in Index}
Defined == UNION {UNION {Range(f[r].memberdefs) : r \in DOMAIN f} : f \in Files}

\* What doxygen writes: lists, of which the index names files (that may be
\* missing); the kinds of compounds and of members are not the same.
ASSUME DirectoryAssumption ==
  /\ \A i \in Index : i \in Seq(Listed)
  /\ \A f \in Files : \A r \in DOMAIN f :
       /\ f[r].state \in {"good", "malformed", "missing"}
       /\ f[r].memberdefs \in Seq(Defined)
  /\ \A mem \in Listed : /\ mem.kind \notin {"function", "friend"}
                         /\ \A f \in Files : mem.refid \in DOMAIN f
  /\ \A m \in Defined : m.kind \notin Compounds

XmlInit ==
  /\ index \in Index
  /\ files \in Files
  /\ parsed = {} /\ error = {}
  /\ members = [r \in DOMAIN files |-> <<>>]
  /\ top = <<>>

-----------------------------------------------------------------------------
\* The compounds whose members the index takes over.
ReadByIndex(mem) ==
  mem.kind = "namespace" \/ (mem.kind = "file" /\ IsHeader(mem.name))

\* convert_mem(): None for a kind no class can parse; the exception of
\* get_cls() is printed and goes no further.
convert_mem(mem) == IF mem.kind \in Kinds THEN mem ELSE NoObject

\* process_memberdefs(): a memberdef becomes a member unless an earlier one
\* has its name. (The pair that is compared also has the class of the
\* memberdef, which is always the same.)
process_memberdefs(r) ==
  LET defs == files[r].memberdefs
      fresh == {k \in DOMAIN defs :
                  \A j \in 1..(k - 1) : defs[j].name # defs[k].name}
      firsts == Select([k \in DOMAIN defs |-> k], fresh)
  IN  [k \in DOMAIN firsts |-> convert_mem(defs[firsts[k]])]

\* Asked for the first time, an object with a file reads it. DoxyFile and
\* DoxyNamespace use what retrieve_data() left before they look at _error.
Raises(obj) ==
  /\ obj.refid \notin parsed
  /\ \/ files[obj.refid].state = "missing"
     \/ /\ files[obj.refid].state = "malformed"
        /\ obj.kind \in {"file", "namespace"}

\* _parse() of an object with a file, through check_parsed(): _parsed is set
\* before anything is read, whatever comes of it.
Parse(obj) ==
  LET r == obj.refid
      file == files[r]
  IN  IF r \in parsed THEN UNCHANGED <<parsed, error, members>>
      ELSE /\ parsed' = parsed \cup {r}
           /\ error' = IF file.state = "malformed" THEN error \cup {r}
                       ELSE error
           /\ members' = IF file.state = "good"
                         THEN [members EXCEPT ![r] = process_memberdefs(r)]
                         ELSE members

\* in_category() of a list of members, for the class of a kind.
InCategory(list, kind) == Select(list, {m \in Range(list) : m.kind = kind})
InOther(list) == Select(list, {m \in Range(list) : m.kind \in Others})

\* _get_dict_members() and get_member(): the members of a category under a
\* name. None is NoSuchMember, and more than one Duplicate.
Named(list, name) == Select(list, {m \in Range(list) : m.name = name})
Duplicate(list, name) == Len(Named(list, name)) > 1
has_member(list, name) == Len(Named(list, name)) = 1

-----------------------------------------------------------------------------
\* One compound of the loop of DoxyIndex._parse(), when nothing raises: a
\* header and a namespace are read, and give the index their members.
Contents(mem) ==
  IF mem.kind = "file" /\ ~IsHeader(mem.name) THEN <<>>
  ELSE IF mem.kind \in {"file", "namespace"}
       THEN Append(members'[mem.refid], mem)
       ELSE <<mem>>

\* What stops the loop: get_cls() is called again and not guarded, and the
\* members of a file that cannot be read.
IndexRaises(mem) ==
  mem.kind \notin Kinds \/ (ReadByIndex(mem) /\ Raises(mem))

IndexCompound ==
  /\ index # <<>>
  /\ LET mem == Head(index)
     IN  /\ ~IndexRaises(mem)
         /\ IF ReadByIndex(mem) THEN Parse(mem)
            ELSE UNCHANGED <<parsed, error, members>>
         /\ top' = top \o Contents(mem)
  /\ index' = Tail(index)
  /\ UNCHANGED files

=============================================================================
