------------------------------- MODULE DoxyBase -------------------------------
(***************************************************************************)
(* The objects of doxyxml (base.py, doxyindex.py): one for every compound  *)
(* of index.xml, whose own XML file is read when it is first asked for     *)
(* something.  Operators on the store of objects; SwigDoc uses them.       *)
(*                                                                         *)
(* A world w is what doxygen left in the directory: w.index, the compounds *)
(* of index.xml ([kind, refid, name]), w.xml, for every refid its file     *)
(* ("good", "broken" or "missing") with its members, inner groups and      *)
(* inner classes, and w.described, the compounds and functions that have a *)
(* brief or a detailed description.                                        *)
(***************************************************************************)
EXTENDS Naturals, Sequences, SequencesExt

CONSTANT Headers   \* the names of files that end in ".h"

\* Kinds a class of mem_classes can parse; the members of DoxyOther share one class.
Others     == {"variable", "struct", "union", "define", "typedef", "enum", "dir", "page"}
HasClass(kind) == kind \in {"function", "class", "file", "namespace", "group", "friend"} \cup Others

\* What doxygen writes: compounds with refids of their own (a kind and more; "index" stands
\* for the index itself), each with a file, none of them a function, classes with names of
\* their own, and members of a class, file or group that are no compounds.
CompoundKind == STRING \ {"function"}
MemberKind   == STRING \ {"class", "file", "group", "namespace"}
IsWorld(w) ==
  LET Refid == DOMAIN w.xml
  IN  /\ Refid \subseteq STRING \ {"index", "class", "function"}
      /\ w.index \in Seq([kind : CompoundKind, refid : Refid, name : STRING])
      /\ \A i, j \in DOMAIN w.index :
           \/ w.index[i].refid = w.index[j].refid
           \/ /\ w.index[i].kind = "class" /\ w.index[j].kind = "class"
              /\ w.index[i].name = w.index[j].name
           => i = j
      /\ \A refid \in Refid :
           /\ w.xml[refid].file \in {"good", "broken", "missing"}
           /\ w.xml[refid].members \in Seq([kind : MemberKind, refid : {""}, name : STRING])
           /\ w.xml[refid].groups \in Seq(Refid) /\ w.xml[refid].classes \in Seq(Refid)
      /\ w.described \subseteq {"compound", "function"} \X STRING

\* convert_mem of a kind without a class prints the error and returns None.
None == [kind |-> "None", refid |-> "", name |-> ""]

(***************************************************************************)
(* The store: the instances by refid (top._refs) with the kind of their    *)
(* class, those made without parse data, the parsed and the failed ones,   *)
(* their members, the members of the index, and the exception the last     *)
(* call ended with.                                                        *)
(***************************************************************************)
NewStore == [refs |-> <<>>, nameless |-> {}, parsed |-> {}, failed |-> {}, members |-> <<>>,
             top |-> <<>>, raised |-> "no"]

Get(f, x, default) == IF x \in DOMAIN f THEN f[x] ELSE default
Put(f, X, y) == [x \in DOMAIN f \cup X |-> IF x \in X THEN y ELSE f[x]]

\* An object has one instance, whoever asks first: the index or a group.
FromParseData(s, c) ==
  IF c.refid \in DOMAIN s.refs THEN s ELSE [s EXCEPT !.refs = Put(@, {c.refid}, c.kind)]

\* Mutated forms (used only by the mutants of PROJECT.json): add_ref is missing, or the
\* look-up in top._refs is.
FromRefidUnreferenced(s, kind, refids) == [s EXCEPT !.nameless = @ \cup refids]
FromRefidNew(s, kind, refids) ==
  [s EXCEPT !.refs = Put(@, refids, kind), !.nameless = @ \cup refids]

\* Each of refids that has no instance gets one.
FromRefid(s, kind, refids) ==
  LET new == refids \ DOMAIN s.refs
  IN  [s EXCEPT !.refs = Put(@, new, kind), !.nameless = @ \cup new]

\* name(): from the index, and without it from compounddef.name, which does not exist.
NameRaises(s, refid) == refid \in s.nameless

\* Mutated form: every member is kept.
KeepAll(defs) == [i \in DOMAIN defs |-> IF HasClass(defs[i].kind) THEN defs[i] ELSE None]

\* process_memberdefs: of members with the same name only the first is kept.
Unique(defs) ==
  LET kept[n \in 0..Len(defs)] ==
        IF n = 0 THEN <<>>
        ELSE IF \E m \in 1..(n - 1) : defs[m].name = defs[n].name THEN kept[n - 1]
        ELSE Append(kept[n - 1], IF HasClass(defs[n].kind) THEN defs[n] ELSE None)
  IN  kept[Len(defs)]

\* Inner groups and classes become members of a group, with or without parse data.
Inner(kind, refids) == [i \in DOMAIN refids |-> [kind |-> kind, refid |-> refids[i], name |-> ""]]

\* retrieve_data reads the file: a broken one is an error of the object, a missing
\* one an exception (open).
ReadFile(w, s, refid) ==
  CASE w.xml[refid].file = "good"   -> s
    [] w.xml[refid].file = "broken" -> [s EXCEPT !.failed = @ \cup {refid}]
    [] OTHER                        -> [s EXCEPT !.raised = "IOError"]

AlreadyParsed(s, refid) == refid \in s.parsed

\* _parse of the class of the object, once: _parsed is set before anything is read.
\* A DoxyFile uses the data before it looks whether there is any.
Parse(w, s, refid) ==
  LET kind == s.refs[refid]
      marked == [s EXCEPT !.parsed = @ \cup {refid}, !.raised = "no"]
      read == ReadFile(w, marked, refid)
      x == w.xml[refid]
      own == Unique(x.members)
  IN  IF AlreadyParsed(s, refid) THEN [s EXCEPT !.raised = "no"]
      ELSE IF kind \notin {"class", "file", "group"} THEN marked
      ELSE IF read.raised # "no" THEN read
      ELSE IF refid \in read.failed
           THEN IF kind = "file" THEN [read EXCEPT !.raised = "AttributeError"] ELSE read
      ELSE IF kind = "group"
           THEN [FromRefid(FromRefid(read, "group", ToSet(x.groups)), "class", ToSet(x.classes))
                   EXCEPT !.members = Put(@, {refid}, Inner("group", x.groups)
                                                   \o Inner("class", x.classes) \o own)]
      ELSE [read EXCEPT !.members = Put(@, {refid}, own)]

MembersOf(s, refid) == Get(s.members, refid, <<>>)

\* members(), data(), in_category(), get_member(): confirm_no_error parses and raises.
Confirm(w, s, refid) ==
  LET t == Parse(w, s, refid) IN
  IF t.raised = "no" /\ refid \in t.failed THEN [t EXCEPT !.raised = "ParsingError"] ELSE t

\* DoxyIndex._parse, one compound c: the members of a header become members of the
\* index, files that are no headers are left out.  A kind without a class is reported
\* by convert_mem and then raises in get_cls.
IndexCompound(w, s, c) ==
  LET known == FromParseData(s, c)
      parsed == Confirm(w, known, c.refid)
  IN  IF ~HasClass(c.kind) THEN [s EXCEPT !.raised = "StandardError"]
      ELSE IF c.kind # "file" THEN [known EXCEPT !.top = Append(@, c), !.raised = "no"]
      ELSE IF c.name \notin Headers THEN [known EXCEPT !.raised = "no"]
      ELSE IF parsed.raised # "no" THEN parsed
      ELSE [parsed EXCEPT !.top = @ \o MembersOf(parsed, c.refid) \o <<c>>]

\* in_category: the members of a kind.
OfKind(members, kind) ==
  LET chosen[n \in 0..Len(members)] ==
        IF n = 0 THEN <<>>
        ELSE IF members[n].kind = kind THEN Append(chosen[n - 1], members[n])
        ELSE chosen[n - 1]
  IN  chosen[Len(members)]

\* _get_dict_members: those of a kind with a name, by their places.
Named(members, kind, name) ==
  {i \in DOMAIN members : members[i].kind = kind /\ members[i].name = name}

\* get_member: NoSuchMember without one, Duplicate with several.
GetMember(members, kind, name) ==
  LET named == Named(members, kind, name) IN
  CASE named = {}                   -> "NoSuchMember"
    [] \E i \in named : named = {i} -> "found"
    [] OTHER                        -> "Duplicate"
=============================================================================
