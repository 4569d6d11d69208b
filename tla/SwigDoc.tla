------------------------------- MODULE SwigDoc -------------------------------
(***************************************************************************)
(* docs/doxygen/swig_doc.py: the interface file with the docstrings of     *)
(* blocks, functions and classes, generated from the objects of DoxyBase.  *)
(* Before that a client may use the same objects (calls in any order), as  *)
(* the documentation of the package does.                                  *)
(***************************************************************************)
EXTENDS DoxyBase, FiniteSets

CONSTANTS
  Worlds,     \* what doxygen may have left in the directory
  MakeName,   \* make_name, for the names that are not in a namespace
  HeaderOf,   \* the name of a class with ".h" appended
  Operators,  \* the names with "operator " in them
  MaxCalls    \* calls of the client before the generation (bound)

ASSUME WorldsAssumption == \A v \in Worlds : IsWorld(v)
ASSUME CallsAssumption == MaxCalls \in Nat
\* No two blocks have one make function, as "x" and "x_" would.
ASSUME MakeNameAssumption ==
  \A m, n \in DOMAIN MakeName : MakeName[m] = MakeName[n] => m = n

VARIABLES
  w,      \* the directory
  s,      \* the store of objects
  pc,     \* "client", "index", "blocks", "entries", "functions", "classes", "done", "crashed"
  back,   \* where the index was asked for: "client" or "blocks"
  left,   \* what the current loop still has to visit
  calls,  \* calls the client made
  blocks, \* the blocks found
  made,   \* make_funcs
  out     \* the entries written so far: [of, name, desc]

vars == <<w, s, pc, back, left, calls, blocks, made, out>>

Init ==
  /\ w \in Worlds
  /\ s = NewStore /\ pc = "client" /\ back = "client" /\ left = <<>> /\ calls = 0
  /\ blocks = <<>> /\ made = {} /\ out = <<>>

\* A step ends in an exception: the client sees it, the generation ends with it.
Raise(t) == /\ s' = t
            /\ pc' = IF back = "client" THEN "client" ELSE "crashed"
            /\ left' = <<>>

(***************************************************************************)
(* The index, parsed at the first call                                     *)
(***************************************************************************)
IndexParsed == "index" \in s.parsed
AskIndex(from) ==
  /\ back' = from
  /\ s' = [s EXCEPT !.parsed = @ \cup {"index"}]
  /\ IF IndexParsed
     THEN pc' = from /\ left' = IF from = "blocks" THEN s.top ELSE <<>>
     ELSE pc' = "index" /\ left' = w.index

ParseIndex ==
  /\ pc = "index"
  /\ IF left = <<>>
     THEN pc' = back /\ left' = (IF back = "blocks" THEN s.top ELSE <<>>) /\ UNCHANGED s
     ELSE LET t == IndexCompound(w, s, Head(left)) IN
          IF t.raised # "no" THEN Raise(t)
          ELSE s' = t /\ left' = Tail(left) /\ UNCHANGED pc
  /\ UNCHANGED <<w, back, calls, blocks, made, out>>

\* The client: members() of the index, or members() or error() of any object it has.
ClientIndex ==
  /\ pc = "client" /\ calls < MaxCalls
  /\ calls' = calls + 1
  /\ AskIndex("client")
  /\ UNCHANGED <<w, blocks, made, out>>

ClientCall ==
  /\ pc = "client" /\ calls < MaxCalls
  /\ \E refid \in DOMAIN s.refs : s' = Confirm(w, s, refid)
  /\ calls' = calls + 1
  /\ UNCHANGED <<w, pc, back, left, blocks, made, out>>

(***************************************************************************)
(* make_swig_interface_file                                                *)
(***************************************************************************)
Start ==
  /\ pc = "client"
  /\ AskIndex("blocks")
  /\ UNCHANGED <<w, calls, blocks, made, out>>

\* Block.includes: a class without error that has its make function as a friend.
IsBlock(t, c) ==
  /\ c.refid \notin t.failed
  /\ c.name \in DOMAIN MakeName
  /\ GetMember(MembersOf(t, c.refid), "friend", MakeName[c.name]) = "found"

FindBlocks ==
  /\ pc = "blocks"
  /\ IF left = <<>>
     THEN pc' = "entries" /\ left' = blocks /\ UNCHANGED <<s, blocks>>
     ELSE LET c == Head(left)
              t == IF c.kind = "class" THEN Parse(w, s, c.refid) ELSE s
              unnamed == c.refid \notin t.failed /\ NameRaises(t, c.refid)
          IN  IF c.kind = "class" /\ (t.raised # "no" \/ unnamed)
              THEN Raise(t) /\ UNCHANGED blocks
              ELSE /\ s' = t /\ left' = Tail(left) /\ UNCHANGED pc
                   /\ blocks' = IF c.kind = "class" /\ IsBlock(t, c)
                                THEN Append(blocks, c) ELSE blocks
  /\ UNCHANGED <<w, back, calls, made, out>>

\* combine_descriptions gives something: of a compound by its refid, of a function by its name.
HasText(kind, x) == <<kind, x>> \in w.described

\* make_entry writes nothing for an operator; desc tells whose description it is.
Entry(of, name, desc) ==
  IF name \in Operators THEN <<>> ELSE <<[of |-> of, name |-> name, desc |-> desc]>>
Methods(c) ==
  LET fs == OfKind(MembersOf(s, c.refid), "function") IN
  FlattenSeq([i \in DOMAIN fs |-> Entry(c.refid, fs[i].name, "own")])

\* Nothing is written for a class without a text; the entries of functions have their
\* parameters in any case.
ClassEntry(c, desc, text) ==
  (IF text THEN Entry("class", c.name, desc) ELSE <<>>) \o Methods(c)

\* The description of a block: its own, its make function's and its header's.
BlockText(c) ==
  \/ HasText("compound", c.refid) \/ HasText("function", MakeName[c.name])
  \/ \E i \in Named(s.top, "file", HeaderOf[c.name]) : HasText("compound", s.top[i].refid)

\* The make function and the constructor have to be there, the header may; none of
\* them twice.  Only ParsingError is caught.
BlockRaises(c) ==
  \/ GetMember(s.top, "function", MakeName[c.name]) # "found"
  \/ GetMember(s.top, "file", HeaderOf[c.name]) = "Duplicate"
  \/ GetMember(MembersOf(s, c.refid), "function", c.name) # "found"

BlockEntries ==
  /\ pc = "entries"
  /\ IF left = <<>>
     THEN pc' = "functions" /\ left' = OfKind(s.top, "function") /\ UNCHANGED <<s, made, out>>
     ELSE LET c == Head(left) IN
          /\ IF BlockRaises(c)
             THEN Raise(s) /\ UNCHANGED <<made, out>>
             ELSE /\ made' = made \cup {MakeName[c.name]}
                  /\ out' = out \o ClassEntry(c, "block", BlockText(c))
                                \o Entry("function", MakeName[c.name], "block")
                  /\ left' = Tail(left) /\ UNCHANGED <<s, pc>>
  /\ UNCHANGED <<w, back, calls, blocks>>

\* Mutated form: nothing has been dealt with.
DealtWithNever(f) == FALSE

DealtWith(f) == f.name \in made

FunctionEntries ==
  /\ pc = "functions"
  /\ IF left = <<>>
     THEN pc' = "classes" /\ left' = OfKind(s.top, "class") /\ UNCHANGED out
     ELSE /\ out' = IF DealtWith(Head(left)) THEN out
                    ELSE out \o Entry("function", Head(left).name, "own")
          /\ left' = Tail(left) /\ UNCHANGED pc
  /\ UNCHANGED <<w, s, back, calls, blocks, made>>

\* A class that could not be read raises ParsingError, which is reported and skipped;
\* one whose file was missing when a client asked for it has no descriptions (KeyError).
UndescribedOrBroken(c) == c.refid \notin DOMAIN s.members   \* mutated form
Undescribed(c) == c.refid \notin s.failed \cup DOMAIN s.members

\* Mutated form: blocks are not taken out.
InBlocksNever(c) == FALSE

InBlocks(c) == \E b \in ToSet(blocks) : b.name = c.name

ClassEntries ==
  /\ pc = "classes"
  /\ IF left = <<>>
     THEN pc' = "done" /\ UNCHANGED <<s, left, out>>
     ELSE LET c == Head(left) IN
              IF ~InBlocks(c) /\ Undescribed(c)
              THEN Raise(s) /\ UNCHANGED out
              ELSE /\ out' = IF InBlocks(c) \/ c.refid \in s.failed THEN out
                             ELSE out \o ClassEntry(c, "own", HasText("compound", c.refid))
                   /\ left' = Tail(left) /\ UNCHANGED <<s, pc>>
  /\ UNCHANGED <<w, back, calls, blocks, made>>

Next ==
  \/ ClientIndex \/ ClientCall \/ Start \/ ParseIndex \/ FindBlocks
  \/ BlockEntries \/ FunctionEntries \/ ClassEntries

Spec == Init /\ [][Next]_vars

(***************************************************************************)
(* Properties                                                              *)
(***************************************************************************)
Compounds(kind) == {c \in ToSet(w.index) : c.kind = kind}
HeaderFiles     == {c \in Compounds("file") : c.name \in Headers}
Good(c)         == w.xml[c.refid].file = "good"

TypeOK ==
  /\ pc \in {"client", "index", "blocks", "entries", "functions", "classes", "done", "crashed"}
  /\ calls \in 0 .. MaxCalls
  /\ s.failed \subseteq s.parsed /\ s.nameless \subseteq DOMAIN s.refs
  /\ s.parsed \subseteq DOMAIN s.refs \cup {"index"}
  /\ DOMAIN s.members \subseteq s.parsed \ s.failed
  /\ ToSet(blocks) \subseteq Compounds("class")

\* Nothing in the index keeps it from being read to its end.
IndexReadable ==
  /\ \A c \in ToSet(w.index) : HasClass(c.kind)
  /\ \A c \in HeaderFiles : Good(c)

\* An object of the index has its name, also when a group lists it too: the instance is
\* always the one made from the index (base.py:65, :77).  After an index that could not
\* be read to its end this is lost: a group may then make a nameless instance first.
NamesKnown ==
  IndexReadable =>
    \A c \in ToSet(w.index) : c.refid \in DOMAIN s.refs => ~NameRaises(s, c.refid)

Entries(of, name) == {i \in DOMAIN out : out[i].of = of /\ out[i].name = name}

\* There is something to write of a class: of a block also when only its make function
\* or its header is described.
Told(c) ==
  \/ HasText("compound", c.refid)
  \/ /\ c \in ToSet(blocks)
     /\ \/ HasText("function", MakeName[c.name])
        \/ \E h \in HeaderFiles : h.name = HeaderOf[c.name] /\ HasText("compound", h.refid)

\* In the file every class that could be read and is described has one entry, as a block
\* or as a class, and the others have none (swig_doc.py:106 leaves out what would be
\* empty), whatever was asked of the objects before.  (An index that
\* cannot be read ends the script; only for a client, which may go on after the exception,
\* the members read until then pass for all of them: base.py:202.)
EveryClassOnce ==
  pc = "done" /\ (calls = 0 \/ IndexReadable) =>
    \A c \in Compounds("class") :
       Cardinality(Entries("class", c.name)) =
         IF Good(c) /\ Told(c) /\ c.name \notin Operators THEN 1 ELSE 0

\* The first of defs with the name is of this kind.
First(defs, kind, name) ==
  \E i \in DOMAIN defs : /\ defs[i].kind = kind /\ defs[i].name = name
                         /\ \A j \in 1..(i - 1) : defs[j].name # name
FunctionFirst(defs, name) == First(defs, "function", name)

\* A class documents each of its functions once: those a name belongs to first.
MethodsOnce ==
  pc = "done" /\ (calls = 0 \/ IndexReadable) =>
    \A c \in Compounds("class") : Good(c) =>
      LET defs == w.xml[c.refid].members IN
      \A name \in {d.name : d \in ToSet(defs)} \ Operators :
         Cardinality(Entries(c.refid, name)) = IF FunctionFirst(defs, name) THEN 1 ELSE 0

\* The make function of a block has one entry, with the description of the block; every
\* other function has one for each header it is in.
FunctionsOnce ==
  pc = "done" /\ (calls = 0 \/ IndexReadable) =>
    LET makes == {MakeName[b.name] : b \in ToSet(blocks)}
        DeclaredIn(name) == {c \in HeaderFiles : FunctionFirst(w.xml[c.refid].members, name)}
    IN  \A name \in (UNION {{d.name : d \in ToSet(w.xml[c.refid].members)} : c \in HeaderFiles})
                    \ Operators :
          LET es == Entries("function", name) IN
          /\ Cardinality(es) = IF name \in makes THEN 1 ELSE Cardinality(DeclaredIn(name))
          /\ \A i \in es : out[i].desc = IF name \in makes THEN "block" ELSE "own"

\* The generation fails only for what these conditions name: a class whose XML is broken
\* is never among them.
Missing(c) == w.xml[c.refid].file = "missing"
Incomplete(c) ==
  \/ GetMember(s.top, "function", MakeName[c.name]) # "found"
  \/ GetMember(s.top, "file", HeaderOf[c.name]) = "Duplicate"
  \/ ~FunctionFirst(w.xml[c.refid].members, c.name)
\* A class whose file has the make function for a friend, before anything else of that name.
IsBlockFile(c) ==
  /\ Good(c) /\ c.name \in DOMAIN MakeName
  /\ First(w.xml[c.refid].members, "friend", MakeName[c.name])
CrashHasCause ==
  pc = "crashed" =>
    \/ ~IndexReadable
    \/ \E c \in Compounds("class") : Missing(c)
    \/ \E c \in Compounds("class") : IsBlockFile(c) /\ Incomplete(c)

\* What the code says of broken XML (base.py:197: the error is noted in the object;
\* swig_doc.py:53 and :207 look for it): it does not end the generation.
BrokenFileSkipped ==
  pc = "crashed" =>
    \/ \E c \in ToSet(w.index) : ~HasClass(c.kind) \/ Missing(c)
    \/ \E c \in Compounds("class") : IsBlockFile(c) /\ Incomplete(c)
=============================================================================
