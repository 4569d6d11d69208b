------------------------------- MODULE DoxyXml -------------------------------
(***************************************************************************)
(* Reading, writing and describing XML with the classes generateDS made    *)
(* (docs/doxygen/doxyxml/generated): a file is parsed into objects of the  *)
(* class table, objects are written as a file, and text.py turns a         *)
(* description into plain text.  Every class of the table has the same     *)
(* build and export methods, written out once per class.                   *)
(*                                                                         *)
(* Text is a sequence of words; "markup" stands for a character that has   *)
(* to be quoted.  Layout (line breaks and indentation that export adds) is *)
(* left out.                                                               *)
(***************************************************************************)
EXTENDS DoxySchema, Naturals, SequencesExt, TLC

CONSTANTS
  Files,      \* the files there are: a class and an element each
  Addresses,  \* where an object may be in memory: the words its name is made of
  Rounds      \* how often an object is written (bound)

VARIABLES
  class,   \* the class of the root element
  file,    \* the document on disk, or IllFormed
  obj,     \* the object it was parsed into
  n,       \* how often it has been written
  phase    \* "file", "object", "error"

vars == <<class, file, obj, n, phase>>

(***************************************************************************)
(* Documents, as minidom hands them over                                   *)
(***************************************************************************)
Element(tag, attrs, kids) == [node |-> "element", tag |-> tag, attrs |-> attrs, kids |-> kids]
Text(words)  == [node |-> "text", words |-> words]
CData(words) == [node |-> "cdata", words |-> words]

IllFormed == Element("IllFormed", <<>>, <<>>)

IsText(k)       == k.node = "text"
IsElement(k)    == k.node = "element"
Tagged(k, tags) == IsElement(k) /\ k.tag \in tags

\* The XML parser joins neighbouring pieces of text.
Joined(nodes) ==
  FoldLeft(LAMBDA done, k : IF done # <<>> /\ IsText(Last(done)) /\ IsText(k)
                            THEN Append(Front(done), Text(Last(done).words \o k.words))
                            ELSE Append(done, k),
           <<>>, nodes)

(***************************************************************************)
(* build: from an element to an object                                     *)
(***************************************************************************)
Tags(c) == {child.tag : child \in ToSet(Schema[c].children)}
ChildOf(c, tag) == CHOOSE child \in ToSet(Schema[c].children) : child.tag = tag

\* What the text__content_ loops collect: every piece of a string child.
StringOf(elem) == FlattenSeq([i \in DOMAIN elem.kids |-> elem.kids[i].words])

\* valueOf_: text and CDATA sections, child elements left out.
ValueOf(elem) == Joined(SelectSeq(elem.kids, LAMBDA k : ~IsElement(k)))

RECURSIVE Build(_, _)
Read(of, elem) == IF of = TEXT THEN StringOf(elem) ELSE Build(of, elem)

\* Mutated form (used only by the mutants of PROJECT.json): a list is filled from its front.
CollectedBackwards(child, elem) ==
  LET found == SelectSeq(elem.kids, LAMBDA k : Tagged(k, {child.tag}))
      all   == Reverse([i \in DOMAIN found |-> Read(child.of, found[i])])
  IN  IF child.many THEN all
      ELSE IF found # <<>> THEN <<Head(all)>>
      ELSE IF child.string THEN << <<>> >> ELSE <<>>

\* The values of one child: all of them, or the last; a string starts as ''.
Collected(child, elem) ==
  LET found == SelectSeq(elem.kids, LAMBDA k : Tagged(k, {child.tag}))
      all   == [i \in DOMAIN found |-> Read(child.of, found[i])]
  IN  IF child.many THEN all
      ELSE IF found # <<>> THEN <<Last(all)>>
      ELSE IF child.string THEN << <<>> >> ELSE <<>>

\* content_ (and content of a paragraph): text and children in the order of the file.
\* The children that are listed depend on the body; CDATA sections are not.
Listed(c) == CASE Schema[c].body = "mixed" -> Tags(c)
               [] Schema[c].body = "para"  -> {"ref"}
               [] OTHER                    -> {}
Items(c, elem) ==
  LET kept == SelectSeq(elem.kids, LAMBDA k : IsText(k) \/ Tagged(k, Listed(c)))
      Item(k) == IF IsText(k) THEN [tag |-> "", value |-> k.words]
                 ELSE [tag |-> k.tag, value |-> Read(ChildOf(c, k.tag).of, k)]
  IN  [i \in DOMAIN kept |-> Item(kept[i])]

Build(c, elem) ==
  LET body == Schema[c].body IN
  [class |-> c,
   attrs |-> [a \in DOMAIN elem.attrs \cap Schema[c].attrs |-> elem.attrs[a]],
   kids  |-> [t \in (IF body \in {"fields", "para"} THEN Tags(c) ELSE {})
                |-> Collected(ChildOf(c, t), elem)],
   items |-> IF body \in {"mixed", "both", "para"} THEN Items(c, elem) ELSE <<>>,
   value |-> IF body \in {"value", "both", "para"} THEN ValueOf(elem) ELSE <<>>]

\* build raises an exception: int() of something that is no number (ValueError), or
\* an element inside a string child, whose nodeValue is None (TypeError).
RECURSIVE Raises(_, _)
Raises(c, elem) ==
  \/ \E a \in DOMAIN elem.attrs \cap Schema[c].attrs \cap IntegerAttributes :
        elem.attrs[a] # "number"
  \/ \E k \in ToSet(elem.kids) :
        /\ Tagged(k, Tags(c))
        /\ IF ChildOf(c, k.tag).of = TEXT
           THEN \E inner \in ToSet(k.kids) : IsElement(inner)
           ELSE Raises(ChildOf(c, k.tag).of, k)

(***************************************************************************)
(* export: from an object to an element                                    *)
(***************************************************************************)
\* quote_xml: unquoted again by the parser, except inside a CDATA section.
Quoted(words) ==
  FlattenSeq([i \in DOMAIN words |->
                IF words[i] = "markup" THEN <<"markup", "entity">> ELSE <<words[i]>>])

String(tag, words) == Element(tag, <<>>, IF words = <<>> THEN <<>> ELSE <<Text(words)>>)

\* What '%s' makes of a value: an object becomes its class and its address.
Percent(child, value, at) ==
  IF child.of = TEXT \/ value = <<>> THEN value ELSE <<"markup", at, "markup">>

RECURSIVE Export(_, _, _)
ExportKid(child, value, at) ==
  IF child.string THEN String(child.tag, Percent(child, value, at))
  ELSE Export(value, child.tag, at)

ExportFields(o, at) ==
  LET children == Schema[o.class].children
      Written(child) == [i \in DOMAIN o.kids[child.tag] |->
                           ExportKid(child, o.kids[child.tag][i], at)]
  IN  FlattenSeq([i \in DOMAIN children |-> Written(children[i])])

ExportItems(o, at) ==
  [i \in DOMAIN o.items |->
     LET it == o.items[i] IN
     IF it.tag = "" THEN Text(it.value)
     ELSE ExportKid(ChildOf(o.class, it.tag), it.value, at)]

\* Mutated form: the brackets of a CDATA section are not put back.
ExportValueAsText(o) == [i \in DOMAIN o.value |-> Text(Quoted(o.value[i].words))]

ExportValue(o) ==
  [i \in DOMAIN o.value |->
     IF IsText(o.value[i]) THEN o.value[i] ELSE CData(Quoted(o.value[i].words))]

Export(o, tag, at) ==
  LET s == Schema[o.class]
      missing == s.required \ DOMAIN o.attrs
      body == CASE s.body = "fields" -> ExportFields(o, at)
                [] s.body = "mixed"  -> ExportItems(o, at)
                [] OTHER             -> ExportValue(o)
  IN  Element(tag, o.attrs @@ [a \in missing |-> "None"], Joined(body))

\* MixedContainer writes text and strings without quoting them.
RECURSIVE WritesMarkup(_)
WritesMarkup(o) ==
  LET children == Schema[o.class].children
      Bad(child, value) == ~child.string /\ WritesMarkup(value)
  IN  \/ /\ Schema[o.class].body = "mixed"
         /\ \E it \in ToSet(o.items) :
              IF it.tag = "" \/ ChildOf(o.class, it.tag).of = TEXT
              THEN "markup" \in ToSet(it.value)
              ELSE WritesMarkup(it.value)
      \/ /\ Schema[o.class].body = "fields"
         /\ \E child \in ToSet(children) :
              \E value \in ToSet(o.kids[child.tag]) : Bad(child, value)

(***************************************************************************)
(* text.py: description                                                    *)
(***************************************************************************)
\* Two line breaks follow what a container named "para" holds.
RECURSIVE Bits(_)
Bits(o) ==
  LET Bit(it) == IF it.tag = "" \/ ChildOf(o.class, it.tag).of = TEXT THEN it.value
                 ELSE Bits(it.value) \o (IF it.tag = "para" THEN <<"break">> ELSE <<>>)
  IN  FlattenSeq([i \in DOMAIN o.items |-> Bit(o.items[i])])

RECURSIVE Strip(_)
Strip(words) ==
  IF words = <<>> THEN words
  ELSE IF Head(words) = "break" THEN Strip(Tail(words))
  ELSE IF Last(words) = "break" THEN Strip(Front(words))
  ELSE words

Description(o) == Strip(Bits(o))

(***************************************************************************)
(* Files are read and written, over and over                               *)
(***************************************************************************)
NoObject == [class |-> "", attrs |-> <<>>, kids |-> <<>>, items |-> <<>>, value |-> <<>>]

Init ==
  /\ \E f \in Files : class = f.class /\ file = f.root
  /\ obj = NoObject /\ n = 0 /\ phase = "file"

\* parse: minidom.parse (which fails on what is no XML), factory and build.
Parse ==
  /\ phase = "file"
  /\ IF file = IllFormed \/ Raises(class, file)
     THEN phase' = "error" /\ UNCHANGED obj
     ELSE phase' = "object" /\ obj' = Build(class, file)
  /\ UNCHANGED <<class, file, n>>

Write ==
  /\ phase = "object" /\ n < Rounds
  /\ \E at \in Addresses :
       file' = IF WritesMarkup(obj) THEN IllFormed ELSE Export(obj, file.tag, at)
  /\ n' = n + 1
  /\ phase' = "file" /\ obj' = NoObject
  /\ UNCHANGED class

Next == Parse \/ Write
Spec == Init /\ [][Next]_vars

(***************************************************************************)
(* Properties                                                              *)
(***************************************************************************)
RECURSIVE MarkedCData(_)
MarkedCData(elem) ==
  \E k \in ToSet(elem.kids) :
     IF IsElement(k) THEN MarkedCData(k) ELSE ~IsText(k) /\ "markup" \in ToSet(k.words)

\* A file with its CDATA sections quoted once more.
RECURSIVE Requoted(_)
Requoted(elem) ==
  LET Again(k) == IF IsElement(k) THEN Requoted(k)
                  ELSE IF IsText(k) THEN k ELSE CData(Quoted(k.words))
  IN  [elem EXCEPT !.kids = [i \in DOMAIN @ |-> Again(@[i])]]

\* A file without the children that are read as objects and written as strings: the
\* title of a compound, the only one there is.
RECURSIVE Untitled(_, _)
Untitled(c, elem) ==
  LET Object(k) == Tagged(k, Tags(c)) /\ ChildOf(c, k.tag).of # TEXT
      kept == SelectSeq(elem.kids, LAMBDA k : ~(Object(k) /\ ChildOf(c, k.tag).string))
  IN  [elem EXCEPT !.kids =
         [i \in DOMAIN kept |-> IF Object(kept[i])
                                THEN Untitled(ChildOf(c, kept[i].tag).of, kept[i])
                                ELSE kept[i]]]

\* An element as the schema describes it: only known attributes and children, in the
\* order of the schema, single ones once and strings always; no element in a paragraph
\* (export writes valueOf_, which has none of its children) and no CDATA in content_.
RECURSIVE Conforming(_, _)
Conforming(c, elem) ==
  LET s == Schema[c]
      Place(k) == CHOOSE i \in DOMAIN s.children : s.children[i].tag = k.tag
      elems == SelectSeq(elem.kids, IsElement)
      Times(child) == Len(SelectSeq(elems, LAMBDA k : k.tag = child.tag))
  IN  /\ s.required \subseteq DOMAIN elem.attrs /\ DOMAIN elem.attrs \subseteq s.attrs
      /\ s.body # "mixed" => elems = <<>> \/ s.body = "fields"
      /\ s.body = "fields" =>
           /\ elems = elem.kids
           /\ \A child \in ToSet(s.children) :
                ~child.many => Times(child) \in (IF child.of = TEXT THEN {1} ELSE {0, 1})
           /\ \A i, j \in DOMAIN elems : i < j =>
                /\ Tagged(elems[i], Tags(c)) /\ Tagged(elems[j], Tags(c))
                /\ Place(elems[i]) <= Place(elems[j])
      /\ s.body = "mixed" => \A k \in ToSet(elem.kids) : k.node # "cdata"
      /\ \A k \in ToSet(elems) :
           /\ Tagged(k, Tags(c))
           /\ IF ChildOf(c, k.tag).of = TEXT
              THEN k.attrs = <<>> /\ \A inner \in ToSet(k.kids) : IsText(inner)
              ELSE Conforming(ChildOf(c, k.tag).of, k)

\* Reading a conforming file and writing it again changes nothing but the title of a
\* compound, whatever its class: no attribute, child, text or order is lost in build
\* (compoundsuper.py:238) or in export (:208).  Characters that need quoting in mixed
\* text break the file, and inside a CDATA section they are quoted once more.  A title
\* is written as the name of an object (:426), and as an empty one when there is none.
ConformingUnchanged ==
  phase = "object" /\ Conforming(class, file) /\ ~MarkedCData(file) /\ ~WritesMarkup(obj) =>
    \A at \in Addresses :
      Untitled(class, Export(obj, file.tag, at)) = Untitled(class, file)

\* Whatever the first file looked like, a file that was written once can be read and
\* written again, and what export leaves out it has left out at once: the only
\* differences from then on are the title of a compound and CDATA sections, which are
\* quoted once more every time (compoundsuper.py:1223).
WrittenFileSettled ==
  [][Write /\ n > 0 =>
       Untitled(class, file') = Requoted(Untitled(class, file))]_vars

\* The words of a description in the order of the file: titles and paragraphs with the
\* text of their references, down all sections; stated on the document, without classes.
RECURSIVE WordsOf(_)
WordsOf(elem) ==
  LET inside == CASE elem.tag = "para" -> {"ref"}
                  [] elem.tag \in {"ref", "title"} -> {}
                  [] OTHER -> {"title", "para", "sect1", "sect2", "sect3", "sect4", "internal"}
      Of(k) == IF IsText(k) THEN k.words
               ELSE IF Tagged(k, inside) THEN WordsOf(k) ELSE <<>>
  IN  FlattenSeq([i \in DOMAIN elem.kids |-> Of(elem.kids[i])])

\* description (text.py:36) gives exactly these words, in their order.
DescriptionComplete ==
  phase = "object" /\ class = "descriptionType" =>
    SelectSeq(Description(obj), LAMBDA w : w # "break") = WordsOf(file)

=============================================================================
