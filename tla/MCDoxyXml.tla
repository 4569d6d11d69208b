------------------------------ MODULE MCDoxyXml ------------------------------
(***************************************************************************)
(* Files for DoxyXml: an element of every class with up to two children,   *)
(* known and unknown elements, text and CDATA in any order, and with good, *)
(* bad and missing attributes; and descriptions with nested sections.      *)
(***************************************************************************)
EXTENDS DoxyXml, FiniteSetsExt

GoodAttributes(c) ==
  [a \in Schema[c].attrs |-> IF a \in IntegerAttributes THEN "number" ELSE "word"]
Attributes(c) ==
  {GoodAttributes(c),
   [a \in Schema[c].attrs |-> "word"],
   [a \in {"unknown"} |-> "word"]}

UpToTwo(S)  == {<<>>} \cup {<<x>> : x \in S} \cup {<<x, y>> : x, y \in S}
Nodes(S)    == {q \in UpToTwo(S) : Len(q) = 2 => ~(IsText(q[1]) /\ IsText(q[2]))}

Pieces      == {Text(<<"a">>), Text(<<"a", "markup">>), CData(<<"b">>), CData(<<"markup">>)}
Simple(tag, words) == Element(tag, <<>>, <<Text(words)>>)

\* A child of its class: with all its attributes, with text, or with an element in it.
Child(child) ==
  LET attrs == IF child.of = TEXT THEN <<>> ELSE GoodAttributes(child.of)
  IN  {Element(child.tag, attrs, <<>>), Element(child.tag, attrs, <<Text(<<"b">>)>>),
       Element(child.tag, <<>>, <<Simple("unknown", <<"b">>)>>)}

Inside(c) ==
  Pieces \cup {Simple("unknown", <<"b">>)}
         \cup UNION {Child(child) : child \in ToSet(Schema[c].children)}

\* All attributes with up to one child, the good ones with up to two.
ClassFiles ==
  UNION {{[class |-> c, root |-> Element("root", attrs, kids)]
            : attrs \in Attributes(c), kids \in {<<>>} \cup {<<k>> : k \in Inside(c)}}
          : c \in DOMAIN Schema}
  \cup
  UNION {{[class |-> c, root |-> Element("root", GoodAttributes(c), kids)]
            : kids \in Nodes(Inside(c)) \cup
                      {<<Text(<<"a">>), x, Text(<<"b">>)>> : x \in {y \in Inside(c) : ~IsText(y)}}}
          : c \in DOMAIN Schema}

\* Strings that have to be there, and a child of every kind, in a full element.
FullElement(c) ==
  LET children == Schema[c].children
      OneOf(child) == CHOOSE e \in Child(child) : e.kids = <<Text(<<"b">>)>>
  IN  Element("root", GoodAttributes(c), [i \in DOMAIN children |-> OneOf(children[i])])
FullFiles == {[class |-> c, root |-> FullElement(c)] : c \in DOMAIN Schema}

\* Descriptions: paragraphs of up to two pieces, and sections within sections.
ParaPieces == {Text(<<"a">>), Simple("ref", <<"b">>), Simple("bold", <<"a">>), CData(<<"b">>)}
Paras      == {Element("para", <<>>, kids) : kids \in Nodes(ParaPieces)}
Section(tag, S) == {Element(tag, <<>>, <<x>>) : x \in S}

Short    == Section("para", ParaPieces)
Internal(S) == Section("internal", S)
Level4   == Section("sect4", Short \cup Internal(Short))
Level3   == Section("sect3", Level4 \cup Internal(Short) \cup {Simple("title", <<"b">>)})
Level2   == Section("sect2", Level3 \cup Internal(Short))
Level1   == Section("sect1", Level2 \cup Short \cup {Text(<<"a">>)})
Parts    == Paras \cup Level1 \cup {Text(<<"b">>), Simple("title", <<"a">>)}
              \cup Internal(Short)

DescriptionFiles ==
  {[class |-> "descriptionType", root |-> Element("root", <<>>, kids)] : kids \in Nodes(Parts)}

MCAddresses == {"here", "there"}

MCFiles == ClassFiles \cup FullFiles \cup DescriptionFiles
=============================================================================
