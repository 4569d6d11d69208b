------------------------------ MODULE MCSwigDoc ------------------------------
(***************************************************************************)
(* Directories for SwigDoc: a block g_blk, a class util, two headers, a    *)
(* group and a page of a kind without a class, up to three of them in any  *)
(* order or all of them, each with several contents.                       *)
(***************************************************************************)
EXTENDS SwigDoc

Def(kind, name)     == [kind |-> kind, refid |-> "", name |-> name]
Xml(file, defs)     == [file |-> file, members |-> defs, groups |-> <<>>, classes |-> <<>>]
Comp(kind, refid, name) == [kind |-> kind, refid |-> refid, name |-> name]

Ctor   == Def("function", "g_blk")
Make   == Def("function", "g_make_blk")
Friend == Def("friend", "g_make_blk")
Fn     == Def("function", "fn")
Op     == Def("function", "operator =")
Slot   == Def("slot", "fn")

Compound == [c1 |-> Comp("class", "c1", "g_blk"), c2 |-> Comp("class", "c2", "util"),
             h1 |-> Comp("file", "h1", "g_blk.h"), h2 |-> Comp("file", "h2", "util.h"),
             h3 |-> Comp("file", "h3", "g_blk.h"), f |-> Comp("file", "f", "blk.cc"),
             g |-> Comp("group", "g", "all"), e |-> Comp("example", "e", "demo")]

Contents ==
  [c1 |-> {Xml("good", <<Ctor, Friend, Fn, Fn, Op>>), Xml("good", <<Friend, Slot, Fn>>),
           Xml("good", <<Ctor, Make, Friend>>), Xml("broken", <<>>), Xml("missing", <<>>)},
   c2 |-> {Xml("good", <<Fn>>), Xml("broken", <<>>)},
   h1 |-> {Xml("good", <<Make, Fn>>), Xml("good", <<Def("variable", "fn"), Fn, Make>>),
           Xml("good", <<>>), Xml("broken", <<>>)},
   h2 |-> {Xml("good", <<Fn, Op>>), Xml("good", <<Make>>)},
   h3 |-> {Xml("good", <<Fn>>)},
   f  |-> {Xml("broken", <<>>)},
   g  |-> {[Xml("good", <<Fn>>) EXCEPT !.groups = <<"g">>, !.classes = <<"c1", "c9">>]},
   e  |-> {Xml("good", <<>>)}]

Refids == DOMAIN Contents
Orders ==
  {<<a, b, c>> : a, b, c \in Refids} \cup {<<a, b>> : a, b \in Refids}
    \cup {<<"c1", "h1", "h2", "g">>, <<"h2", "g", "h1", "c1">>, <<"g", "h1", "c1", "c2">>,
          <<"c1", "h1", "h3", "c2">>, <<"f", "c2", "h1", "c1">>}
NoRepeats == {o \in Orders : \A i, j \in DOMAIN o : i # j => o[i] # o[j]}

\* Everything is described, or nothing, or only the make function, or a header and a class.
Described ==
  {{"compound", "function"} \X (Refids \cup {"g_make_blk", "fn"}), {},
   {<<"function", "g_make_blk">>}, {<<"compound", "h1">>, <<"compound", "c2">>}}

\* Every file outside the index is one no compound of it has (c9, and c1 when left out).
Outside == Xml("good", <<Fn>>)
MCWorlds ==
  UNION {LET inIndex == ToSet(o) IN
         {[index |-> [i \in DOMAIN o |-> Compound[o[i]]],
           xml |-> [r \in Refids \cup {"c9"} |-> IF r \in inIndex THEN x[r] ELSE Outside],
           described |-> d]
            : x \in {y \in [inIndex -> UNION {Contents[r] : r \in inIndex}] :
                       \A r \in inIndex : y[r] \in Contents[r]},
              d \in Described}
         : o \in NoRepeats}

MCMakeName == [n \in {"g_blk"} |-> "g_make_blk"]
MCHeaderOf == [n \in {"g_blk"} |-> "g_blk.h"]
=============================================================================
