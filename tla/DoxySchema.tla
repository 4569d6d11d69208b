------------------------------ MODULE DoxySchema ------------------------------
(***************************************************************************)
(* The classes of compoundsuper.py and indexsuper.py as data: for every    *)
(* class the attributes it reads and writes, the child elements it knows,  *)
(* in the order in which it writes them, and the way its text is kept.     *)
(* DoxyXml reads and writes objects by this table.                         *)
(***************************************************************************)

\* A child that is kept as a string instead of an object of a class.
TEXT == "TEXT"

\* A child element: the last one is kept (set_...), or all are (append).  It is read
\* and written as an object of its class, or as a string.
One(tag, class)  == [tag |-> tag, of |-> class, many |-> FALSE, string |-> class = TEXT]
Many(tag, class) == [tag |-> tag, of |-> class, many |-> TRUE, string |-> class = TEXT]

\* A child that is read as an object, but starts as '' and is written as a string.
Mistyped(tag, class) == [One(tag, class) EXCEPT !.string = TRUE]

\* The four ways of keeping what is inside an element: a field per child; one list
\* content_ of text and children; one string valueOf_; that string and content_.
Class(body, attrs, children) ==
  [body |-> body, attrs |-> attrs, children |-> children, required |-> {}]
Fields(attrs, children) == Class("fields", attrs, children)
Mixed(attrs, children)  == Class("mixed", attrs, children)
Value(attrs)            == Class("value", attrs, <<>>)
Both(attrs)             == Class("both", attrs, <<>>)

\* Attributes that are written even when they were never read (as "None").
Required(attrs, class) == [class EXCEPT !.required = attrs]

\* The attributes that are converted with int(); the others stay strings.
IntegerAttributes == {"lineno", "startline", "endline", "line", "bodystart", "bodyend",
                      "rows", "cols", "level"}

\* compoundsuper.py
DoxygenType ==
  Required({"version"}, Fields({"version"}, <<One("compounddef", "compounddefType")>>))
compounddefType ==
  Fields({"kind", "prot", "id"}, <<One("compoundname", TEXT),
    Mistyped("title", "docTitleType"),
    Many("basecompoundref", "compoundRefType"), Many("derivedcompoundref", "compoundRefType"),
    Many("includes", "incType"), Many("includedby", "incType"), One("incdepgraph", "graphType"),
    One("invincdepgraph", "graphType"), Many("innerdir", "refType"),
    Many("innerfile", "refType"), Many("innerclass", "refType"),
    Many("innernamespace", "refType"), Many("innerpage", "refType"),
    Many("innergroup", "refType"), One("templateparamlist", "templateparamlistType"),
    Many("sectiondef", "sectiondefType"), One("briefdescription", "descriptionType"),
    One("detaileddescription", "descriptionType"), One("inheritancegraph", "graphType"),
    One("collaborationgraph", "graphType"), One("programlisting", "listingType"),
    One("location", "locationType"), One("listofallmembers", "listofallmembersType")>>)
listofallmembersType == Fields({}, <<Many("member", "memberRefType")>>)
memberRefType ==
  Fields({"virt", "prot", "refid", "ambiguityscope"}, <<One("scope", TEXT), One("name", TEXT)>>)
scope == Value({})
name == Value({})
compoundRefType == Both({"virt", "prot", "refid"})
reimplementType == Both({"refid"})
incType == Both({"local", "refid"})
refType == Both({"prot", "refid"})
refTextType == Both({"refid", "kindref", "external"})
sectiondefType ==
  Fields({"kind"}, <<One("header", TEXT), One("description", "descriptionType"),
    Many("memberdef", "memberdefType")>>)
memberdefType ==
  Fields({"initonly", "kind", "volatile", "const", "raise", "virt", "readable", "prot",
    "explicit", "new", "final", "writable", "add", "static", "remove", "sealed", "mutable",
    "gettable", "inline", "settable", "id"},
    <<One("templateparamlist", "templateparamlistType"), One("type", "linkedTextType"),
    One("definition", TEXT), One("argsstring", TEXT), One("name", TEXT), One("read", TEXT),
    One("write", TEXT), One("bitfield", TEXT), Many("reimplements", "reimplementType"),
    Many("reimplementedby", "reimplementType"), Many("param", "paramType"),
    Many("enumvalue", "enumvalueType"), One("initializer", "linkedTextType"),
    One("exceptions", "linkedTextType"), One("briefdescription", "descriptionType"),
    One("detaileddescription", "descriptionType"), One("inbodydescription", "descriptionType"),
    One("location", "locationType"), Many("references", "referenceType"),
    Many("referencedby", "referenceType")>>)
definition == Value({})
argsstring == Value({})
read == Value({})
write == Value({})
bitfield == Value({})
descriptionType ==
  Mixed({}, <<Many("title", "docTitleType"), Many("para", "docParaType"),
    Many("sect1", "docSect1Type"), Many("internal", "docInternalType")>>)
enumvalueType ==
  Mixed({"prot", "id"}, <<Many("name", TEXT), Many("initializer", "linkedTextType"),
    Many("briefdescription", "descriptionType"),
    Many("detaileddescription", "descriptionType")>>)
templateparamlistType == Fields({}, <<Many("param", "paramType")>>)
paramType ==
  Fields({}, <<One("type", "linkedTextType"), One("declname", TEXT), One("defname", TEXT),
    One("array", TEXT), One("defval", "linkedTextType"),
    One("briefdescription", "descriptionType")>>)
declname == Value({})
defname == Value({})
array == Value({})
linkedTextType == Mixed({}, <<Many("ref", "docRefTextType")>>)
graphType == Fields({}, <<Many("node", "nodeType")>>)
nodeType ==
  Fields({"id"}, <<One("label", TEXT), One("link", "linkType"),
    Many("childnode", "childnodeType")>>)
label == Value({})
childnodeType == Fields({"relation", "refid"}, <<Many("edgelabel", TEXT)>>)
edgelabel == Value({})
linkType == Value({"refid", "external"})
listingType == Fields({}, <<Many("codeline", "codelineType")>>)
codelineType ==
  Fields({"external", "lineno", "refkind", "refid"}, <<Many("highlight", "highlightType")>>)
highlightType == Mixed({"class"}, <<Many("sp", TEXT), Many("ref", "docRefTextType")>>)
sp == Value({})
referenceType == Both({"endline", "startline", "refid", "compoundref"})
locationType == Value({"bodystart", "line", "bodyend", "bodyfile", "file"})
docSect1Type ==
  Mixed({"id"}, <<Many("title", "docTitleType"), Many("para", "docParaType"),
    Many("sect2", "docSect2Type"), Many("internal", "docInternalS1Type")>>)
docSect2Type ==
  Mixed({"id"}, <<Many("title", "docTitleType"), Many("para", "docParaType"),
    Many("sect3", "docSect3Type"), Many("internal", "docInternalS2Type")>>)

\* Mutated form (used only by the mutants of PROJECT.json): no sections of level four.
docSect3TypeFlat ==
  Mixed({"id"}, <<Many("title", "docTitleType"), Many("para", "docParaType"),
    Many("internal", "docInternalS3Type")>>)

docSect3Type ==
  Mixed({"id"}, <<Many("title", "docTitleType"), Many("para", "docParaType"),
    Many("sect4", "docSect4Type"), Many("internal", "docInternalS3Type")>>)
docSect4Type ==
  Mixed({"id"}, <<Many("title", "docTitleType"), Many("para", "docParaType"),
    Many("internal", "docInternalS4Type")>>)
docInternalType == Mixed({}, <<Many("para", "docParaType"), Many("sect1", "docSect1Type")>>)
docInternalS1Type == Mixed({}, <<Many("para", "docParaType"), Many("sect2", "docSect2Type")>>)
docInternalS2Type == Mixed({}, <<Many("para", "docParaType"), Many("sect3", "docSect3Type")>>)
docInternalS3Type == Mixed({}, <<Many("para", "docParaType"), Many("sect3", "docSect4Type")>>)
docInternalS4Type == Mixed({}, <<Many("para", "docParaType")>>)
docTitleType == Both({})
docParaType == Both({})
docMarkupType == Both({})
docURLLink == Both({"url"})
docAnchorType == Both({"id"})
docFormulaType == Both({"id"})
docIndexEntryType == Fields({}, <<One("primaryie", TEXT), One("secondaryie", TEXT)>>)
docListType == Fields({}, <<Many("listitem", "docListItemType")>>)
docListItemType == Fields({}, <<Many("para", "docParaType")>>)
docSimpleSectType ==
  Fields({"kind"}, <<One("title", "docTitleType"), Many("para", "docParaType")>>)
docVarListEntryType == Fields({}, <<One("term", "docTitleType")>>)
docVariableListType == Value({})
docRefTextType == Both({"refid", "kindref", "external"})
docTableType ==
  Fields({"rows", "cols"}, <<Many("row", "docRowType"), One("caption", "docCaptionType")>>)
docRowType == Fields({}, <<Many("entry", "docEntryType")>>)
docEntryType == Fields({"thead"}, <<Many("para", "docParaType")>>)
docCaptionType == Both({})
docHeadingType == Both({"level"})
docImageType == Both({"width", "type", "name", "height"})
docDotFileType == Both({"name"})
docTocItemType == Both({"id"})
docTocListType == Fields({}, <<Many("tocitem", "docTocItemType")>>)
docLanguageType == Fields({"langid"}, <<Many("para", "docParaType")>>)
docParamListType == Fields({"kind"}, <<Many("parameteritem", "docParamListItem")>>)
docParamListItem ==
  Fields({}, <<Many("parameternamelist", "docParamNameList"),
    One("parameterdescription", "descriptionType")>>)
docParamNameList == Fields({}, <<Many("parametername", "docParamName")>>)
docParamName == Mixed({"direction"}, <<Many("ref", "docRefTextType")>>)
docXRefSectType ==
  Fields({"id"}, <<Many("xreftitle", TEXT), One("xrefdescription", "descriptionType")>>)
docCopyType ==
  Fields({"link"}, <<Many("para", "docParaType"), Many("sect1", "docSect1Type"),
    One("internal", "docInternalType")>>)
docCharType == Value({"char"})
docEmptyType == Value({})

\* indexsuper.py; its DoxygenType is the root of index.xml.
IndexDoxygenType ==
  Required({"version"}, Fields({"version"}, <<Many("compound", "CompoundType")>>))
CompoundType ==
  Required({"kind", "refid"}, Fields({"kind", "refid"}, <<One("name", TEXT),
    Many("member", "MemberType")>>))
MemberType == Required({"kind", "refid"}, Fields({"kind", "refid"}, <<One("name", TEXT)>>))

\* compound.py overrides two methods of docParaType: its objects also keep the text and
\* the references in order (content), and the parameter lists and sections inside them.
docParaTypeSub ==
  [docParaType EXCEPT !.body = "para", !.children =
     <<Many("ref", "docRefTextType"), Many("parameterlist", "docParamListType"),
       Many("simplesect", "docSimpleSectType")>>]

\* The table: what the modules look up by the name of a class.
Schema ==
  [DoxygenType |-> DoxygenType, compounddefType |-> compounddefType,
   listofallmembersType |-> listofallmembersType, memberRefType |-> memberRefType,
   scope |-> scope, name |-> name, compoundRefType |-> compoundRefType,
   reimplementType |-> reimplementType, incType |-> incType, refType |-> refType,
   refTextType |-> refTextType, sectiondefType |-> sectiondefType,
   memberdefType |-> memberdefType, definition |-> definition, argsstring |-> argsstring,
   read |-> read, write |-> write, bitfield |-> bitfield, descriptionType |-> descriptionType,
   enumvalueType |-> enumvalueType, templateparamlistType |-> templateparamlistType,
   paramType |-> paramType, declname |-> declname, defname |-> defname, array |-> array,
   linkedTextType |-> linkedTextType, graphType |-> graphType, nodeType |-> nodeType,
   label |-> label, childnodeType |-> childnodeType, edgelabel |-> edgelabel,
   linkType |-> linkType, listingType |-> listingType, codelineType |-> codelineType,
   highlightType |-> highlightType, sp |-> sp, referenceType |-> referenceType,
   locationType |-> locationType, docSect1Type |-> docSect1Type, docSect2Type |-> docSect2Type,
   docSect3Type |-> docSect3Type, docSect4Type |-> docSect4Type,
   docInternalType |-> docInternalType, docInternalS1Type |-> docInternalS1Type,
   docInternalS2Type |-> docInternalS2Type, docInternalS3Type |-> docInternalS3Type,
   docInternalS4Type |-> docInternalS4Type, docTitleType |-> docTitleType,
   docParaType |-> docParaTypeSub, docMarkupType |-> docMarkupType, docURLLink |-> docURLLink,
   docAnchorType |-> docAnchorType, docFormulaType |-> docFormulaType,
   docIndexEntryType |-> docIndexEntryType, docListType |-> docListType,
   docListItemType |-> docListItemType, docSimpleSectType |-> docSimpleSectType,
   docVarListEntryType |-> docVarListEntryType, docVariableListType |-> docVariableListType,
   docRefTextType |-> docRefTextType, docTableType |-> docTableType, docRowType |-> docRowType,
   docEntryType |-> docEntryType, docCaptionType |-> docCaptionType,
   docHeadingType |-> docHeadingType, docImageType |-> docImageType,
   docDotFileType |-> docDotFileType, docTocItemType |-> docTocItemType,
   docTocListType |-> docTocListType, docLanguageType |-> docLanguageType,
   docParamListType |-> docParamListType, docParamListItem |-> docParamListItem,
   docParamNameList |-> docParamNameList, docParamName |-> docParamName,
   docXRefSectType |-> docXRefSectType, docCopyType |-> docCopyType,
   docCharType |-> docCharType, docEmptyType |-> docEmptyType,
   IndexDoxygenType |-> IndexDoxygenType, CompoundType |-> CompoundType,
   MemberType |-> MemberType]
===============================================================================
