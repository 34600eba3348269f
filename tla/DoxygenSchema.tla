--------------------------- MODULE DoxygenSchema ---------------------------
(***************************************************************************)
(* The classes that generateDS wrote for doxygen's XML (compoundsuper.py,  *)
(* indexsuper.py in docs/doxygen/doxyxml/generated, and the subclasses of  *)
(* compound.py), as data. The methods of these classes                     *)
(* differ only in what is recorded here:                                   *)
(*   attrs - the attributes buildAttributes() reads: enumerations, which   *)
(*           exportAttributes() writes as they are, strings, which it      *)
(*           encodes first, and integers, which must convert;              *)
(*   kids  - the branches of buildChildren(), in the order in which        *)
(*           __init__, hasContent_() and exportChildren() list the fields: *)
(*           the tag, the list or field the child goes to (slot), whether  *)
(*           it is appended ("many") or assigned ("one"), the class that   *)
(*           builds it, and the form in which it is written;               *)
(*   text, cdata, comment - where the parts of the text go.                *)
(* DoxygenBuild gives the methods. Here are the classes that some document *)
(* reaches from the two DoxygenType; the other 37 classes of               *)
(* compoundsuper.py (docListType, docTableType...) no branch of any class  *)
(* builds.                                                                 *)
(***************************************************************************)
EXTENDS Sequences

Attrs(e, s, i) == [enum |-> e, str |-> s, int |-> i]
NoAttrs == Attrs({}, {}, {})

\* A text element: its text goes to a field, or to a list of strings.
Str(tag)  == [tag |-> tag, slot |-> tag, how |-> "one", cls |-> "str",
              form |-> "encoded"]
Strs(tag) == [Str(tag) EXCEPT !.how = "many"]
\* An element with a class: an object in a field, or in a list.
One(tag, cls)  == [tag |-> tag, slot |-> tag, how |-> "one", cls |-> cls,
                   form |-> "element"]
Many(tag, cls) == [One(tag, cls) EXCEPT !.how = "many"]
\* The title of a compound is built as an object and written as a string:
\* what is written is Python's description of the object.
Repr(tag, cls) == [One(tag, cls) EXCEPT !.form = "repr"]
\* Mixed content: a MixedContainer at the end of content_.
Mix(tag, cls) == [Many(tag, cls) EXCEPT !.slot = "content_"]
MixStr(tag)   == [Mix(tag, "str") EXCEPT !.form = "simple"]

Plain(attrs, kids) == [attrs |-> attrs, kids |-> kids,
                       text |-> {}, cdata |-> {}, comment |-> {}]
Text(attrs)        == [Plain(attrs, <<>>) EXCEPT !.text = {"valueOf_"},
                                                 !.cdata = {"valueOf_"}]
Mixed(attrs, kids) == [Plain(attrs, kids) EXCEPT !.text = {"content_"}]
MixedText(attrs)   == [Text(attrs) EXCEPT !.text = {"valueOf_", "content_"}]

\* A text element has no class of its own: buildChildren() of its parent
\* joins the nodeValue of every child, whatever kind of text it is.
str == [Plain(NoAttrs, <<>>) EXCEPT !.text = {"value"}, !.cdata = {"value"},
                                    !.comment = {"value"}]

-----------------------------------------------------------------------------
(* compoundsuper.py *)

DoxygenType ==
  Plain(Attrs({"version"}, {}, {}),
    <<One("compounddef", "compounddefType")>>)

compounddefType ==
  Plain(Attrs({"kind", "prot"}, {"id"}, {}),
    <<Str("compoundname"), Repr("title", "docTitleType"),
      Many("basecompoundref", "compoundRefType"),
      Many("derivedcompoundref", "compoundRefType"),
      Many("includes", "incType"), Many("includedby", "incType"),
      One("incdepgraph", "graphType"), One("invincdepgraph", "graphType"),
      Many("innerdir", "refType"), Many("innerfile", "refType"),
      Many("innerclass", "refType"), Many("innernamespace", "refType"),
      Many("innerpage", "refType"), Many("innergroup", "refType"),
      One("templateparamlist", "templateparamlistType"),
      Many("sectiondef", "sectiondefType"),
      One("briefdescription", "descriptionType"),
      One("detaileddescription", "descriptionType"),
      One("inheritancegraph", "graphType"),
      One("collaborationgraph", "graphType"),
      One("programlisting", "listingType"), One("location", "locationType"),
      One("listofallmembers", "listofallmembersType")>>)

listofallmembersType == Plain(NoAttrs, <<Many("member", "memberRefType")>>)

memberRefType ==
  Plain(Attrs({"virt", "prot", "ambiguityscope"}, {"refid"}, {}),
    <<Str("scope"), Str("name")>>)

compoundRefType == MixedText(Attrs({"virt", "prot"}, {"refid"}, {}))

reimplementType == MixedText(Attrs({}, {"refid"}, {}))

incType == MixedText(Attrs({"local"}, {"refid"}, {}))

refType == MixedText(Attrs({"prot"}, {"refid"}, {}))

sectiondefType ==
  Plain(Attrs({"kind"}, {}, {}),
    <<Str("header"), One("description", "descriptionType"),
      Many("memberdef", "memberdefType")>>)

memberdefType ==
  Plain(Attrs({"initonly", "kind", "volatile", "const", "raise", "virt",
          "readable", "prot", "explicit", "new", "final", "writable", "add",
          "static", "remove", "sealed", "mutable", "gettable", "inline",
          "settable"},
        {"id"}, {}),
    <<One("templateparamlist", "templateparamlistType"),
      One("type", "linkedTextType"), Str("definition"), Str("argsstring"),
      Str("name"), Str("read"), Str("write"), Str("bitfield"),
      Many("reimplements", "reimplementType"),
      Many("reimplementedby", "reimplementType"), Many("param", "paramType"),
      Many("enumvalue", "enumvalueType"),
      One("initializer", "linkedTextType"),
      One("exceptions", "linkedTextType"),
      One("briefdescription", "descriptionType"),
      One("detaileddescription", "descriptionType"),
      One("inbodydescription", "descriptionType"),
      One("location", "locationType"), Many("references", "referenceType"),
      Many("referencedby", "referenceType")>>)

descriptionType ==
  Mixed(NoAttrs,
    <<Mix("title", "docTitleType"), Mix("para", "docParaType"),
      Mix("sect1", "docSect1Type"), Mix("internal", "docInternalType")>>)

enumvalueType ==
  Mixed(Attrs({"prot"}, {"id"}, {}),
    <<MixStr("name"), Mix("initializer", "linkedTextType"),
      Mix("briefdescription", "descriptionType"),
      Mix("detaileddescription", "descriptionType")>>)

templateparamlistType == Plain(NoAttrs, <<Many("param", "paramType")>>)

paramType ==
  Plain(NoAttrs,
    <<One("type", "linkedTextType"), Str("declname"), Str("defname"),
      Str("array"), One("defval", "linkedTextType"),
      One("briefdescription", "descriptionType")>>)

linkedTextType == Mixed(NoAttrs, <<Mix("ref", "docRefTextType")>>)

graphType == Plain(NoAttrs, <<Many("node", "nodeType")>>)

nodeType ==
  Plain(Attrs({}, {"id"}, {}),
    <<Str("label"), One("link", "linkType"),
      Many("childnode", "childnodeType")>>)

childnodeType ==
  Plain(Attrs({"relation"}, {"refid"}, {}),
    <<Strs("edgelabel")>>)

linkType == Text(Attrs({}, {"refid", "external"}, {}))

listingType == Plain(NoAttrs, <<Many("codeline", "codelineType")>>)

codelineType ==
  Plain(Attrs({"external", "refkind"}, {"refid"}, {"lineno"}),
    <<Many("highlight", "highlightType")>>)

highlightType ==
  Mixed(Attrs({"class"}, {}, {}),
    <<MixStr("sp"), Mix("ref", "docRefTextType")>>)

referenceType ==
  MixedText(Attrs({"compoundref"}, {"refid"}, {"endline", "startline"}))

locationType ==
  Text(Attrs({}, {"bodyfile", "file"}, {"bodystart", "line", "bodyend"}))

docSect1Type ==
  Mixed(Attrs({}, {"id"}, {}),
    <<Mix("title", "docTitleType"), Mix("para", "docParaType"),
      Mix("sect2", "docSect2Type"), Mix("internal", "docInternalS1Type")>>)

docSect2Type ==
  Mixed(Attrs({}, {"id"}, {}),
    <<Mix("title", "docTitleType"), Mix("para", "docParaType"),
      Mix("sect3", "docSect3Type"), Mix("internal", "docInternalS2Type")>>)

docSect3Type ==
  Mixed(Attrs({}, {"id"}, {}),
    <<Mix("title", "docTitleType"), Mix("para", "docParaType"),
      Mix("sect4", "docSect4Type"), Mix("internal", "docInternalS3Type")>>)

docSect4Type ==
  Mixed(Attrs({}, {"id"}, {}),
    <<Mix("title", "docTitleType"), Mix("para", "docParaType"),
      Mix("internal", "docInternalS4Type")>>)

docInternalType ==
  Mixed(NoAttrs,
    <<Mix("para", "docParaType"), Mix("sect1", "docSect1Type")>>)

docInternalS1Type ==
  Mixed(NoAttrs,
    <<Mix("para", "docParaType"), Mix("sect2", "docSect2Type")>>)

docInternalS2Type ==
  Mixed(NoAttrs,
    <<Mix("para", "docParaType"), Mix("sect3", "docSect3Type")>>)

docInternalS3Type ==
  Mixed(NoAttrs,
    <<Mix("para", "docParaType"), Mix("sect3", "docSect4Type")>>)

docInternalS4Type == Mixed(NoAttrs, <<Mix("para", "docParaType")>>)

docTitleType == MixedText(NoAttrs)

docParaType == MixedText(NoAttrs)

\* compound.py adds to docParaType the references, in the order of the text,
\* the lists of parameters and the simple sections.
docParaTypeSub ==
  [docParaType EXCEPT
     !.kids = <<[Many("ref", "docRefTextType") EXCEPT !.slot = "content"],
                Many("parameterlist", "docParamListType"),
                [Many("simplesect", "docSimpleSectType")
                   EXCEPT !.slot = "simplesects"]>>,
     !.text = @ \cup {"content"}]

docSimpleSectType ==
  Plain(Attrs({"kind"}, {}, {}),
    <<One("title", "docTitleType"), Many("para", "docParaType")>>)

docRefTextType == MixedText(Attrs({"kindref"}, {"refid", "external"}, {}))

docParamListType ==
  Plain(Attrs({"kind"}, {}, {}),
    <<Many("parameteritem", "docParamListItem")>>)

docParamListItem ==
  Plain(NoAttrs,
    <<Many("parameternamelist", "docParamNameList"),
      One("parameterdescription", "descriptionType")>>)

docParamNameList == Plain(NoAttrs, <<Many("parametername", "docParamName")>>)

docParamName ==
  Mixed(Attrs({"direction"}, {}, {}),
    <<Mix("ref", "docRefTextType")>>)

-----------------------------------------------------------------------------
(* indexsuper.py *)

index_DoxygenType ==
  Plain(Attrs({}, {"version"}, {}),
    <<Many("compound", "CompoundType")>>)

CompoundType ==
  Plain(Attrs({"kind"}, {"refid"}, {}),
    <<Str("name"), Many("member", "MemberType")>>)

MemberType == Plain(Attrs({"kind"}, {"refid"}, {}), <<Str("name")>>)

-----------------------------------------------------------------------------
(* The classes by name. *)
Classes ==
  [str |-> str, DoxygenType |-> DoxygenType,
   compounddefType |-> compounddefType,
   listofallmembersType |-> listofallmembersType,
   memberRefType |-> memberRefType, compoundRefType |-> compoundRefType,
   reimplementType |-> reimplementType, incType |-> incType,
   refType |-> refType, sectiondefType |-> sectiondefType,
   memberdefType |-> memberdefType, descriptionType |-> descriptionType,
   enumvalueType |-> enumvalueType,
   templateparamlistType |-> templateparamlistType, paramType |-> paramType,
   linkedTextType |-> linkedTextType, graphType |-> graphType,
   nodeType |-> nodeType, childnodeType |-> childnodeType,
   linkType |-> linkType, listingType |-> listingType,
   codelineType |-> codelineType, highlightType |-> highlightType,
   referenceType |-> referenceType, locationType |-> locationType,
   docSect1Type |-> docSect1Type, docSect2Type |-> docSect2Type,
   docSect3Type |-> docSect3Type, docSect4Type |-> docSect4Type,
   docInternalType |-> docInternalType,
   docInternalS1Type |-> docInternalS1Type,
   docInternalS2Type |-> docInternalS2Type,
   docInternalS3Type |-> docInternalS3Type,
   docInternalS4Type |-> docInternalS4Type, docTitleType |-> docTitleType,
   docParaType |-> docParaType, docParaTypeSub |-> docParaTypeSub,
   docSimpleSectType |-> docSimpleSectType, docRefTextType |-> docRefTextType,
   docParamListType |-> docParamListType,
   docParamListItem |-> docParamListItem,
   docParamNameList |-> docParamNameList, docParamName |-> docParamName,
   index_DoxygenType |-> index_DoxygenType, CompoundType |-> CompoundType,
   MemberType |-> MemberType]

\* factory() of a class returns an object of the subclass registered for it;
\* the subclasses of compound.py and index.py build what their superclass
\* builds, but for docParaTypeSub.
SubclassOf(c) == IF c = "docParaType" THEN "docParaTypeSub" ELSE c

=============================================================================
