---------------------------- MODULE DoxygenText -----------------------------
(***************************************************************************)
(* What is taken out of the objects that DoxygenBuild makes: the text of a *)
(* description (docs/doxygen/doxyxml/text.py), and what export() writes.   *)
(***************************************************************************)
EXTENDS DoxygenBuild, Lists, SequencesExt

CONSTANT Prose \* the classes that the text of a description is read by

\* The objects a description is asked of, and the elements below them that
\* are read for other purposes.
Descriptions == {"descriptionType", "docTitleType", "docParamName", "docParaTypeSub"}
Lost == {"parameterlist", "simplesect"}

\* The list that has the text of a class.
ContentOf(c) == IF "content" \in Slots[c] THEN "content" ELSE "content_"

\* What a class of Prose reads is in that list, but for comments and what is
\* lost, and its elements are of these classes again.
ASSUME ProseAssumption ==
  /\ Descriptions \subseteq Prose /\ Prose \subseteq DOMAIN Schema \ {"str"}
  /\ \A c \in Prose :
       /\ ContentOf(c) \in TextSlots(c, "text") \ TextSlots(c, "comment")
       /\ \A kid \in Kids(c) :
            IF kid.tag \in Lost THEN kid.slot # ContentOf(c)
            ELSE kid.slot = ContentOf(c) /\ Subclass(kid.cls) \in Prose

\* What objects are made of without the subclasses. A class of text has no
\* branches, one of mixed content has one list, and any other one has no text
\* and a list for each branch.
Generated == Roots \cup UNION {{kid.cls : kid \in Kids(c)} : c \in DOMAIN Schema}
ASSUME WritingAssumption ==
  \A c \in Generated \ {"str"} :
    LET kids == Schema[c].kids
    IN  /\ kids \in Seq(Kids(c))
        /\ \A i, j \in DOMAIN kids : kids[i].tag = kids[j].tag => i = j
        /\ \A kid \in Kids(c) : kid.tag # ""
        /\ IF "valueOf_" \in Slots[c]
           THEN /\ Slots[c] \subseteq {"valueOf_", "content_"} /\ kids = <<>>
                /\ "valueOf_" \in TextSlots(c, "text")
                /\ \A kind \in TextKinds :
                     "content_" \in TextSlots(c, kind) => kind = "text"
           ELSE \/ Slots[c] = {"content_"}
                \/ /\ "content_" \notin Slots[c]
                   /\ \A kind \in TextKinds : TextSlots(c, kind) = {}
                   /\ \A i, j \in DOMAIN kids : kids[i].slot = kids[j].slot => i = j

Holds(n, s) == s \in DOMAIN objs[n].held

\* A mutation: content_ comes before content.
Contents_(n) == IF Holds(n, "content_") THEN objs[n].held["content_"]
                ELSE IF Holds(n, "content") THEN objs[n].held["content"]
                ELSE <<>>

\* The list description_bit() goes over: content comes before content_.
Contents(n) == IF Holds(n, "content") THEN objs[n].held["content"]
               ELSE IF Holds(n, "content_") THEN objs[n].held["content_"]
               ELSE <<>>

\* description_bit(): the text of an object, in the order of its list. A
\* text node and a text element give their strings; an object with neither
\* list has nothing to give, and is an exception.
description_bit[n \in Nat] ==
  IF n > Len(dom) \/ n = 0 THEN <<>>
  ELSE IF dom[n].kind \in TextKinds THEN <<n>>
  ELSE IF objs[n].cls = "str" THEN objs[n].held["value"]
  ELSE FlattenSeq([k \in DOMAIN Contents(n) |-> description_bit[Contents(n)[k]]])

\* description_bit() raises for an object that is no string and has no list.
Describable(n) == \/ dom[n].kind \in TextKinds
                  \/ objs[n].cls = "str"
                  \/ Holds(n, "content") \/ Holds(n, "content_")

-----------------------------------------------------------------------------
Entry(tag, n, form) == [tag |-> tag, node |-> n, form |-> form]

\* A mutation: the text of mixed content is written before its elements.
WrittenTextFirst(n) ==
  LET texts == {m \in Nodes : dom[m].kind \in TextKinds}
      list == objs[n].held["content_"]
      sorted == Select(list, texts) \o Select(list, Nodes \ texts)
  IN  [k \in DOMAIN sorted |->
         LET m == sorted[k]
         IN  IF m \in texts THEN Entry("", m, "raw")
             ELSE Entry(dom[m].tag, m, KidOf(objs[n].cls, dom[m].tag).form)]

\* Mixed content is written item by item, under the name of the item.
WrittenMixed(n) ==
  LET list == objs[n].held["content_"]
  IN  [k \in DOMAIN list |->
         LET m == list[k]
         IN  IF dom[m].kind \in TextKinds THEN Entry("", m, "raw")
             ELSE Entry(dom[m].tag, m, KidOf(objs[n].cls, dom[m].tag).form)]

\* Other classes are written field by field.
WrittenFields(n) ==
  LET kids == Schema[objs[n].cls].kids
      held == objs[n].held
  IN  FlattenSeq([i \in DOMAIN kids |->
        [k \in DOMAIN held[kids[i].slot] |->
           Entry(kids[i].tag, held[kids[i].slot][k], kids[i].form)]])

\* export() and exportChildren(): the children written for an object, in
\* order. The text of a text class is quoted and written in one piece, also
\* where there is mixed content.
Written(n) ==
  IF Holds(n, "valueOf_")
  THEN [k \in DOMAIN objs[n].held["valueOf_"] |->
          Entry("", objs[n].held["valueOf_"][k], "quoted")]
  ELSE IF Holds(n, "content_") THEN WrittenMixed(n) ELSE WrittenFields(n)

-----------------------------------------------------------------------------
\* The elements above n, up to the root.
Above[n \in Nat] == IF n = 0 \/ n > Len(dom) THEN {}
                    ELSE {dom[n].parent} \cup Above[dom[n].parent]
Below(n) == {m \in Nodes : n \in Above[m]}
Finished(n) == dom[n].kind = "element" /\ ~Active(n) /\ stack = <<>>

\* A description gives its text in the order of the document, nothing twice,
\* and nothing is missing of a description whose document holds no element
\* the classes do not know, no CDATA section and no list of parameters or
\* simple section, which are read for other purposes: the order of content_
\* and content survives the nesting of builds, and content, where it is, is
\* as complete as content_ (text.py with docParaTypeSub).
DescriptionIsTheText ==
  \A n \in Nodes :
    (subclassed /\ exc = "none" /\ Finished(n) /\ objs[n].cls \in Descriptions)
    => LET text == description_bit[n]
           words == {m \in Below(n) : dom[m].kind = "text"}
           odd == {m \in Below(n) : \/ dom[m].kind \in {"skipped", "cdata"}
                                    \/ dom[m].tag \in Lost}
       IN  /\ \A m \in Below(n) :
                dom[m].kind = "element" => Describable(m) \/ odd # {}
           /\ \A p, q \in DOMAIN text : p < q => text[p] < text[q]
           /\ odd = {} => words = {text[p] : p \in DOMAIN text}

\* The list of a class that an entry is read into, by its tag or as text.
Goes(c, e, s) == IF e.tag = "" THEN s \in TextSlots(c, dom[e.node].kind)
                 ELSE e.tag \in Tags(c) /\ KidOf(c, e.tag).slot = s

\* What is read of a list of entries into slot s of an object of class c. A
\* class of text writes its quoted text once for two lists, of which mixed
\* content has text nodes only.
Reread(c, w, s) ==
  LET back == IF s = "content_" /\ "valueOf_" \in Slots[c]
              THEN Select(w, {e \in Range(w) : dom[e.node].kind = "text"})
              ELSE Select(w, {e \in Range(w) : Goes(c, e, s)})
  IN  [k \in DOMAIN back |-> back[k].node]

\* What export() writes, build() reads back: under the tag it is written
\* with, every child goes to the list it came from, in the same order, and
\* no child of the document that was kept is left out (compoundsuper.py on
\* its own; the values of text elements change, see the README).
RereadGivesTheSame ==
  \A n \in Nodes :
    (~subclassed /\ exc = "none" /\ Finished(n) /\ objs[n].cls # "str")
    => LET c == objs[n].cls
       IN  \A s \in Slots[c] : Reread(c, Written(n), s) = objs[n].held[s]

=============================================================================
