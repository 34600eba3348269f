---------------------------- MODULE DoxygenBuild ----------------------------
(***************************************************************************)
(* How the classes of docs/doxygen/doxyxml/generated/ read a document:     *)
(* parse() makes an object for the root element and calls build(), which   *)
(* goes over the attributes and then over the children of the element; a   *)
(* child that buildChildren() has a branch for becomes an object by a      *)
(* recursive build(), which is attached once it has returned; every other  *)
(* child is left out with all that is in it.                               *)
(*                                                                         *)
(* The document is met node by node, in document order, by the builds on   *)
(* the stack; dom remembers what was met. A node is its place in dom, and  *)
(* objs[n] is the object made of element n. build() treats an object of a  *)
(* class the same way wherever it stands, so documents may start at any    *)
(* class in Roots, which lets small documents reach every class.           *)
(***************************************************************************)
EXTENDS Naturals, Sequences

CONSTANTS
  Schema,     \* the classes by name, each a record as in DoxygenSchema
  Subclass(_),\* the subclass that compound.py and index.py register
  Roots,      \* the classes a document may start with
  MaxNodes    \* bound: nodes of a document

VARIABLES
  subclassed, \* whether the subclasses are registered: they are when the
              \* package is used, and are not in main() of compoundsuper.py
  dom,        \* the nodes met: [kind, tag, parent]; history
  objs,       \* the objects, in step with dom
  stack,      \* the elements whose build() is active, the innermost last
  exc         \* the exception that ended the parse, or "none"

vars == <<subclassed, dom, objs, stack, exc>>

TextKinds == {"text", "cdata", "comment"}
Kids(c) == {Schema[c].kids[k] : k \in DOMAIN Schema[c].kids}
\* The branches of buildChildren() by the tag of the child.
Branches ==
  [c \in DOMAIN Schema |->
     [tag \in {kid.tag : kid \in Kids(c)} |->
        CHOOSE kid \in Kids(c) : kid.tag = tag]]
Tags(c) == DOMAIN Branches[c]
KidOf(c, tag) == Branches[c][tag]
TextSlots(c, kind) == CASE kind = "text"    -> Schema[c].text
                        [] kind = "cdata"   -> Schema[c].cdata
                        [] kind = "comment" -> Schema[c].comment
\* The lists of an object: one for each field, and those of its text.
Slots == [c \in DOMAIN Schema |-> {kid.slot : kid \in Kids(c)} \cup
                                   UNION {TextSlots(c, kind) : kind \in TextKinds}]
\* Every class that is named exists, and what a class assigns to a field it
\* neither appends to a list of that name nor takes for text.
ASSUME SchemaAssumption ==
  /\ Roots \subseteq DOMAIN Schema
  /\ \A c \in DOMAIN Schema :
       /\ Subclass(c) \in DOMAIN Schema
       /\ \A kid \in Kids(c) :
            /\ kid.cls \in DOMAIN Schema /\ kid.how \in {"one", "many"}
            /\ \A other \in Kids(c) : kid.slot = other.slot => kid.how = other.how
            /\ \A kind \in TextKinds :
                 kid.slot \in TextSlots(c, kind) => kid.how = "many"

\* An attribute that int() may refuse.
HasIntegers(c) == Schema[c].attrs.int # {}

-----------------------------------------------------------------------------
Factory(c) == IF subclassed THEN Subclass(c) ELSE c

\* __init__() of a class, called by factory() without arguments: every field
\* is None or an empty list.
NewObject(c) == [cls |-> c, held |-> [s \in Slots[c] |-> <<>>]]
NoObject == [cls |-> "none", held |-> <<>>]

Top == stack[Len(stack)]

Init ==
  /\ subclassed \in BOOLEAN
  /\ \E c \in Roots :
       /\ dom = <<[kind |-> "element", tag |-> "root", parent |-> 0]>>
       /\ objs = <<NewObject(Factory(c))>>
  /\ stack = <<1>>
  /\ exc = "none"

Met(kind, tag) ==
  dom' = Append(dom, [kind |-> kind, tag |-> tag, parent |-> Top])

\* buildChildren() of the innermost object for a node of text. In a text
\* element the loop of its parent joins the text of all its children.
ReadText(kind) ==
  /\ stack # <<>> /\ Len(dom) < MaxNodes
  /\ Met(kind, "")
  /\ objs' = Append(
       [objs EXCEPT ![Top].held =
          [s \in DOMAIN @ |-> IF s \in TextSlots(objs[Top].cls, kind)
                              THEN Append(@[s], Len(dom) + 1) ELSE @[s]]],
       NoObject)
  /\ UNCHANGED <<subclassed, stack, exc>>

\* An element with a branch in buildChildren(): its object is made, and its
\* build() starts.
OpenElement(tag) ==
  /\ stack # <<>> /\ Len(dom) < MaxNodes
  /\ tag \in Tags(objs[Top].cls)
  /\ Met("element", tag)
  /\ objs' = Append(objs, NewObject(Factory(KidOf(objs[Top].cls, tag).cls)))
  /\ stack' = Append(stack, Len(dom) + 1)
  /\ UNCHANGED <<subclassed, exc>>

\* An element without a branch: nothing of it is read.
SkipElement ==
  /\ stack # <<>> /\ Len(dom) < MaxNodes
  /\ objs[Top].cls # "str"
  /\ Met("skipped", "other")
  /\ objs' = Append(objs, NoObject)
  /\ UNCHANGED <<subclassed, stack, exc>>

\* A mutation: a list keeps its last child only.
StoredLast(kid, list, n) == <<n>>

\* Where the parent puts what was built: at the end of a list, or in a field,
\* in the place of what it held.
Stored(kid, list, n) == IF kid.how = "many" THEN Append(list, n) ELSE <<n>>

\* The end of an element: build() returns, and the branch of the parent's
\* buildChildren() that called it stores the object.
CloseElement ==
  /\ stack # <<>>
  /\ LET up == dom[Top].parent
     IN  objs' = IF up = 0 THEN objs
                 ELSE LET kid == KidOf(objs[up].cls, dom[Top].tag)
                      IN  [objs EXCEPT ![up].held[kid.slot] =
                             Stored(kid, @, Top)]
  /\ stack' = SubSeq(stack, 1, Len(stack) - 1)
  /\ UNCHANGED <<subclassed, dom, exc>>

\* An exception leaves every build() on the stack, and parse().
Raise(e) ==
  /\ exc' = e
  /\ stack' = <<>>
  /\ UNCHANGED <<subclassed, dom, objs>>

\* An attribute that should be an integer and is not.
BadInteger(tag) ==
  /\ stack # <<>> /\ Len(dom) < MaxNodes
  /\ tag \in Tags(objs[Top].cls)
  /\ HasIntegers(Factory(KidOf(objs[Top].cls, tag).cls))
  /\ Raise("ValueError")

\* An element inside a text element: its nodeValue is None, which is no text.
ElementInText ==
  /\ stack # <<>> /\ Len(dom) < MaxNodes
  /\ objs[Top].cls = "str"
  /\ Raise("TypeError")

AllTags == UNION {Tags(c) : c \in DOMAIN Schema}

Next ==
  \/ \E kind \in TextKinds : ReadText(kind)
  \/ \E tag \in AllTags : OpenElement(tag) \/ BadInteger(tag)
  \/ SkipElement
  \/ CloseElement
  \/ ElementInText

Spec == Init /\ [][Next]_vars

-----------------------------------------------------------------------------
Nodes == DOMAIN dom
Active(n) == \E k \in DOMAIN stack : stack[k] = n
Children(n) == {m \in Nodes : dom[m].parent = n}

\* What a slot of object n should hold: the children of the element that the
\* class puts there, those still being built left out.
Expected(n, s) ==
  {m \in Children(n) :
     \/ dom[m].kind \in TextKinds /\ s \in TextSlots(objs[n].cls, dom[m].kind)
     \/ /\ dom[m].kind = "element" /\ ~Active(m)
        /\ KidOf(objs[n].cls, dom[m].tag).slot = s}

\* A field holds one child only.
OneChild == [c \in DOMAIN Schema |->
               {kid.slot : kid \in {k \in Kids(c) : k.how = "one"}}]

\* Each list of an object holds the children it is for, all of them and each
\* once, in the order of the document, and a field holds the last one: with
\* the stack of active builds, no child of an element is taken for a child of
\* another, and none is lost when it is attached after its own children have
\* been built (build() and buildChildren() of every class). An exception
\* takes all the objects with it.
ListsAreTheChildren ==
  exc = "none" =>
    \A n \in Nodes : \A s \in DOMAIN objs[n].held :
      LET list == objs[n].held[s]
          due  == Expected(n, s)
      IN  /\ \A p, q \in DOMAIN list : p < q => list[p] < list[q]
          /\ IF s \in OneChild[objs[n].cls]
             THEN /\ Len(list) = IF due = {} THEN 0 ELSE 1
                  /\ \A p \in DOMAIN list : /\ list[p] \in due
                                            /\ \A m \in due : m <= list[p]
             ELSE {list[p] : p \in DOMAIN list} = due

=============================================================================
