--------------------------- MODULE DoxygenProofs ----------------------------
(***************************************************************************)
(* For every schema, not only that of doxygen's XML, and documents of any  *)
(* size: the lists that build() leaves in the objects hold the children of *)
(* the elements, all of them, once, and in the order of the document; what *)
(* export() writes is read again; and the text of a description is that of *)
(* its part of the document.                                               *)
(*                                                                         *)
(* A child is attached when its own build() returns, and all that was met  *)
(* while it was active is below it (Nesting); so it is later in the        *)
(* document than all that its parent has been given before. The same order *)
(* (Preorder) keeps the texts of two children apart, and the classes of    *)
(* the objects (ObjectClasses) say which lists are written, and read.      *)
(***************************************************************************)
EXTENDS DoxygenText, ListProofs, SequenceTheorems, TLAPS

-----------------------------------------------------------------------------
(* The inductive invariant.                                                *)

\* The fields and lists of some object.
SlotNames == UNION {Slots[c] : c \in DOMAIN Schema}

\* What the nodes are called.
Labels == AllTags \cup {"root", "other", ""}
Node == [kind : TextKinds \cup {"element", "skipped"}, tag : Labels, parent : Nat]
Object == [cls : DOMAIN Schema \cup {"none"},
           held : UNION {[names -> Seq(Nat)] : names \in SUBSET SlotNames}]

BuildTypes ==
  /\ subclassed \in BOOLEAN
  /\ dom \in Seq(Node) /\ objs \in Seq(Object)
  /\ Len(objs) = Len(dom) /\ Len(dom) > 0
  /\ stack \in Seq(Nat) /\ \A k \in DOMAIN stack : stack[k] \in Nodes

\* The nodes are a tree whose inner nodes are elements that have an object of
\* their class, with a branch for each element below them.
Tree ==
  /\ \A n \in Nodes :
       IF dom[n].kind = "element"
       THEN /\ objs[n].cls \in DOMAIN Schema
            /\ DOMAIN objs[n].held = Slots[objs[n].cls]
       ELSE DOMAIN objs[n].held = {}
  /\ dom[1].parent = 0
  /\ \A n \in Nodes : n # 1 =>
       /\ dom[n].parent \in 1..(n - 1) /\ dom[dom[n].parent].kind = "element"
       /\ dom[n].kind = "element" => dom[n].tag \in Tags(objs[dom[n].parent].cls)

\* The active builds are nested: what was met since one of them began is below
\* its element. After an exception none is active.
Nesting ==
  /\ \A j, k \in DOMAIN stack : j < k => stack[j] < stack[k]
  /\ \A k \in DOMAIN stack : dom[stack[k]].kind = "element"
  /\ \A k \in DOMAIN stack, n \in Nodes : n > stack[k] => dom[n].parent >= stack[k]
  /\ exc # "none" => stack = <<>>

\* A list holds what is due in order, and a field the last of it.
Fits(list, due, one) ==
  /\ Increasing(list)
  /\ IF one
     THEN /\ Len(list) = IF due = {} THEN 0 ELSE 1
          /\ \A p \in DOMAIN list : /\ list[p] \in due
                                    /\ \A m \in due : m <= list[p]
     ELSE {list[p] : p \in DOMAIN list} = due

HeldFits ==
  exc = "none" =>
    \A n \in Nodes : \A s \in DOMAIN objs[n].held :
      Fits(objs[n].held[s], Expected(n, s), s \in OneChild[objs[n].cls])

BuildInv == BuildTypes /\ Tree /\ Nesting /\ HeldFits

-----------------------------------------------------------------------------
(* Lists.                                                                  *)

\* An empty list holds nothing.
LEMMA FitsEmpty == \A one \in BOOLEAN : Fits(<<>>, {}, one)
BY EmptySeq DEF Fits, Increasing

\* A later child at the end of a list.
LEMMA FitsAppend ==
  ASSUME NEW list \in Seq(Nat), NEW due, NEW n \in Nat, Fits(list, due, FALSE),
         \A m \in due : m < n
  PROVE  Append(list, n) \in Seq(Nat) /\ Fits(Append(list, n), due \cup {n}, FALSE)
<1> DEFINE t == Append(list, n)  l == Len(list)
<1>1. /\ t \in Seq(Nat) /\ l \in Nat /\ Len(t) = l + 1 /\ t[l + 1] = n
      /\ \A k \in 1..l : t[k] = list[k] /\ list[k] \in Nat
      /\ DOMAIN list = 1..l
  OBVIOUS
<1>2. DOMAIN t = 1..(l + 1)
  BY <1>1
<1> HIDE DEF t, l
<1>3. 1..(l + 1) = (1..l) \cup {l + 1}
  BY <1>1
<1>4. {list[p] : p \in 1..l} = due
  BY <1>1 DEF Fits
<1>5. {t[p] : p \in DOMAIN t} = due \cup {n}
  BY <1>1, <1>2, <1>3, <1>4
<1>6. ASSUME NEW p \in DOMAIN t, NEW q \in DOMAIN t, p < q  PROVE t[p] < t[q]
  <2>1. p \in 1..l
    BY <1>1, <1>2, <1>6
  <2>2. CASE q \in 1..l
    BY <1>1, <1>6, <2>1, <2>2 DEF Fits, Increasing
  <2>3. CASE q = l + 1
    BY <1>1, <1>4, <2>1, <2>3
  <2>. QED  BY <1>2, <1>3, <2>2, <2>3
<1>7. Fits(t, due \cup {n}, FALSE)
  BY <1>5, <1>6 DEF Fits, Increasing
<1>. QED
  BY <1>1, <1>7 DEF t

\* A later child in the place of the one before it.
LEMMA FitsOne ==
  ASSUME NEW due, NEW n \in Nat, \A m \in due : m < n /\ m \in Nat
  PROVE  <<n>> \in Seq(Nat) /\ Fits(<<n>>, due \cup {n}, TRUE)
<1> DEFINE t == <<n>>
<1>1. t \in Seq(Nat) /\ Len(t) = 1 /\ DOMAIN t = {1} /\ t[1] = n
  OBVIOUS
<1> HIDE DEF t
<1>2. \A m \in due \cup {n} : m <= n
  OBVIOUS
<1>3. Fits(t, due \cup {n}, TRUE)
  BY <1>1, <1>2 DEF Fits, Increasing
<1>. QED
  BY <1>1, <1>3 DEF t

-----------------------------------------------------------------------------
(* The schema.                                                             *)

\* A tag of a class has a branch, whose slot is one of the class.
LEMMA Branch ==
  ASSUME NEW c \in DOMAIN Schema, NEW tag \in Tags(c)
  PROVE  /\ KidOf(c, tag) \in Kids(c) /\ KidOf(c, tag).tag = tag
         /\ KidOf(c, tag).slot \in Slots[c]
         /\ KidOf(c, tag).cls \in DOMAIN Schema /\ KidOf(c, tag).how \in {"one", "many"}
         /\ KidOf(c, tag).slot \in OneChild[c] <=> KidOf(c, tag).how = "one"
<1>1. /\ DOMAIN Branches[c] = {kid.tag : kid \in Kids(c)}
      /\ \A t \in DOMAIN Branches[c] : Branches[c][t] = CHOOSE kid \in Kids(c) : kid.tag = t
  BY DEF Branches
<1>2. KidOf(c, tag) = CHOOSE kid \in Kids(c) : kid.tag = tag
  BY <1>1 DEF KidOf, Tags
<1>3. \E kid \in Kids(c) : kid.tag = tag
  BY <1>1 DEF Tags
<1>4. KidOf(c, tag) \in Kids(c) /\ KidOf(c, tag).tag = tag
  BY <1>2, <1>3
<1>5. KidOf(c, tag).slot \in Slots[c]
  BY <1>4 DEF Slots
<1>6. KidOf(c, tag).cls \in DOMAIN Schema /\ KidOf(c, tag).how \in {"one", "many"}
  BY <1>4, SchemaAssumption
<1>7. KidOf(c, tag).slot \in OneChild[c] <=> KidOf(c, tag).how = "one"
  <2>1. OneChild[c] = {kid.slot : kid \in {k \in Kids(c) : k.how = "one"}}
    BY DEF OneChild
  <2>2. \A kid \in Kids(c), other \in Kids(c) : kid.slot = other.slot => kid.how = other.how
    BY SchemaAssumption
  <2> HIDE DEF KidOf, Kids
  <2>. QED  BY <1>4, <2>1, <2>2
<1>. QED
  BY <1>4, <1>5, <1>6, <1>7

\* No text goes to a field that holds one child.
LEMMA TextGoesToLists ==
  ASSUME NEW c \in DOMAIN Schema, NEW kind \in TextKinds, NEW s \in TextSlots(c, kind)
  PROVE  s \notin OneChild[c]
<1>1. OneChild[c] = {kid.slot : kid \in {k \in Kids(c) : k.how = "one"}}
  BY DEF OneChild
<1>2. \A kid \in Kids(c) : kid.slot = s => kid.how = "many"
  BY SchemaAssumption
<1>. QED
  BY <1>1, <1>2

\* A new object is an object, with empty lists.
LEMMA NewObjects ==
  ASSUME NEW c \in DOMAIN Schema
  PROVE  /\ NewObject(c) \in Object /\ NewObject(c).cls = c
         /\ DOMAIN NewObject(c).held = Slots[c]
         /\ \A s \in Slots[c] : NewObject(c).held[s] = <<>>
<1>1. Slots[c] \subseteq SlotNames
  BY DEF SlotNames
<1>2. [s \in Slots[c] |-> <<>>] \in [Slots[c] -> Seq(Nat)]
  BY EmptySeq
<1>3. [s \in Slots[c] |-> <<>>] \in UNION {[names -> Seq(Nat)] : names \in SUBSET SlotNames}
  BY <1>1, <1>2
<1>. QED
  BY <1>3 DEF NewObject, Object

\* What stands for no object has no lists.
LEMMA NoObjects == NoObject \in Object /\ DOMAIN NoObject.held = {}
<1>1. DOMAIN <<>> = {} /\ <<>> \in [{} -> Seq(Nat)]
  OBVIOUS
<1>2. <<>> \in UNION {[names -> Seq(Nat)] : names \in SUBSET SlotNames}
  BY <1>1
<1>. QED
  BY <1>1, <1>2 DEF NoObject, Object

\* The lists of an object are sequences, and another one in the place of one
\* leaves an object.
LEMMA HeldLists ==
  ASSUME NEW o \in Object
  PROVE  /\ \A s \in DOMAIN o.held : o.held[s] \in Seq(Nat)
         /\ \A h : (DOMAIN h = DOMAIN o.held /\ h = [s \in DOMAIN h |-> h[s]]
                    /\ \A s \in DOMAIN h : h[s] \in Seq(Nat))
                   => [o EXCEPT !.held = h] \in Object
<1>1. PICK names \in SUBSET SlotNames : o.held \in [names -> Seq(Nat)]
  BY DEF Object
<1>2. \A s \in DOMAIN o.held : o.held[s] \in Seq(Nat)
  BY <1>1
<1>3. ASSUME NEW h, DOMAIN h = DOMAIN o.held, h = [s \in DOMAIN h |-> h[s]],
             \A s \in DOMAIN h : h[s] \in Seq(Nat)
      PROVE  [o EXCEPT !.held = h] \in Object
  <2>1. h \in [names -> Seq(Nat)]
    BY <1>1, <1>3
  <2>2. h \in UNION {[nn -> Seq(Nat)] : nn \in SUBSET SlotNames}
    BY <2>1
  <2>. QED  BY <2>2 DEF Object
<1>. QED
  BY <1>2, <1>3

-----------------------------------------------------------------------------
(* The nodes.                                                              *)

\* The innermost build is the latest that is active.
LEMMA Innermost ==
  ASSUME BuildTypes, Nesting, stack # <<>>
  PROVE  /\ Len(stack) \in Nat /\ Len(stack) > 0 /\ Len(stack) \in DOMAIN stack
         /\ Top = stack[Len(stack)] /\ Top \in Nodes /\ Top \in Nat /\ Active(Top)
         /\ dom[Top].kind = "element" /\ \A k \in DOMAIN stack : stack[k] <= Top
         /\ exc = "none"
<1>1. Len(stack) \in Nat /\ Len(stack) > 0 /\ DOMAIN stack = 1..Len(stack)
  BY DEF BuildTypes
<1>2. Len(stack) \in DOMAIN stack
  BY <1>1
<1>3. Top = stack[Len(stack)] /\ Top \in Nodes /\ Top \in Nat /\ Active(Top)
  BY <1>2 DEF Top, Active, BuildTypes
<1>4. dom[Top].kind = "element" /\ exc = "none"
  BY <1>2, <1>3 DEF Nesting
<1>5. ASSUME NEW k \in DOMAIN stack  PROVE stack[k] <= Top
  <2>1. k = Len(stack) \/ k < Len(stack)
    BY <1>1
  <2>2. k < Len(stack) => stack[k] < Top
    BY <1>2, <1>3 DEF Nesting
  <2>3. stack[k] \in Nat
    BY DEF BuildTypes
  <2>. QED  BY <1>3, <2>1, <2>2, <2>3
<1>. QED
  BY <1>1, <1>2, <1>3, <1>4, <1>5

\* A node that is met is the last child of the innermost element.
LEMMA NodeMet ==
  ASSUME BuildTypes, Tree, Nesting, stack # <<>>,
         NEW kind \in TextKinds \cup {"element", "skipped"},
         NEW tag \in Labels, Met(kind, tag),
         NEW new, new = Len(dom) + 1
  PROVE  /\ new \in Nat /\ new \notin Nodes /\ Nodes' = Nodes \cup {new}
         /\ Nodes = 1..Len(dom) /\ Len(dom') = new /\ dom' \in Seq(Node)
         /\ \A n \in Nodes : n \in Nat /\ n < new /\ dom'[n] = dom[n]
         /\ dom'[new] = [kind |-> kind, tag |-> tag, parent |-> Top]
         /\ \A n \in Nodes : Children(n)' = IF n = Top THEN Children(n) \cup {new}
                                            ELSE Children(n)
         /\ Children(new)' = {}
<1> DEFINE d == [kind |-> kind, tag |-> tag, parent |-> Top]
<1>1. Top \in Nodes /\ Top \in Nat
  BY Innermost
<1>2. d \in Node
  BY <1>1 DEF Node
<1>3. dom \in Seq(Node) /\ dom' = Append(dom, d)
  BY DEF BuildTypes, Met
<1>4. d.parent = Top
  OBVIOUS
<1> HIDE DEF d
<1>5. /\ Len(dom) \in Nat /\ Nodes = 1..Len(dom) /\ dom' \in Seq(Node) /\ Len(dom') = Len(dom) + 1
      /\ \A n \in 1..Len(dom) : dom'[n] = dom[n]
      /\ dom'[Len(dom) + 1] = d
  BY <1>2, <1>3 DEF Nodes
<1>6. DOMAIN dom' = 1..(Len(dom) + 1)
  BY <1>5
<1>7. 1..(Len(dom) + 1) = 1..Len(dom) \cup {Len(dom) + 1} /\ Len(dom) + 1 \notin 1..Len(dom)
  BY <1>5
<1>8. Nodes' = Nodes \cup {new} /\ new \notin Nodes /\ dom'[new] = d
  BY <1>5, <1>6, <1>7 DEF Nodes
<1>9. ASSUME NEW n \in Nodes
      PROVE  Children(n)' = IF n = Top THEN Children(n) \cup {new} ELSE Children(n)
  <2>1. Children(n)' = {m \in Nodes \cup {new} : dom'[m].parent = n}
    BY <1>8 DEF Children
  <2>2. \A m \in Nodes : dom'[m].parent = dom[m].parent
    BY <1>5
  <2>3. dom'[new].parent = Top
    BY <1>4, <1>8
  <2>. QED  BY <2>1, <2>2, <2>3 DEF Children
<1>10. Children(new)' = {}
  <2>1. ASSUME NEW m \in Nodes'  PROVE dom'[m].parent # new
    <3>1. CASE m = new
      BY <1>1, <1>4, <1>8, <3>1
    <3>2. CASE m \in Nodes
      <4>1. dom[m].parent = 0 \/ dom[m].parent \in 1..(m - 1)
        BY <3>2 DEF Tree
      <4>2. new > m /\ new > 0
        BY <1>5, <3>2
      <4>. QED  BY <1>5, <3>2, <4>1, <4>2
    <3>. QED  BY <1>8, <3>1, <3>2
  <2>. QED  BY <2>1 DEF Children
<1>11. \A n \in Nodes : n \in Nat /\ n < new /\ dom'[n] = dom[n]
  BY <1>5
<1>12. new \in Nat /\ Len(dom') = new
  BY <1>5
<1>. QED
  BY <1>5, <1>8, <1>9, <1>10, <1>11, <1>12 DEF d

\* So there is one node more.
LEMMA NodesGrow ==
  ASSUME BuildTypes, Tree, Nesting, stack # <<>>,
         NEW kind \in TextKinds \cup {"element", "skipped"},
         NEW tag \in Labels, Met(kind, tag),
         NEW new, new = Len(dom) + 1
  PROVE  /\ Nodes' = Nodes \cup {new} /\ Len(dom') = new /\ dom' \in Seq(Node) /\ new \in Nat
         /\ \A n \in Nodes : n < new
<1>1. new \in Nat /\ Nodes' = Nodes \cup {new} /\ \A n \in Nodes : n < new
  BY NodeMet
<1>2. Len(dom') = new /\ dom' \in Seq(Node)
  BY NodeMet
<1>. QED
  BY <1>1, <1>2

\* The tree grows by a node that is met.
LEMMA TreeGrows ==
  ASSUME BuildTypes, Tree, Nesting, stack # <<>>,
         NEW kind \in TextKinds \cup {"element", "skipped"},
         NEW tag \in Labels, Met(kind, tag),
         NEW new, new = Len(dom) + 1,
         \A n \in Nodes : /\ objs'[n].cls = objs[n].cls
                          /\ DOMAIN objs'[n].held = DOMAIN objs[n].held,
         IF kind = "element"
         THEN /\ objs'[new].cls \in DOMAIN Schema /\ tag \in Tags(objs[Top].cls)
              /\ DOMAIN objs'[new].held = Slots[objs'[new].cls]
         ELSE DOMAIN objs'[new].held = {}
  PROVE  Tree'
<1>1. Top \in Nodes /\ Top \in Nat /\ dom[Top].kind = "element"
  BY Innermost
<1>2. /\ new \in Nat /\ new \notin Nodes /\ Nodes' = Nodes \cup {new}
      /\ Nodes = 1..Len(dom) /\ Len(dom) \in Nat
      /\ \A n \in Nodes : n \in Nat /\ n < new /\ dom'[n] = dom[n]
      /\ dom'[new] = [kind |-> kind, tag |-> tag, parent |-> Top]
  <2>1. Len(dom) \in Nat
    BY DEF BuildTypes
  <2>. QED  BY <2>1, NodeMet
<1>3. dom'[new].kind = kind /\ dom'[new].tag = tag /\ dom'[new].parent = Top
  BY <1>2
<1>4. ASSUME NEW n \in Nodes'
      PROVE  IF dom'[n].kind = "element"
             THEN /\ objs'[n].cls \in DOMAIN Schema
                  /\ DOMAIN objs'[n].held = Slots[objs'[n].cls]
             ELSE DOMAIN objs'[n].held = {}
  <2>1. CASE n \in Nodes
    BY <1>2, <2>1 DEF Tree
  <2>2. CASE n = new
    BY <1>3, <2>2
  <2>. QED  BY <1>2, <2>1, <2>2
<1>5. dom'[1].parent = 0
  <2>1. 1 \in Nodes
    BY <1>1, <1>2
  <2>. QED  BY <1>2, <2>1 DEF Tree
<1>6. ASSUME NEW n \in Nodes', n # 1
      PROVE  /\ dom'[n].parent \in 1..(n - 1) /\ dom'[dom'[n].parent].kind = "element"
             /\ dom'[n].kind = "element" => dom'[n].tag \in Tags(objs'[dom'[n].parent].cls)
  <2>1. CASE n \in Nodes
    <3>1. /\ dom[n].parent \in 1..(n - 1) /\ dom[dom[n].parent].kind = "element"
          /\ dom[n].kind = "element" => dom[n].tag \in Tags(objs[dom[n].parent].cls)
      BY <1>6, <2>1 DEF Tree
    <3>2. dom[n].parent \in Nodes
      BY <1>2, <2>1, <3>1
    <3>. QED  BY <1>2, <2>1, <3>1, <3>2
  <2>2. CASE n = new
    <3>1. Top \in 1..(new - 1)
      BY <1>1, <1>2
    <3>2. dom'[Top] = dom[Top] /\ objs'[Top].cls = objs[Top].cls
      BY <1>1, <1>2
    <3>. QED  BY <1>1, <1>3, <2>2, <3>1, <3>2
  <2>. QED  BY <1>2, <2>1, <2>2
<1>. QED
  BY <1>4, <1>5, <1>6 DEF Tree

\* What is met is below the active elements, whether or not a build of it begins.
LEMMA NestingGrows ==
  ASSUME BuildTypes, Tree, Nesting, stack # <<>>,
         NEW kind \in TextKinds \cup {"element", "skipped"},
         NEW tag \in Labels, Met(kind, tag),
         NEW new, new = Len(dom) + 1, exc' = exc,
         stack' = stack \/ (stack' = Append(stack, new) /\ kind = "element")
  PROVE  /\ Nesting' /\ stack' \in Seq(Nat) /\ \A k \in DOMAIN stack' : stack'[k] \in Nodes'
         /\ \A n \in Nodes : Active(n)' <=> Active(n)
         /\ Active(new)' <=> stack' # stack
<1>1. /\ Top \in Nat /\ exc = "none" /\ \A k \in DOMAIN stack : stack[k] <= Top
  BY Innermost
<1>2. /\ new \in Nat /\ new \notin Nodes /\ Nodes' = Nodes \cup {new}
      /\ \A n \in Nodes : n \in Nat /\ n < new /\ dom'[n] = dom[n]
      /\ dom'[new] = [kind |-> kind, tag |-> tag, parent |-> Top]
  BY NodeMet
<1>3. dom'[new].kind = kind /\ dom'[new].parent = Top
  BY <1>2
<1>4. /\ stack \in Seq(Nat) /\ Len(stack) \in Nat /\ DOMAIN stack = 1..Len(stack)
      /\ \A k \in DOMAIN stack : /\ stack[k] \in Nodes /\ stack[k] \in Nat
                                 /\ stack[k] < new /\ dom[stack[k]].kind = "element"
  BY <1>2 DEF BuildTypes, Nesting
<1>5. \A j, k \in DOMAIN stack : j < k => stack[j] < stack[k]
  BY DEF Nesting
<1>6. ASSUME NEW k \in DOMAIN stack, NEW n \in Nodes', n > stack[k]
      PROVE  dom'[n].parent >= stack[k]
  <2>1. CASE n \in Nodes
    BY <1>2, <1>6, <2>1 DEF Nesting
  <2>2. CASE n = new
    BY <1>1, <1>3, <1>4, <2>2
  <2>. QED  BY <1>2, <2>1, <2>2
<1>7. CASE stack' = stack
  <2>1. Nesting'
    BY <1>1, <1>2, <1>4, <1>5, <1>6, <1>7 DEF Nesting
  <2>2. /\ \A n \in Nodes : Active(n)' <=> Active(n)
        /\ ~Active(new)'
    BY <1>2, <1>4, <1>7 DEF Active
  <2>. QED  BY <1>2, <1>4, <1>7, <2>1, <2>2
<1>8. CASE stack' = Append(stack, new) /\ kind = "element"
  <2> DEFINE l == Len(stack)
  <2>1. /\ stack' \in Seq(Nat) /\ DOMAIN stack' = 1..(l + 1) /\ stack'[l + 1] = new
        /\ \A k \in 1..l : stack'[k] = stack[k]
    BY <1>2, <1>4, <1>8
  <2>2. 1..(l + 1) = 1..l \cup {l + 1} /\ l \in Nat /\ l + 1 \notin 1..l
    BY <1>4
  <2> HIDE DEF l
  <2>3. DOMAIN stack = 1..l
    BY <1>4 DEF l
  <2>4. ASSUME NEW j \in DOMAIN stack', NEW k \in DOMAIN stack', j < k
        PROVE  stack'[j] < stack'[k]
    <3>1. j \in 1..l
      BY <2>1, <2>2, <2>4
    <3>2. CASE k \in 1..l
      BY <1>5, <2>1, <2>3, <2>4, <3>1, <3>2
    <3>3. CASE k = l + 1
      BY <1>4, <2>1, <2>3, <3>1, <3>3
    <3>. QED  BY <2>1, <2>2, <3>2, <3>3
  <2>5. ASSUME NEW k \in DOMAIN stack'
        PROVE  /\ stack'[k] \in Nodes' /\ dom'[stack'[k]].kind = "element"
               /\ \A n \in Nodes' : n > stack'[k] => dom'[n].parent >= stack'[k]
    <3>1. CASE k \in 1..l
      BY <1>2, <1>4, <1>6, <2>1, <2>3, <3>1
    <3>2. CASE k = l + 1
      <4>1. \A n \in Nodes' : ~ (n > new)
        BY <1>2
      <4>. QED  BY <1>2, <1>3, <1>8, <2>1, <3>2, <4>1
    <3>. QED  BY <2>1, <2>2, <3>1, <3>2
  <2>6. Nesting'
    BY <1>1, <2>4, <2>5 DEF Nesting
  <2>7. \A n : Active(n)' <=> (Active(n) \/ n = new)
    BY <2>1, <2>2, <2>3 DEF Active
  <2>8. stack' # stack
    BY <2>1, <2>2, <2>3
  <2>. QED  BY <1>2, <2>1, <2>5, <2>6, <2>7, <2>8
<1>. QED
  BY <1>7, <1>8

\* What the objects of the nodes met before are due, when a node is met: one that
\* is text is due at its parent, another one is not, or not yet.
LEMMA DueGrows ==
  ASSUME BuildTypes, Tree, Nesting, stack # <<>>,
         NEW kind \in TextKinds \cup {"element", "skipped"},
         NEW tag \in Labels, Met(kind, tag), NEW new, new = Len(dom) + 1,
         \A n \in Nodes : objs'[n].cls = objs[n].cls,
         \A n \in Nodes : Active(n)' <=> Active(n),
         kind = "element" => Active(new)',
         NEW n \in Nodes, NEW s
  PROVE  Expected(n, s)' =
           IF n = Top /\ kind \in TextKinds /\ s \in TextSlots(objs[Top].cls, kind)
           THEN Expected(n, s) \cup {new} ELSE Expected(n, s)
<1> DEFINE Due(m) == \/ dom[m].kind \in TextKinds /\ s \in TextSlots(objs[n].cls, dom[m].kind)
                     \/ /\ dom[m].kind = "element" /\ ~Active(m)
                        /\ KidOf(objs[n].cls, dom[m].tag).slot = s
<1>1. /\ new \notin Nodes
      /\ \A m \in Nodes : dom'[m] = dom[m]
      /\ dom'[new] = [kind |-> kind, tag |-> tag, parent |-> Top]
      /\ Children(n)' = IF n = Top THEN Children(n) \cup {new} ELSE Children(n)
  BY NodeMet
<1>2. Children(n) \subseteq Nodes
  BY DEF Children
<1>3. objs'[n].cls = objs[n].cls
  OBVIOUS
<1>4. \A m \in Children(n) : Due(m)' <=> Due(m)
  <2>1. ASSUME NEW m \in Children(n)
        PROVE  dom'[m] = dom[m] /\ (Active(m)' <=> Active(m)) /\ m \in Nodes
    BY <1>1, <1>2
  <2>2. \A c, k : TextSlots(c, k)' = TextSlots(c, k) /\ KidOf(c, k)' = KidOf(c, k)
    BY DEF TextSlots, KidOf, Branches, Kids
  <2>. QED  BY <1>3, <2>1, <2>2
<1>5. Due(new)' <=> kind \in TextKinds /\ s \in TextSlots(objs[n].cls, kind)
  <2>1. dom'[new].kind = kind
    BY <1>1
  <2>2. kind \notin TextKinds \/ kind # "element"
    BY DEF TextKinds
  <2>. QED  BY <1>3, <2>1, <2>2
<1>6. Expected(n, s) = {m \in Children(n) : Due(m)}
  BY DEF Expected
<1>7. Expected(n, s)' = {m \in Children(n)' : Due(m)'}
  BY DEF Expected
<1> HIDE DEF Due
<1>. QED
  BY <1>1, <1>4, <1>5, <1>6, <1>7

\* Nothing is due at a node that is met.
LEMMA NothingDue ==
  ASSUME BuildTypes, Tree, Nesting, stack # <<>>,
         NEW kind \in TextKinds \cup {"element", "skipped"},
         NEW tag \in Labels, Met(kind, tag), NEW new, new = Len(dom) + 1, NEW s
  PROVE  Expected(new, s)' = {}
<1>1. Children(new)' = {}
  BY NodeMet
<1>. QED
  BY <1>1 DEF Expected

\* What is due at an object has been met.
LEMMA DueIsMet ==
  ASSUME BuildTypes, NEW n, NEW s
  PROVE  \A m \in Expected(n, s) : m \in Nodes /\ m \in Nat
BY DEF Expected, Children, Nodes, BuildTypes

-----------------------------------------------------------------------------
(* The steps.                                                              *)

\* An object keeps its class.
ClassesStay == \A n \in Nodes : objs'[n].cls = objs[n].cls

\* An object is made for each node.
LEMMA ObjectsGrow ==
  ASSUME BuildTypes, NEW x \in Seq(Object), Len(x) = Len(dom), NEW o \in Object,
         objs' = Append(x, o), NEW new, new = Len(dom) + 1
  PROVE  /\ objs' \in Seq(Object) /\ Len(objs') = new /\ objs'[new] = o
         /\ \A n \in Nodes : objs'[n] = x[n]
<1>1. Nodes = 1..Len(dom)
  BY DEF Nodes, BuildTypes
<1>2. /\ objs' \in Seq(Object) /\ Len(objs') = Len(x) + 1 /\ objs'[Len(x) + 1] = o
      /\ \A n \in 1..Len(x) : objs'[n] = x[n]
  OBVIOUS
<1>. QED
  BY <1>1, <1>2

\* A node of text is put at the end of the lists for it.
LEMMA StepText ==
  ASSUME BuildInv, NEW kind \in TextKinds, ReadText(kind)
  PROVE  BuildInv' /\ ClassesStay
<1> DEFINE new == Len(dom) + 1  o == objs[Top]
           h == [s \in DOMAIN o.held |-> IF s \in TextSlots(o.cls, kind)
                                         THEN Append(o.held[s], new) ELSE o.held[s]]
           p == [o EXCEPT !.held = h]
           x == [objs EXCEPT ![Top] = p]
<1>0. PICK tag \in Labels : Met(kind, tag)
  <2>1. Met(kind, "")
    BY Zenon DEF ReadText
  <2>2. "" \in Labels
    BY Zenon DEF Labels
  <2>. QED  BY <2>1, <2>2, Zenon
<1>1. /\ BuildTypes /\ Tree /\ Nesting /\ HeldFits /\ stack # <<>> /\ Met(kind, tag)
      /\ stack' = stack /\ exc' = exc /\ subclassed' = subclassed
  BY <1>0, Zenon DEF BuildInv, ReadText
<1>2. /\ Top \in Nodes /\ Top \in Nat /\ dom[Top].kind = "element" /\ exc = "none"
  BY <1>1, Innermost
<1>3. kind \in TextKinds \cup {"element", "skipped"} /\ kind # "element" /\ tag \in Labels
  BY <1>0 DEF TextKinds
<1>4a. Len(dom) \in Nat /\ new \in Nat /\ Nodes = 1..Len(dom)
  BY <1>1 DEF BuildTypes, Nodes
<1>4b. objs \in Seq(Object) /\ Len(objs) = Len(dom)
  BY <1>1 DEF BuildTypes
<1>4c. o \in Object
  BY <1>2, <1>4a, <1>4b
<1>4. o \in Object /\ o.cls \in DOMAIN Schema
  BY <1>1, <1>2, <1>4c DEF Tree
<1>5. /\ \A s \in DOMAIN o.held : o.held[s] \in Seq(Nat)
      /\ new \in Nat /\ Nodes = 1..Len(dom)
  <2> HIDE DEF o
  <2>1. \A s \in DOMAIN o.held : o.held[s] \in Seq(Nat)
    BY <1>4, HeldLists
  <2>. QED  BY <2>1, <1>4a
<1>6. p \in Object /\ p.cls = o.cls /\ p.held = h
  <2> HIDE DEF o, new
  <2>1. DOMAIN h = DOMAIN o.held /\ h = [s \in DOMAIN h |-> h[s]]
    OBVIOUS
  <2>2. \A s \in DOMAIN h : h[s] \in Seq(Nat)
    BY <1>5
  <2> HIDE DEF h
  <2>3. p \in Object
    BY <1>4, <2>1, <2>2, HeldLists
  <2>. QED  BY <1>4, <2>3 DEF Object
<1>7. objs' = Append(x, NoObject)
  BY <1>1 DEF ReadText
<1>8. x \in Seq(Object) /\ Len(x) = Len(dom) /\ x[Top] = p /\ \A n \in Nodes : n # Top => x[n] = objs[n]
  <2> HIDE DEF p
  <2>1. objs \in Seq(Object) /\ Len(objs) = Len(dom) /\ Top \in 1..Len(objs)
    BY <1>1, <1>2, <1>5 DEF BuildTypes
  <2>. QED  BY <1>5, <1>6, <2>1
<1> HIDE DEF x, p
<1>9. /\ objs' \in Seq(Object) /\ Len(objs') = new /\ objs'[new] = NoObject
      /\ objs'[Top] = p /\ \A n \in Nodes : n # Top => objs'[n] = objs[n]
  BY <1>1, <1>2, <1>7, <1>8, ObjectsGrow, NoObjects
<1> HIDE DEF new
<1>10. new = Len(dom) + 1
  BY DEF new
<1>11. \A n \in Nodes : objs'[n].cls = objs[n].cls /\ DOMAIN objs'[n].held = DOMAIN objs[n].held
  BY <1>6, <1>9
<1>12. Tree'
  <2>1. DOMAIN objs'[new].held = {}
    BY <1>9, NoObjects
  <2>. QED  BY <1>1, <1>3, <1>10, <1>11, <2>1, TreeGrows
<1>13. /\ Nesting' /\ stack' \in Seq(Nat) /\ \A k \in DOMAIN stack' : stack'[k] \in Nodes'
       /\ \A n \in Nodes : Active(n)' <=> Active(n)
  BY <1>1, <1>3, <1>10, NestingGrows
<1>14. /\ Nodes' = Nodes \cup {new} /\ Len(dom') = new /\ dom' \in Seq(Node) /\ new \in Nat
       /\ \A n \in Nodes : n < new
  BY <1>1, <1>3, <1>10, NodesGrow
<1>15. BuildTypes'
  <2>1. new > 0
    BY <1>2, <1>14
  <2>. QED  BY <1>1, <1>9, <1>13, <1>14, <2>1 DEF BuildTypes
<1>16. ASSUME NEW n \in Nodes, NEW s \in DOMAIN objs'[n].held
       PROVE  Fits(objs'[n].held[s], Expected(n, s)', s \in OneChild[objs'[n].cls])
  <2>1. s \in DOMAIN objs[n].held /\ objs'[n].cls = objs[n].cls
    BY <1>11, <1>16
  <2>2. Fits(objs[n].held[s], Expected(n, s), s \in OneChild[objs[n].cls])
    BY <1>1, <1>2, <2>1 DEF HeldFits
  <2>3. Expected(n, s)' =
           IF n = Top /\ kind \in TextKinds /\ s \in TextSlots(objs[Top].cls, kind)
           THEN Expected(n, s) \cup {new} ELSE Expected(n, s)
    BY <1>1, <1>3, <1>10, <1>11, <1>13, DueGrows
  <2>4. CASE n = Top /\ s \in TextSlots(o.cls, kind)
    <3>1. s \notin OneChild[o.cls]
      BY <1>4, <2>4, TextGoesToLists
    <3>2. objs'[n].held[s] = Append(o.held[s], new)
      BY <1>6, <1>9, <2>1, <2>4
    <3>3. \A m \in Expected(n, s) : m < new
      BY <1>1, <1>14, DueIsMet
    <3>4a. n = Top /\ objs[n] = o
      BY <2>4
    <3>4b. o.held[s] \in Seq(Nat)
      BY <1>5, <2>1, <3>4a
    <3>4c. (s \in OneChild[objs[n].cls]) = FALSE
      BY <3>1, <3>4a
    <3>4. Fits(o.held[s], Expected(n, s), FALSE) /\ o.held[s] \in Seq(Nat)
      BY <2>2, <3>4a, <3>4b, <3>4c
    <3>5. Fits(Append(o.held[s], new), Expected(n, s) \cup {new}, FALSE)
      BY <1>14, <3>3, <3>4, FitsAppend
    <3>6. objs'[n].cls = o.cls
      BY <2>1, <2>4
    <3>7. Expected(n, s)' = Expected(n, s) \cup {new}
      BY <2>3, <2>4
    <3>8. (s \in OneChild[objs'[n].cls]) = FALSE
      BY <3>1, <3>6
    <3>. QED  BY <3>2, <3>5, <3>7, <3>8
  <2>5. CASE n = Top /\ s \notin TextSlots(o.cls, kind)
    <3>1. objs'[n].held[s] = objs[n].held[s]
      BY <1>6, <1>9, <2>1, <2>5
    <3>. QED  BY <2>1, <2>2, <2>3, <2>5, <3>1
  <2>6. CASE n # Top
    BY <1>9, <2>2, <2>3, <2>6
  <2>. QED  BY <2>4, <2>5, <2>6
<1>17. \A s \in DOMAIN objs'[new].held : FALSE
  BY <1>9, NoObjects
<1>18. HeldFits'
  BY <1>14, <1>16, <1>17 DEF HeldFits
<1>. QED
  BY <1>11, <1>12, <1>13, <1>15, <1>18 DEF BuildInv, ClassesStay

\* A build begins: its object is empty, and due at its parent only at its end.
LEMMA StepOpen ==
  ASSUME BuildInv, NEW tag \in AllTags, OpenElement(tag)
  PROVE  BuildInv' /\ ClassesStay
<1>10. PICK new : new = Len(dom) + 1
  OBVIOUS
<1> DEFINE c == objs[Top].cls  d == Factory(KidOf(c, tag).cls)
<1>0. PICK kind \in {"element"} : Met(kind, tag)
  BY Zenon DEF OpenElement
<1>1. /\ BuildTypes /\ Tree /\ Nesting /\ HeldFits /\ stack # <<>> /\ Met(kind, tag)
      /\ stack' = Append(stack, new) /\ exc' = exc /\ subclassed' = subclassed
      /\ objs' = Append(objs, NewObject(d)) /\ tag \in Tags(c)
  BY <1>0, <1>10 DEF BuildInv, OpenElement
<1>2. /\ Top \in Nodes /\ Top \in Nat /\ dom[Top].kind = "element" /\ exc = "none"
  BY <1>1, Innermost
<1>3. /\ kind \in TextKinds \cup {"element", "skipped"} /\ kind \notin TextKinds
      /\ kind = "element" /\ tag \in Labels
  <2>1. tag \in Labels
    BY Zenon DEF Labels
  <2>. QED  BY <1>0, <2>1 DEF TextKinds
<1>4. c \in DOMAIN Schema
  BY <1>1, <1>2 DEF Tree
<1>5. d \in DOMAIN Schema
  <2>1. KidOf(c, tag).cls \in DOMAIN Schema
    BY <1>1, <1>4, Branch
  <2>. QED  BY <2>1, SchemaAssumption DEF Factory
<1> HIDE DEF c, d
<1>6. /\ NewObject(d) \in Object /\ NewObject(d).cls = d /\ DOMAIN NewObject(d).held = Slots[d]
      /\ \A s \in Slots[d] : NewObject(d).held[s] = <<>>
  BY <1>5, NewObjects
<1>9. /\ objs' \in Seq(Object) /\ Len(objs') = new /\ objs'[new] = NewObject(d)
      /\ \A n \in Nodes : objs'[n] = objs[n]
  <2>1. objs \in Seq(Object) /\ Len(objs) = Len(dom)
    BY <1>1 DEF BuildTypes
  <2>. QED  BY <1>1, <1>6, <1>10, <2>1, ObjectsGrow
<1>12. Tree'
  <2>1. /\ \A n \in Nodes : objs'[n].cls = objs[n].cls /\ DOMAIN objs'[n].held = DOMAIN objs[n].held
        /\ objs'[new].cls \in DOMAIN Schema
        /\ DOMAIN objs'[new].held = Slots[objs'[new].cls]
    BY <1>5, <1>6, <1>9
  <2>2. tag \in Tags(objs[Top].cls)
    BY <1>1 DEF c
  <2>. QED  BY <1>1, <1>3, <1>10, <2>1, <2>2, TreeGrows
<1>13. /\ Nesting' /\ stack' \in Seq(Nat) /\ \A k \in DOMAIN stack' : stack'[k] \in Nodes'
       /\ \A n \in Nodes : Active(n)' <=> Active(n)
       /\ Active(new)' <=> stack' # stack
  BY <1>1, <1>3, <1>10, NestingGrows
<1>13a. Active(new)'
  <2>1. stack' # stack
    BY <1>1 DEF BuildTypes
  <2>. QED  BY <1>13, <2>1
<1>14. /\ Nodes' = Nodes \cup {new} /\ Len(dom') = new /\ dom' \in Seq(Node) /\ new \in Nat
       /\ \A n \in Nodes : n < new
  BY <1>1, <1>3, <1>10, NodesGrow
<1>15. BuildTypes'
  <2>1. new > 0
    BY <1>2, <1>14
  <2>. QED  BY <1>1, <1>9, <1>13, <1>14, <2>1 DEF BuildTypes
<1>16. ASSUME NEW n \in Nodes, NEW s \in DOMAIN objs'[n].held
       PROVE  Fits(objs'[n].held[s], Expected(n, s)', s \in OneChild[objs'[n].cls])
  <2>1. Fits(objs[n].held[s], Expected(n, s), s \in OneChild[objs[n].cls])
    BY <1>1, <1>2, <1>9, <1>16 DEF HeldFits
  <2>2. Expected(n, s)' = Expected(n, s)
    BY <1>1, <1>3, <1>9, <1>10, <1>13, <1>13a, DueGrows
  <2>. QED  BY <1>9, <2>1, <2>2
<1>17. ASSUME NEW s \in DOMAIN objs'[new].held
       PROVE  Fits(objs'[new].held[s], Expected(new, s)', s \in OneChild[objs'[new].cls])
  <2>1. objs'[new].held[s] = <<>>
    BY <1>6, <1>9, <1>17
  <2>2. Expected(new, s)' = {}
    BY <1>1, <1>3, <1>10, NothingDue
  <2>3. (s \in OneChild[objs'[new].cls]) \in BOOLEAN
    OBVIOUS
  <2>. QED  BY <2>1, <2>2, <2>3, FitsEmpty
<1>18. HeldFits'
  <2>1. ASSUME NEW n \in Nodes', NEW s \in DOMAIN objs'[n].held
        PROVE  Fits(objs'[n].held[s], Expected(n, s)', s \in OneChild[objs'[n].cls])
    BY <1>14, <1>16, <1>17
  <2>. QED  BY <2>1 DEF HeldFits
<1>. QED
  BY <1>9, <1>12, <1>13, <1>15, <1>18 DEF BuildInv, ClassesStay

\* An element without a branch is due nowhere.
LEMMA StepSkip ==
  ASSUME BuildInv, SkipElement
  PROVE  BuildInv' /\ ClassesStay
<1> DEFINE new == Len(dom) + 1
<1>1. /\ BuildTypes /\ Tree /\ Nesting /\ HeldFits /\ stack # <<>> /\ Met("skipped", "other")
      /\ stack' = stack /\ exc' = exc /\ subclassed' = subclassed
      /\ objs' = Append(objs, NoObject)
  BY DEF BuildInv, SkipElement
<1>2. /\ Top \in Nodes /\ Top \in Nat /\ exc = "none"
  BY <1>1, Innermost
<1>3. /\ "skipped" \in TextKinds \cup {"element", "skipped"} /\ "skipped" \notin TextKinds
      /\ "skipped" # "element" /\ "other" \in Labels
  <2>1. "other" \in Labels
    BY Zenon DEF Labels
  <2>. QED  BY <2>1 DEF TextKinds
<1>9. /\ objs' \in Seq(Object) /\ Len(objs') = new /\ objs'[new] = NoObject
      /\ \A n \in Nodes : objs'[n] = objs[n]
  <2>1. objs \in Seq(Object) /\ Len(objs) = Len(dom)
    BY <1>1 DEF BuildTypes
  <2>. QED  BY <1>1, <2>1, ObjectsGrow, NoObjects
<1> HIDE DEF new
<1>10. new = Len(dom) + 1
  BY DEF new
<1>11. DOMAIN objs'[new].held = {}
  BY <1>9, NoObjects
<1>12. Tree'
  BY <1>1, <1>3, <1>9, <1>10, <1>11, TreeGrows
<1>13. /\ Nesting' /\ stack' \in Seq(Nat) /\ \A k \in DOMAIN stack' : stack'[k] \in Nodes'
       /\ \A n \in Nodes : Active(n)' <=> Active(n)
  BY <1>1, <1>3, <1>10, NestingGrows
<1>14. /\ Nodes' = Nodes \cup {new} /\ Len(dom') = new /\ dom' \in Seq(Node) /\ new \in Nat
       /\ \A n \in Nodes : n < new
  BY <1>1, <1>3, <1>10, NodesGrow
<1>15. BuildTypes'
  <2>1. new > 0
    BY <1>2, <1>14
  <2>. QED  BY <1>1, <1>9, <1>13, <1>14, <2>1 DEF BuildTypes
<1>16. ASSUME NEW n \in Nodes, NEW s \in DOMAIN objs'[n].held
       PROVE  Fits(objs'[n].held[s], Expected(n, s)', s \in OneChild[objs'[n].cls])
  <2>1. Fits(objs[n].held[s], Expected(n, s), s \in OneChild[objs[n].cls])
    BY <1>1, <1>2, <1>9, <1>16 DEF HeldFits
  <2>2. Expected(n, s)' = Expected(n, s)
    BY <1>1, <1>3, <1>9, <1>10, <1>13, DueGrows
  <2>. QED  BY <1>9, <2>1, <2>2
<1>18. HeldFits'
  BY <1>11, <1>14, <1>16 DEF HeldFits
<1>. QED
  BY <1>9, <1>12, <1>13, <1>15, <1>18 DEF BuildInv, ClassesStay

\* The innermost build leaves the stack.
LEMMA StackShrinks ==
  ASSUME BuildTypes, Nesting, stack # <<>>, NEW m, m = Top,
         stack' = SubSeq(stack, 1, Len(stack) - 1), dom' = dom, exc' = exc
  PROVE  /\ Nesting' /\ stack' \in Seq(Nat) /\ \A k \in DOMAIN stack' : stack'[k] \in Nodes'
         /\ \A n : Active(n)' <=> Active(n) /\ n # m
<1> DEFINE l == Len(stack)
<1>1. /\ l \in Nat /\ l > 0 /\ DOMAIN stack = 1..l /\ m = stack[l]
      /\ \A k \in 1..l : stack[k] \in Nat /\ stack[k] \in Nodes
  <2>1. Len(stack) \in Nat /\ Len(stack) > 0 /\ Top = stack[Len(stack)]
    BY Innermost
  <2>2. DOMAIN stack = 1..l /\ \A k \in 1..l : stack[k] \in Nat /\ stack[k] \in Nodes
    BY DEF BuildTypes
  <2>. QED  BY <2>1, <2>2
<1>2. /\ stack' \in Seq(Nat) /\ DOMAIN stack' = 1..(l - 1)
      /\ \A k \in 1..(l - 1) : stack'[k] = stack[k]
  <2>1. stack \in Seq(Nat) /\ l - 1 \in Nat
    BY <1>1 DEF BuildTypes
  <2>. QED  BY <1>1, <2>1
<1>3. 1..l = 1..(l - 1) \cup {l}
  BY <1>1
<1>4. \A j, k \in 1..l : j < k => stack[j] < stack[k]
  BY <1>1 DEF Nesting
<1> HIDE DEF l
<1>5. Nodes' = Nodes
  BY DEF Nodes
<1>6. \A k \in 1..l : dom[stack[k]].kind = "element"
                     /\ \A n \in Nodes : n > stack[k] => dom[n].parent >= stack[k]
  BY <1>1 DEF Nesting
<1>7. exc' = "none"
  BY Innermost
<1>8. \A k \in 1..(l - 1) : stack'[k] \in Nodes
  BY <1>1, <1>2, <1>3
<1>9. Nesting'
  <2>1. \A j, k \in DOMAIN stack' : j < k => stack'[j] < stack'[k]
    BY <1>2, <1>3, <1>4
  <2>2. \A k \in DOMAIN stack' :
          /\ dom'[stack'[k]].kind = "element"
          /\ \A n \in Nodes' : n > stack'[k] => dom'[n].parent >= stack'[k]
    BY <1>2, <1>3, <1>5, <1>6
  <2>. QED  BY <1>7, <2>1, <2>2 DEF Nesting
<1>10. ASSUME NEW n  PROVE Active(n)' <=> Active(n) /\ n # m
  <2>1. Active(n)' <=> \E k \in 1..(l - 1) : stack[k] = n
    BY <1>2 DEF Active
  <2>2. Active(n) <=> n = m \/ \E k \in 1..(l - 1) : stack[k] = n
    BY <1>1, <1>3 DEF Active
  <2>3. \A k \in 1..(l - 1) : stack[k] # m
    <3>1. ASSUME NEW k \in 1..(l - 1)  PROVE stack[k] # m
      <4>1. k \in 1..l /\ l \in 1..l /\ k < l
        BY <1>1
      <4>2. stack[k] < stack[l] /\ stack[k] \in Nat /\ stack[l] \in Nat
        BY <1>1, <1>4, <4>1
      <4>. QED  BY <1>1, <4>2
    <3>. QED  BY <3>1
  <2>. QED  BY <2>1, <2>2, <2>3
<1>. QED
  BY <1>2, <1>5, <1>8, <1>9, <1>10

\* What has been built is due at its parent, and nothing else changes.
LEMMA DueAtTheEnd ==
  ASSUME BuildTypes, NEW m \in Nodes, Active(m), dom[m].kind = "element", dom' = dom,
         \A n \in Nodes : objs'[n].cls = objs[n].cls,
         \A n : Active(n)' <=> Active(n) /\ n # m,
         NEW n \in Nodes, NEW s
  PROVE  Expected(n, s)' =
           IF m \in Children(n) /\ KidOf(objs[n].cls, dom[m].tag).slot = s
           THEN Expected(n, s) \cup {m} ELSE Expected(n, s)
<1> DEFINE Due(q) == \/ dom[q].kind \in TextKinds /\ s \in TextSlots(objs[n].cls, dom[q].kind)
                     \/ /\ dom[q].kind = "element" /\ ~Active(q)
                        /\ KidOf(objs[n].cls, dom[q].tag).slot = s
<1>1. Children(n)' = Children(n) /\ Children(n) \subseteq Nodes
  BY DEF Children, Nodes
<1>2. objs'[n].cls = objs[n].cls
  OBVIOUS
<1>3. \A c, k : TextSlots(c, k)' = TextSlots(c, k) /\ KidOf(c, k)' = KidOf(c, k)
  BY DEF TextSlots, KidOf, Branches, Kids
<1>4. \A q \in Children(n) : q # m => (Due(q)' <=> Due(q))
  BY <1>2, <1>3
<1>5. "element" \notin TextKinds
  BY DEF TextKinds
<1>6. ~Due(m)
  BY <1>5
<1>7. Due(m)' <=> KidOf(objs[n].cls, dom[m].tag).slot = s
  BY <1>2, <1>3, <1>5
<1>8. Expected(n, s) = {q \in Children(n) : Due(q)}
  BY DEF Expected
<1>9. Expected(n, s)' = {q \in Children(n)' : Due(q)'}
  BY DEF Expected
<1> HIDE DEF Due
<1>. QED
  BY <1>1, <1>4, <1>6, <1>7, <1>8, <1>9

\* The children met before an element that is being built, and all that is due at
\* its parent, come before it.
LEMMA LastChild ==
  ASSUME BuildTypes, Tree, Nesting, NEW m \in Nodes, Active(m), dom[m].kind = "element",
         NEW n \in Nodes, n = dom[m].parent, NEW s
  PROVE  \A q \in Expected(n, s) : q < m /\ q \in Nat
<1>1. Nodes = 1..Len(dom) /\ Len(dom) \in Nat
  BY DEF BuildTypes, Nodes
<1>2. n < m
  <2>1. m # 1
    BY <1>1 DEF Tree
  <2>2. n \in 1..(m - 1)
    BY <2>1 DEF Tree
  <2>. QED  BY <1>1, <2>2
<1>3. PICK k \in DOMAIN stack : stack[k] = m
  BY DEF Active
<1>4. \A q \in Nodes : q > m => dom[q].parent >= m
  BY <1>3 DEF Nesting
<1>5. ASSUME NEW q \in Expected(n, s)  PROVE q < m /\ q \in Nat
  <2>1. q \in Nodes /\ dom[q].parent = n /\ q # m
    <3>1. "element" \notin TextKinds
      BY DEF TextKinds
    <3>. QED  BY <3>1 DEF Expected, Children
  <2>2. ~(q > m)
    BY <1>1, <1>2, <1>4, <2>1
  <2>. QED  BY <1>1, <2>1, <2>2
<1>. QED
  BY <1>5

\* A build returns, and what it built is attached to its parent.
LEMMA StepClose ==
  ASSUME BuildInv, CloseElement
  PROVE  BuildInv' /\ ClassesStay
<1>1. PICK m, up : m = Top /\ up = dom[Top].parent
  OBVIOUS
<1>2. /\ BuildTypes /\ Tree /\ Nesting /\ HeldFits /\ stack # <<>>
      /\ stack' = SubSeq(stack, 1, Len(stack) - 1)
      /\ dom' = dom /\ exc' = exc /\ subclassed' = subclassed
  BY DEF BuildInv, CloseElement
<1>3. /\ m \in Nodes /\ m \in Nat /\ Active(m) /\ dom[m].kind = "element" /\ exc = "none"
  BY <1>1, <1>2, Innermost
<1>4. /\ Nesting' /\ stack' \in Seq(Nat) /\ \A k \in DOMAIN stack' : stack'[k] \in Nodes'
      /\ \A n : Active(n)' <=> Active(n) /\ n # m
  BY <1>1, <1>2, StackShrinks
<1>5. /\ Nodes' = Nodes /\ Nodes = 1..Len(dom) /\ Len(dom) \in Nat /\ 1 \in Nodes
      /\ objs \in Seq(Object) /\ Len(objs) = Len(dom)
  <2>1. dom \in Seq(Node) /\ Len(dom) > 0 /\ objs \in Seq(Object) /\ Len(objs) = Len(dom)
    BY <1>2 DEF BuildTypes
  <2>. QED  BY <1>2, <2>1 DEF Nodes
<1>6. ASSUME objs' \in Seq(Object), Len(objs') = Len(objs),
             \A n \in Nodes : objs'[n].cls = objs[n].cls
                              /\ DOMAIN objs'[n].held = DOMAIN objs[n].held
      PROVE  BuildTypes' /\ Tree'
  <2>1. BuildTypes'
    BY <1>2, <1>4, <1>5, <1>6 DEF BuildTypes
  <2>2. Tree'
    <3>1. \A n \in Nodes : objs'[n].cls = objs[n].cls
                            /\ DOMAIN objs'[n].held = DOMAIN objs[n].held
      BY <1>6
    <3>2. \A n \in Nodes : n # 1 => dom[n].parent \in Nodes
      <4>1. ASSUME NEW n \in Nodes, n # 1  PROVE dom[n].parent \in Nodes
        <5>1. dom[n].parent \in 1..(n - 1)
          BY <1>2, <4>1 DEF Tree
        <5>. QED  BY <1>5, <5>1
      <4>. QED  BY <4>1
    <3>. QED  BY <1>2, <1>5, <3>1, <3>2 DEF Tree
  <2>. QED  BY <2>1, <2>2
<1>7. CASE up = 0
  <2>1. objs' = objs
    BY <1>1, <1>7 DEF CloseElement
  <2>2. ASSUME NEW n \in Nodes, NEW s \in DOMAIN objs[n].held
        PROVE  Fits(objs'[n].held[s], Expected(n, s)', s \in OneChild[objs'[n].cls])
    <3>1. m \notin Children(n)
      <4>1. dom[m].parent = 0 /\ 0 \notin Nodes
        BY <1>1, <1>5, <1>7
      <4>. QED  BY <4>1 DEF Children
    <3>2. Expected(n, s)' = Expected(n, s)
      BY <1>2, <1>3, <1>4, <2>1, <3>1, DueAtTheEnd
    <3>. QED  BY <1>2, <1>3, <2>1, <3>2 DEF HeldFits
  <2>3. HeldFits'
    BY <1>5, <2>1, <2>2 DEF HeldFits
  <2>4. BuildTypes' /\ Tree'
    BY <1>5, <1>6, <2>1
  <2>. QED  BY <1>4, <2>1, <2>3, <2>4 DEF BuildInv, ClassesStay
<1>8. CASE up # 0
  <2>1. /\ up \in Nodes /\ dom[up].kind = "element" /\ up = dom[m].parent
        /\ dom[m].tag \in Tags(objs[up].cls)
    <3>1. m # 1
      BY <1>1, <1>2, <1>8 DEF Tree
    <3>2. up \in 1..(m - 1) /\ dom[up].kind = "element" /\ dom[m].tag \in Tags(objs[up].cls)
      BY <1>1, <1>2, <1>3, <3>1 DEF Tree
    <3>. QED  BY <1>1, <1>3, <1>5, <3>2
  <2>2. PICK o, kid, slot : o = objs[up] /\ kid = KidOf(o.cls, dom[m].tag) /\ slot = kid.slot
    OBVIOUS
  <2>3. o \in Object /\ o.cls \in DOMAIN Schema /\ DOMAIN o.held = Slots[o.cls]
    <3>1. o \in Object
      BY <1>5, <2>1, <2>2
    <3>. QED  BY <1>2, <2>1, <2>2, <3>1 DEF Tree
  <2>4. slot \in DOMAIN o.held /\ (slot \in OneChild[o.cls] <=> kid.how = "one")
        /\ kid.how \in {"one", "many"}
    BY <2>1, <2>2, <2>3, Branch
  <2>5. \A s \in DOMAIN o.held : o.held[s] \in Seq(Nat)
    BY <2>3, HeldLists
  <2>6. PICK list : list = Stored(kid, o.held[slot], m)
    OBVIOUS
  <2>7. \A q \in Expected(up, slot) : q < m /\ q \in Nat
    BY <1>2, <1>3, <2>1, LastChild
  <2>8. list \in Seq(Nat)
        /\ Fits(list, Expected(up, slot) \cup {m}, slot \in OneChild[o.cls])
    <3>1. Fits(o.held[slot], Expected(up, slot), slot \in OneChild[o.cls])
      BY <1>2, <1>3, <2>1, <2>2, <2>4 DEF HeldFits
    <3>2. CASE slot \in OneChild[o.cls]
      <4>1. list = <<m>>
        BY <2>4, <2>6, <3>2 DEF Stored
      <4>2. (slot \in OneChild[o.cls]) = TRUE
        BY <3>2
      <4>3. <<m>> \in Seq(Nat) /\ Fits(<<m>>, Expected(up, slot) \cup {m}, TRUE)
        BY <1>3, <2>7, FitsOne
      <4>. QED  BY <4>1, <4>2, <4>3
    <3>3. CASE slot \notin OneChild[o.cls]
      <4>1. kid.how = "many"
        BY <2>4, <3>3
      <4>2. list = Append(o.held[slot], m)
        BY <2>6, <4>1 DEF Stored
      <4>3. (slot \in OneChild[o.cls]) = FALSE
        BY <3>3
      <4>4. Fits(o.held[slot], Expected(up, slot), FALSE) /\ o.held[slot] \in Seq(Nat)
        BY <2>4, <2>5, <3>1, <4>3
      <4>5. /\ Append(o.held[slot], m) \in Seq(Nat)
            /\ Fits(Append(o.held[slot], m), Expected(up, slot) \cup {m}, FALSE)
        BY <1>3, <2>7, <4>4, FitsAppend
      <4>. QED  BY <4>2, <4>3, <4>5
    <3>. QED  BY <3>2, <3>3
  <2>9. objs' = [objs EXCEPT ![up].held[slot] = list]
    BY <1>1, <1>8, <2>2, <2>6 DEF CloseElement
  <2>10. PICK h : h = [o.held EXCEPT ![slot] = list]
    OBVIOUS
  <2>11. PICK p : p = [o EXCEPT !.held = h]
    OBVIOUS
  <2>12. p \in Object /\ p.cls = o.cls /\ p.held = h /\ DOMAIN h = DOMAIN o.held
         /\ h[slot] = list /\ \A s \in DOMAIN h : s # slot => h[s] = o.held[s]
    <3>1. /\ DOMAIN h = DOMAIN o.held /\ h = [s \in DOMAIN h |-> h[s]]
          /\ h[slot] = list /\ \A s \in DOMAIN h : s # slot => h[s] = o.held[s]
      BY <2>4, <2>10
    <3>2. \A s \in DOMAIN h : h[s] \in Seq(Nat)
      BY <2>5, <2>8, <3>1
    <3>3. p \in Object
      BY <2>3, <2>11, <3>1, <3>2, HeldLists
    <3>. QED  BY <2>3, <2>11, <3>1, <3>3 DEF Object
  <2>13. objs' = [objs EXCEPT ![up] = p]
    BY <2>2, <2>9, <2>10, <2>11
  <2>14. /\ objs' \in Seq(Object) /\ Len(objs') = Len(objs)
         /\ objs'[up] = p /\ \A n \in Nodes : n # up => objs'[n] = objs[n]
    BY <1>5, <2>1, <2>12, <2>13
  <2>15. \A n \in Nodes : objs'[n].cls = objs[n].cls /\ DOMAIN objs'[n].held = DOMAIN objs[n].held
    BY <2>2, <2>12, <2>14
  <2>16. ASSUME NEW n \in Nodes, NEW s \in DOMAIN objs'[n].held
         PROVE  Fits(objs'[n].held[s], Expected(n, s)', s \in OneChild[objs'[n].cls])
    <3>1. s \in DOMAIN objs[n].held /\ objs'[n].cls = objs[n].cls
      BY <2>15, <2>16
    <3>2. Fits(objs[n].held[s], Expected(n, s), s \in OneChild[objs[n].cls])
      BY <1>2, <1>3, <3>1 DEF HeldFits
    <3>3. m \in Children(n) <=> n = up
      BY <1>3, <2>1 DEF Children
    <3>4. Expected(n, s)' =
            IF m \in Children(n) /\ KidOf(objs[n].cls, dom[m].tag).slot = s
            THEN Expected(n, s) \cup {m} ELSE Expected(n, s)
      BY <1>2, <1>3, <1>4, <2>15, DueAtTheEnd
    <3>5. CASE n = up /\ s = slot
      <4>1. Expected(n, s)' = Expected(up, slot) \cup {m}
        BY <2>2, <3>3, <3>4, <3>5
      <4>2. objs'[n].held[s] = list /\ objs'[n].cls = o.cls
        BY <2>12, <2>14, <3>5
      <4>. QED  BY <2>8, <3>5, <4>1, <4>2
    <3>6. CASE n = up /\ s # slot
      <4>1. Expected(n, s)' = Expected(n, s)
        BY <2>2, <3>4, <3>6
      <4>2. objs'[n].held[s] = objs[n].held[s]
        BY <2>2, <2>12, <2>14, <3>1, <3>6
      <4>. QED  BY <3>1, <3>2, <4>1, <4>2
    <3>7. CASE n # up
      <4>1. Expected(n, s)' = Expected(n, s)
        BY <3>3, <3>4, <3>7
      <4>. QED  BY <2>14, <3>2, <3>7, <4>1
    <3>. QED  BY <3>5, <3>6, <3>7
  <2>17. HeldFits'
    BY <1>5, <2>16 DEF HeldFits
  <2>18. BuildTypes' /\ Tree'
    BY <1>6, <2>14, <2>15
  <2>. QED  BY <1>4, <2>15, <2>17, <2>18 DEF BuildInv, ClassesStay
<1>. QED
  BY <1>7, <1>8

\* An exception ends the parse.
LEMMA StepRaise ==
  ASSUME BuildInv, NEW e, e # "none", Raise(e)
  PROVE  BuildInv' /\ ClassesStay
<1>1. stack' = <<>> /\ exc' # "none" /\ dom' = dom /\ objs' = objs /\ subclassed' = subclassed
  BY DEF Raise
<1>2. stack' \in Seq(Nat) /\ DOMAIN stack' = {}
  BY <1>1, EmptySeq
<1>3. BuildTypes'
  BY <1>1, <1>2 DEF BuildInv, BuildTypes, Nodes
<1>4. Tree'
  BY <1>1 DEF BuildInv, Tree, Nodes
<1>5. Nesting'
  BY <1>1, <1>2 DEF Nesting
<1>6. HeldFits'
  BY <1>1 DEF HeldFits
<1>. QED
  BY <1>1, <1>3, <1>4, <1>5, <1>6 DEF BuildInv, ClassesStay

-----------------------------------------------------------------------------
(* The theorems.                                                           *)

\* The root is an element whose object is empty.
LEMMA InitBuild == Init => BuildInv
<1> SUFFICES ASSUME Init PROVE BuildInv
  OBVIOUS
<1>1. PICK c \in Roots : objs = <<NewObject(Factory(c))>>
  BY DEF Init
<1>2. PICK d : d = Factory(c)
  OBVIOUS
<1>3. d \in DOMAIN Schema
  BY <1>2, SchemaAssumption DEF Factory
<1>4. PICK o : o = NewObject(d)
  OBVIOUS
<1>5. /\ o \in Object /\ o.cls = d /\ DOMAIN o.held = Slots[d]
      /\ \A s \in Slots[d] : o.held[s] = <<>>
  BY <1>3, <1>4, NewObjects
<1>6. objs = <<o>> /\ objs \in Seq(Object) /\ Len(objs) = 1 /\ objs[1] = o
  BY <1>1, <1>2, <1>4, <1>5
<1>7. PICK r \in Node : dom = <<r>> /\ r.kind = "element" /\ r.parent = 0
  <2>1. "root" \in Labels
    BY Zenon DEF Labels
  <2>2. [kind |-> "element", tag |-> "root", parent |-> 0] \in Node
    BY <2>1 DEF Node
  <2>. QED  BY <2>2 DEF Init
<1>8. dom \in Seq(Node) /\ Len(dom) = 1 /\ Nodes = {1} /\ dom[1] = r
  BY <1>7 DEF Nodes
<1>9. /\ stack = <<1>> /\ stack \in Seq(Nat) /\ DOMAIN stack = {1} /\ stack[1] = 1
      /\ exc = "none" /\ subclassed \in BOOLEAN
  BY DEF Init
<1>10. BuildTypes
  BY <1>6, <1>8, <1>9 DEF BuildTypes
<1>11. Tree
  BY <1>3, <1>5, <1>6, <1>7, <1>8 DEF Tree
<1>12. Nesting
  BY <1>7, <1>8, <1>9 DEF Nesting
<1>13. HeldFits
  <2>1. ASSUME NEW s \in Slots[d]
        PROVE  Fits(o.held[s], Expected(1, s), s \in OneChild[d])
    <3>1. Expected(1, s) = {}
      BY <1>7, <1>8 DEF Expected, Children
    <3>2. (s \in OneChild[d]) \in BOOLEAN
      OBVIOUS
    <3>. QED  BY <1>5, <3>1, <3>2, FitsEmpty
  <2>. QED  BY <1>5, <1>6, <1>8, <2>1 DEF HeldFits
<1>. QED
  BY <1>10, <1>11, <1>12, <1>13 DEF BuildInv

\* A step that changes nothing.
LEMMA StepStutters == BuildInv /\ UNCHANGED vars => BuildInv' /\ ClassesStay
<1> SUFFICES ASSUME BuildInv, UNCHANGED vars PROVE BuildInv' /\ ClassesStay
  OBVIOUS
<1>1. /\ subclassed' = subclassed /\ dom' = dom /\ objs' = objs /\ stack' = stack /\ exc' = exc
  BY DEF vars
<1>2. BuildTypes' /\ Tree' /\ Nesting'
  BY <1>1 DEF BuildInv, BuildTypes, Tree, Nesting, Nodes
<1>3. \A n, s : Expected(n, s)' = Expected(n, s)
  BY <1>1 DEF Expected, Children, Nodes, Active, TextSlots, KidOf, Branches, Kids
<1>4. HeldFits'
  BY <1>1, <1>3 DEF BuildInv, HeldFits, Nodes
<1>. QED
  BY <1>1, <1>2, <1>4 DEF BuildInv, ClassesStay

\* Each step keeps the invariant.
LEMMA BuildStep ==
  ASSUME BuildInv, [Next]_vars
  PROVE  BuildInv' /\ ClassesStay
<1>1. CASE \E kind \in TextKinds : ReadText(kind)
  BY <1>1, StepText
<1>2. CASE \E tag \in AllTags : OpenElement(tag)
  BY <1>2, StepOpen
<1>3. CASE \E tag \in AllTags : BadInteger(tag)
  BY <1>3, StepRaise DEF BadInteger
<1>4. CASE SkipElement
  BY <1>4, StepSkip
<1>5. CASE CloseElement
  BY <1>5, StepClose
<1>6. CASE ElementInText
  BY <1>6, StepRaise DEF ElementInText
<1>7. CASE UNCHANGED vars
  BY <1>7, StepStutters
<1>. QED
  BY <1>1, <1>2, <1>3, <1>4, <1>5, <1>6, <1>7 DEF Next

\* While a document is read, and after, the nodes are a tree, the active builds are
\* nested, and each list and field holds what is due there.
THEOREM BuildInvariance == Spec => []BuildInv
<1>1. BuildInv /\ [Next]_vars => BuildInv'
  BY BuildStep
<1>. QED
  BY <1>1, InitBuild, PTL DEF Spec

\* Whatever the classes and the document, unless an exception ended the parse, each
\* list of an object holds the children it is for, all of them, once and in the
\* order of the document, and a field holds the last one (build() and
\* buildChildren() of every class).
THEOREM ListsHoldTheChildren == Spec => []ListsAreTheChildren
<1>1. BuildInv => ListsAreTheChildren
  BY DEF BuildInv, HeldFits, Fits, Increasing, ListsAreTheChildren
<1>. QED
  BY <1>1, BuildInvariance, PTL

-----------------------------------------------------------------------------
(* The classes of the objects, and the order of the nodes.                 *)

\* An object is of the class that made it: without the subclasses one that
\* the document can name, and below the root that of the branch.
ObjectClasses ==
  /\ ~subclassed => \A n \in Nodes : dom[n].kind = "element" => objs[n].cls \in Generated
  /\ \A n \in Nodes \ {1} : dom[n].kind = "element" =>
       objs[n].cls = Factory(KidOf(objs[dom[n].parent].cls, dom[n].tag).cls)

\* The nodes below an element come before all that follows it in its parent.
Preorder ==
  \A m, n \in Nodes : (dom[n].parent < m /\ m < n) => dom[n].parent <= dom[m].parent

TextInv == BuildInv /\ ObjectClasses /\ Preorder

\* A class that is read by a branch can be made without the subclasses.
LEMMA BranchGenerated ==
  ASSUME NEW c \in DOMAIN Schema, NEW tag \in Tags(c)
  PROVE  KidOf(c, tag).cls \in Generated
<1>1. KidOf(c, tag) \in Kids(c)
  BY Branch
<1>. QED  BY <1>1 DEF Generated

\* A step that meets no node.
LEMMA TextStays ==
  ASSUME TextInv, ClassesStay, dom' = dom, subclassed' = subclassed
  PROVE  ObjectClasses' /\ Preorder'
<1>1. /\ Nodes' = Nodes /\ \A n \in Nodes : objs'[n].cls = objs[n].cls
  BY DEF ClassesStay, Nodes
<1>2. \A n \in Nodes \ {1} : dom[n].parent \in Nodes
  <2>1. Nodes = 1 .. Len(dom) /\ Len(dom) \in Nat
    BY DEF TextInv, BuildInv, BuildTypes, Nodes
  <2>2. \A n \in Nodes \ {1} : dom[n].parent \in 1 .. (n - 1)
    BY DEF TextInv, BuildInv, Tree
  <2>3. ASSUME NEW n \in 1 .. Len(dom), NEW i \in 1 .. (n - 1)  PROVE i \in 1 .. Len(dom)
    BY <2>1
  <2>. QED  BY <2>1, <2>2, <2>3
<1>3. ObjectClasses'
  BY <1>1, <1>2 DEF TextInv, ObjectClasses, Factory, KidOf, Generated
<1>4. Preorder'
  BY <1>1 DEF TextInv, Preorder
<1>. QED  BY <1>3, <1>4

\* A step that meets a node: it is below the innermost element, which is
\* above all that was met since.
LEMMA TextGrows ==
  ASSUME TextInv, ClassesStay, subclassed' = subclassed, stack # <<>>,
         NEW kind \in TextKinds \cup {"element", "skipped"},
         NEW tag \in Labels, Met(kind, tag),
         NEW new, new = Len(dom) + 1,
         kind = "element" =>
           /\ tag \in Tags(objs[Top].cls)
           /\ objs'[new].cls = Factory(KidOf(objs[Top].cls, tag).cls)
  PROVE  ObjectClasses' /\ Preorder'
<1>0. BuildTypes /\ Tree /\ Nesting /\ ObjectClasses /\ Preorder
  BY DEF TextInv, BuildInv
<1>1. /\ new \in Nat /\ new \notin Nodes /\ Nodes' = Nodes \cup {new}
      /\ Nodes = 1..Len(dom)
      /\ \A n \in Nodes : n \in Nat /\ n < new /\ dom'[n] = dom[n]
      /\ dom'[new] = [kind |-> kind, tag |-> tag, parent |-> Top]
  BY <1>0, NodeMet
<1>2. \A n \in Nodes : objs'[n].cls = objs[n].cls
  BY DEF ClassesStay
<1>3. /\ Len(stack) \in DOMAIN stack /\ Top = stack[Len(stack)]
      /\ Top \in Nodes /\ Top \in Nat /\ dom[Top].kind = "element"
  BY <1>0, Innermost
<1>4. \A n \in Nodes \ {1} : dom[n].parent \in Nodes
  <2>1. Len(dom) \in Nat
    BY <1>0 DEF BuildTypes
  <2>2. \A n \in Nodes \ {1} : dom[n].parent \in 1 .. (n - 1)
    BY <1>0 DEF Tree
  <2>3. ASSUME NEW n \in 1 .. Len(dom), NEW i \in 1 .. (n - 1)  PROVE i \in 1 .. Len(dom)
    BY <2>1
  <2>. QED  BY <1>1, <2>2, <2>3
<1>5. objs[Top].cls \in DOMAIN Schema
  BY <1>0, <1>3 DEF Tree
<1>6. ObjectClasses'
  <2>1. ASSUME ~subclassed', NEW n \in Nodes', dom'[n].kind = "element"
        PROVE  objs'[n].cls \in Generated
    <3>1. CASE n \in Nodes
      BY <1>0, <1>1, <1>2, <2>1, <3>1 DEF ObjectClasses
    <3>2. CASE n = new
      <4>1. kind = "element"
        BY <1>1, <2>1, <3>2
      <4>2. objs'[n].cls = KidOf(objs[Top].cls, tag).cls
        BY <2>1, <3>2, <4>1 DEF Factory
      <4>. QED  BY <1>5, <4>1, <4>2, BranchGenerated
    <3>. QED  BY <1>1, <3>1, <3>2
  <2>2. ASSUME NEW n \in Nodes' \ {1}, dom'[n].kind = "element"
        PROVE  objs'[n].cls = Factory(KidOf(objs'[dom'[n].parent].cls, dom'[n].tag).cls)
    <3>1. CASE n \in Nodes
      <4>1. /\ dom'[n] = dom[n] /\ dom[n].parent \in Nodes
            /\ objs'[n].cls = Factory(KidOf(objs[dom[n].parent].cls, dom[n].tag).cls)
        BY <1>0, <1>1, <1>2, <1>4, <2>2, <3>1 DEF ObjectClasses
      <4>. QED  BY <1>2, <4>1
    <3>2. CASE n = new
      <4>1. kind = "element" /\ dom'[n].parent = Top /\ dom'[n].tag = tag
        BY <1>1, <2>2, <3>2
      <4>2. objs'[n].cls = Factory(KidOf(objs[Top].cls, tag).cls)
        BY <3>2, <4>1
      <4>. QED  BY <1>2, <1>3, <4>1, <4>2
    <3>. QED  BY <1>1, <3>1, <3>2
  <2>3. Generated' = Generated /\ \A c : Factory(c)' = Factory(c)
    BY DEF Generated, Factory, Kids
  <2>. QED  BY <2>1, <2>2, <2>3 DEF ObjectClasses, Factory, KidOf
<1>7. Preorder'
  <2>1. ASSUME NEW m \in Nodes', NEW n \in Nodes', dom'[n].parent < m, m < n
        PROVE  dom'[n].parent <= dom'[m].parent
    <3>1. m \in Nodes
      BY <1>1, <2>1
    <3>2. CASE n \in Nodes
      BY <1>0, <1>1, <2>1, <3>1, <3>2 DEF Preorder
    <3>3. CASE n = new
      <4>1. dom'[n].parent = Top /\ Top < m
        BY <1>1, <2>1, <3>3
      <4>2. dom[m].parent >= Top
        BY <1>0, <1>3, <3>1, <4>1 DEF Nesting
      <4>3. dom[m].parent \in Nat
        <5>1. dom \in Seq(Node)
          BY <1>0 DEF BuildTypes
        <5>2. dom[m] \in Node
          BY <1>1, <3>1, <5>1
        <5>. QED  BY <5>2 DEF Node
      <4>. QED  BY <1>1, <1>3, <3>1, <4>1, <4>2, <4>3
    <3>. QED  BY <1>1, <3>2, <3>3
  <2>. QED  BY <2>1 DEF Preorder
<1>. QED  BY <1>6, <1>7

\* The classes of the objects and the order of the nodes hold while a
\* document is read, and after.
THEOREM TextInvariance == Spec => []TextInv
<1>1. ASSUME Init  PROVE TextInv
  <2>1. PICK c \in Roots : objs = <<NewObject(Factory(c))>>
    BY <1>1 DEF Init
  <2>2. objs[1].cls = Factory(c)
    BY <2>1 DEF NewObject
  <2>3. Nodes = {1} /\ dom[1].parent = 0
    BY <1>1 DEF Init, Nodes
  <2>4. ObjectClasses
    BY <2>2, <2>3 DEF ObjectClasses, Generated, Factory
  <2>5. Preorder
    BY <2>3 DEF Preorder
  <2>. QED  BY <1>1, <2>4, <2>5, InitBuild DEF TextInv
<1>2. ASSUME TextInv, [Next]_vars  PROVE TextInv'
  <2>1. BuildInv' /\ ClassesStay
    BY <1>2, BuildStep DEF TextInv
  <2>2. PICK new : new = Len(dom) + 1
    OBVIOUS
  <2>3. Labels = AllTags \cup {"root", "other", ""}
    BY DEF Labels
  <2>4. objs \in Seq(Object) /\ Len(objs) = Len(dom)
    BY <1>2 DEF TextInv, BuildInv, BuildTypes
  <2>5. ObjectClasses' /\ Preorder'
    <3>1. ASSUME NEW kind \in TextKinds, ReadText(kind)
          PROVE  ObjectClasses' /\ Preorder'
      <4>1. /\ subclassed' = subclassed /\ stack # <<>> /\ Met(kind, "")
            /\ kind \in TextKinds \cup {"element", "skipped"} /\ kind # "element"
            /\ "" \in Labels
        BY <2>3, <3>1 DEF ReadText, TextKinds
      <4>. QED  BY <1>2, <2>1, <2>2, <4>1, TextGrows
    <3>2. ASSUME NEW tag \in AllTags, OpenElement(tag)
          PROVE  ObjectClasses' /\ Preorder'
      <4>. DEFINE c == Factory(KidOf(objs[Top].cls, tag).cls)
      <4>1. PICK kind \in TextKinds \cup {"element", "skipped"} :
              kind = "element" /\ Met(kind, tag)
        BY <3>2 DEF OpenElement
      <4>2. /\ subclassed' = subclassed /\ stack # <<>>
            /\ tag \in Labels /\ tag \in Tags(objs[Top].cls)
            /\ objs' = Append(objs, NewObject(c))
        BY <2>3, <3>2 DEF OpenElement
      <4>3. NewObject(c).cls = c
        BY DEF NewObject
      <4>4. objs'[new].cls = c
        <5>. HIDE DEF c
        <5>. QED  BY <2>2, <2>4, <4>2, <4>3
      <4>. QED  BY <1>2, <2>1, <2>2, <4>1, <4>2, <4>4, TextGrows
    <3>3. CASE SkipElement
      <4>1. PICK kind \in TextKinds \cup {"element", "skipped"} :
              kind = "skipped" /\ Met(kind, "other")
        BY <3>3 DEF SkipElement
      <4>2. /\ subclassed' = subclassed /\ stack # <<>>
            /\ kind # "element" /\ "other" \in Labels
        BY <2>3, <3>3, <4>1 DEF SkipElement
      <4>. QED  BY <1>2, <2>1, <2>2, <4>1, <4>2, TextGrows
    <3>4. CASE dom' = dom /\ subclassed' = subclassed
      BY <1>2, <2>1, <3>4, TextStays
    <3>5. ASSUME \/ \E tag \in AllTags : BadInteger(tag)
                 \/ CloseElement \/ ElementInText \/ UNCHANGED vars
          PROVE  dom' = dom /\ subclassed' = subclassed
      BY <3>5, Zenon DEF BadInteger, CloseElement, ElementInText, Raise, vars
    <3>. QED  BY <1>2, <3>1, <3>2, <3>3, <3>4, <3>5, Zenon DEF Next
  <2>. QED  BY <2>1, <2>5 DEF TextInv
<1>. QED  BY <1>1, <1>2, PTL DEF Spec

-----------------------------------------------------------------------------
(* What export() writes is read again: the objects that are finished, and
   the classes of text.                                                    *)

\* An object that is finished holds, in order, children that are due there,
\* and all of them where there is room.
LEMMA FinishedHolds ==
  ASSUME BuildInv, exc = "none", NEW n \in Nodes, Finished(n),
         NEW s \in Slots[objs[n].cls]
  PROVE  /\ objs[n].cls \in DOMAIN Schema /\ DOMAIN objs[n].held = Slots[objs[n].cls]
         /\ objs[n].held[s] \in Seq(Nat) /\ Increasing(objs[n].held[s])
         /\ \A x \in Range(objs[n].held[s]) : x \in Expected(n, s)
         /\ s \notin OneChild[objs[n].cls] =>
              \A x \in Expected(n, s) : x \in Range(objs[n].held[s])
<1>1. dom[n].kind = "element" /\ BuildTypes /\ Tree /\ HeldFits
  BY DEF Finished, BuildInv
<1>2. objs[n].cls \in DOMAIN Schema /\ DOMAIN objs[n].held = Slots[objs[n].cls]
  BY <1>1 DEF Tree
<1>3. objs[n] \in Object
  BY <1>1 DEF BuildTypes, Nodes
<1>4. objs[n].held[s] \in Seq(Nat)
  BY <1>2, <1>3, HeldLists
<1>. DEFINE list == objs[n].held[s]  due == Expected(n, s)
<1>5. Fits(list, due, s \in OneChild[objs[n].cls])
  BY <1>1, <1>2 DEF HeldFits
<1>. HIDE DEF list, due
<1>6. Increasing(list) /\ \A x \in Range(list) : x \in due
  BY <1>5 DEF Fits, Range
<1>7. ASSUME s \notin OneChild[objs[n].cls]  PROVE \A x \in due : x \in Range(list)
  BY <1>5, <1>7 DEF Fits, Range
<1>. QED  BY <1>2, <1>4, <1>6, <1>7 DEF list, due

\* What is due at a list: text of that kind, or an element with that branch.
LEMMA DueThere ==
  ASSUME BuildInv, NEW n \in Nodes, NEW s, NEW x \in Expected(n, s)
  PROVE  /\ x \in Nodes /\ x \in Nat /\ n < x /\ dom[x].parent = n
         /\ \/ /\ dom[x].kind \in TextKinds
               /\ s \in TextSlots(objs[n].cls, dom[x].kind)
            \/ /\ dom[x].kind = "element" /\ dom[x].kind \notin TextKinds
               /\ dom[x].tag \in Tags(objs[n].cls)
               /\ KidOf(objs[n].cls, dom[x].tag).slot = s
<1>1. /\ x \in Nodes /\ dom[x].parent = n
      /\ \/ /\ dom[x].kind \in TextKinds
            /\ s \in TextSlots(objs[n].cls, dom[x].kind)
         \/ /\ dom[x].kind = "element"
            /\ KidOf(objs[n].cls, dom[x].tag).slot = s
  BY DEF Expected, Children
<1>2. BuildTypes /\ Tree /\ Nodes = 1 .. Len(dom) /\ Len(dom) \in Nat
  BY DEF BuildInv, BuildTypes, Nodes
<1>3. x # 1 /\ n \in Nat /\ x \in Nat
  BY <1>1, <1>2 DEF Tree
<1>4. n \in 1 .. (x - 1) /\ (dom[x].kind = "element" => dom[x].tag \in Tags(objs[n].cls))
  BY <1>1, <1>2, <1>3 DEF Tree
<1>5. "element" \notin TextKinds
  BY DEF TextKinds
<1>. QED  BY <1>1, <1>3, <1>4, <1>5

\* What is written for an object of class c.
EntryTags(c) == {kid.tag : kid \in Kids(c)} \cup {""}
Forms(c) == {kid.form : kid \in Kids(c)} \cup {"raw", "quoted"}
Entries(c) == [tag : EntryTags(c), node : Nat, form : Forms(c)]

\* What the assumption says of a class of text.
LEMMA TextClass ==
  ASSUME NEW c \in Generated \ {"str"}, "valueOf_" \in Slots[c]
  PROVE  /\ c \in DOMAIN Schema /\ Slots[c] \subseteq {"valueOf_", "content_"}
         /\ Kids(c) = {} /\ Tags(c) = {} /\ OneChild[c] = {}
         /\ "valueOf_" \in TextSlots(c, "text")
         /\ \A kind \in TextKinds : "content_" \in TextSlots(c, kind) => kind = "text"
<1>1. c \in DOMAIN Schema
  BY SchemaAssumption DEF Generated
<1>2. /\ Slots[c] \subseteq {"valueOf_", "content_"} /\ Schema[c].kids = <<>>
      /\ "valueOf_" \in TextSlots(c, "text")
      /\ \A kind \in TextKinds : "content_" \in TextSlots(c, kind) => kind = "text"
  BY WritingAssumption
<1>3. Kids(c) = {}
  BY <1>2 DEF Kids
<1>4. Tags(c) = {} /\ OneChild[c] = {}
  BY <1>1, <1>3 DEF Tags, Branches, OneChild
<1>. QED  BY <1>1, <1>2, <1>3, <1>4

\* What it says of any other class.
LEMMA OtherClass ==
  ASSUME NEW c \in Generated \ {"str"}, "valueOf_" \notin Slots[c]
  PROVE  /\ c \in DOMAIN Schema /\ "" \notin Tags(c)
         /\ Schema[c].kids \in Seq(Kids(c))
         /\ \A i, j \in DOMAIN Schema[c].kids :
              Schema[c].kids[i].tag = Schema[c].kids[j].tag => i = j
         /\ \/ Slots[c] = {"content_"}
            \/ /\ "content_" \notin Slots[c]
               /\ \A kind \in TextKinds : TextSlots(c, kind) = {}
               /\ \A i, j \in DOMAIN Schema[c].kids :
                    Schema[c].kids[i].slot = Schema[c].kids[j].slot => i = j
<1>1. c \in DOMAIN Schema
  BY SchemaAssumption DEF Generated
<1>2. \A kid \in Kids(c) : kid.tag # ""
  BY WritingAssumption
<1>3. "" \notin Tags(c)
  BY <1>1, <1>2 DEF Tags, Branches
<1>4. Schema[c].kids \in Seq(Kids(c))
  BY WritingAssumption
<1>5. \A i, j \in DOMAIN Schema[c].kids :
              Schema[c].kids[i].tag = Schema[c].kids[j].tag => i = j
  BY WritingAssumption
<1>6. \/ Slots[c] = {"content_"}
      \/ /\ "content_" \notin Slots[c]
         /\ \A kind \in TextKinds : TextSlots(c, kind) = {}
         /\ \A i, j \in DOMAIN Schema[c].kids :
              Schema[c].kids[i].slot = Schema[c].kids[j].slot => i = j
  BY WritingAssumption
<1>. QED  BY <1>1, <1>3, <1>4, <1>5, <1>6

\* An entry that may be written.
LEMMA EntryIsOne ==
  ASSUME NEW c, NEW tag \in EntryTags(c), NEW m \in Nat, NEW form \in Forms(c),
         NEW e, e = Entry(tag, m, form)
  PROVE  e \in Entries(c) /\ e.node = m /\ e.tag = tag
BY DEF Entry, Entries

\* A class of text: quoted text is read as the text, and as mixed content but
\* for its CDATA sections.
LEMMA RereadText ==
  ASSUME BuildInv, exc = "none", NEW n \in Nodes, Finished(n),
         objs[n].cls \in Generated \ {"str"}, "valueOf_" \in Slots[objs[n].cls],
         NEW s \in Slots[objs[n].cls]
  PROVE  Reread(objs[n].cls, Written(n), s) = objs[n].held[s]
<1>. DEFINE c == objs[n].cls  v == objs[n].held["valueOf_"]  w == Written(n)
<1>1. /\ c \in DOMAIN Schema /\ DOMAIN objs[n].held = Slots[c]
      /\ v \in Seq(Nat) /\ Increasing(v)
      /\ \A x \in Range(v) : x \in Expected(n, "valueOf_")
      /\ "valueOf_" \notin OneChild[c] => \A x \in Expected(n, "valueOf_") : x \in Range(v)
  BY FinishedHolds
<1>2. w = [k \in DOMAIN v |-> Entry("", v[k], "quoted")]
  BY <1>1 DEF Written, Holds
<1>3. /\ s \in {"valueOf_", "content_"} /\ Kids(c) = {} /\ Tags(c) = {} /\ OneChild[c] = {}
      /\ "valueOf_" \in TextSlots(c, "text")
      /\ \A kind \in TextKinds : "content_" \in TextSlots(c, kind) => kind = "text"
  BY TextClass
<1>4. /\ \A x \in Range(v) : /\ dom[x].kind \in TextKinds /\ x \in Nat
                             /\ "valueOf_" \in TextSlots(c, dom[x].kind)
      /\ \A x \in Nodes : dom[x].parent = n /\ dom[x].kind = "text" => x \in Range(v)
  <2>1. \A x \in Range(v) : /\ dom[x].kind \in TextKinds /\ x \in Nat
                            /\ "valueOf_" \in TextSlots(c, dom[x].kind)
    BY <1>1, <1>3, DueThere
  <2>2. "text" \in TextKinds
    BY DEF TextKinds
  <2>3. ASSUME NEW x \in Nodes, dom[x].parent = n, dom[x].kind = "text"
        PROVE  x \in Range(v)
    <3>1. x \in Expected(n, "valueOf_")
      BY <1>3, <2>2, <2>3 DEF Expected, Children
    <3>. QED  BY <1>1, <1>3, <3>1
  <2>. QED  BY <2>1, <2>3
<1>5. /\ \A k \in DOMAIN v : w[k].tag = "" /\ w[k].node = v[k]
      /\ DOMAIN w = DOMAIN v /\ w \in Seq(Entries(c)) /\ Len(w) = Len(v)
  <2>1. \A k \in DOMAIN v : /\ Entry("", v[k], "quoted") \in Entries(c)
                            /\ Entry("", v[k], "quoted").tag = ""
                            /\ Entry("", v[k], "quoted").node = v[k]
    BY <1>1 DEF Entry, Entries, EntryTags, Forms
  <2>. HIDE DEF v, w
  <2>2. /\ DOMAIN w = DOMAIN v /\ w = [k \in DOMAIN v |-> w[k]]
        /\ \A k \in DOMAIN v : w[k] = Entry("", v[k], "quoted")
    BY <1>2
  <2>3. \A k \in DOMAIN v : w[k] \in Entries(c) /\ w[k].tag = "" /\ w[k].node = v[k]
    BY <2>1, <2>2
  <2>4. w \in Seq(Entries(c)) /\ Len(w) = Len(v)
    <3>. DEFINE R == Entries(c)
    <3>1. v \in Seq(Nat) /\ \A k \in DOMAIN v : w[k] \in R
      BY <1>1, <2>3
    <3>. HIDE DEF R
    <3>2. w \in Seq(R) /\ Len(w) = Len(v)
      BY <2>2, <3>1, ItemByItem, Zenon
    <3>. QED  BY <3>2 DEF R
  <2>. QED  BY <2>2, <2>3, <2>4
<1>. HIDE DEF v, w
<1>6. CASE s = "valueOf_"
  <2>. DEFINE S == {e \in Range(w) : Goes(c, e, s)}
  <2>1. \A e \in Range(w) : e \in S
    <3>. SUFFICES ASSUME NEW e \in Range(w)  PROVE Goes(c, e, s)
      OBVIOUS
    <3>1. PICK k \in DOMAIN v : e = w[k]
      BY <1>5 DEF Range
    <3>2. v[k] \in Range(v)
      BY DEF Range
    <3>3. e.tag = "" /\ s \in TextSlots(c, dom[e.node].kind)
      BY <1>4, <1>5, <1>6, <3>1, <3>2
    <3>. QED  BY <3>3 DEF Goes
  <2>2. Select(w, S) = w
    <3>. HIDE DEF S
    <3>. QED  BY <1>5, <2>1, SelectAll
  <2>3. Reread(c, w, s) = [k \in DOMAIN w |-> w[k].node]
    <3>1. s # "content_"
      BY <1>6
    <3>. QED  BY <2>2, <3>1 DEF Reread
  <2>4. [k \in DOMAIN w |-> w[k].node] = v
    <3>1. v = [k \in DOMAIN v |-> v[k]]
      BY <1>1
    <3>. QED  BY <1>5, <3>1
  <2>. QED  BY <1>6, <2>3, <2>4 DEF v, w
<1>7. CASE s = "content_"
  <2>. DEFINE S == {e \in Range(w) : dom[e.node].kind = "text"}
              b == Select(w, S)
              r == [k \in DOMAIN b |-> b[k].node]
              list == objs[n].held[s]
  <2>1. Reread(c, w, s) = r
    BY <1>7 DEF Reread
  <2>2. b \in Seq(Entries(c)) /\ \E p : Picks(w, S, Len(w), b, p)
    BY <1>5, SelectPicks
  <2>3. PICK p : Picks(w, S, Len(w), b, p)
    BY <2>2
  <2>. DEFINE lb == Len(b)  lv == Len(v)
  <2>4. /\ DOMAIN b = 1 .. lb /\ lb \in Nat
        /\ DOMAIN v = 1 .. lv /\ lv \in Nat /\ lv = Len(w)
    <3>1. DOMAIN b = 1 .. lb /\ lb \in Nat
      <4>. HIDE DEF b
      <4>. QED  BY <2>2
    <3>2. DOMAIN v = 1 .. lv /\ lv \in Nat
      BY <1>1
    <3>. QED  BY <1>5, <3>1, <3>2
  <2>. HIDE DEF b, lb, lv
  <2>5. /\ \A i \in 1 .. lb : /\ p[i] \in 1 .. lv /\ b[i].node = v[p[i]]
                              /\ dom[v[p[i]]].kind = "text"
        /\ \A i, j \in 1 .. lb : i < j => p[i] < p[j]
        /\ \A k \in 1 .. lv : dom[v[k]].kind = "text" => \E i \in 1 .. lb : p[i] = k
    <3>1. /\ \A i \in 1 .. lb : p[i] \in 1 .. lv /\ b[i] = w[p[i]] /\ w[p[i]] \in S
          /\ \A i, j \in 1 .. lb : i < j => p[i] < p[j]
          /\ \A k \in 1 .. lv : w[k] \in S => \E i \in 1 .. lb : p[i] = k
      BY <2>3, <2>4 DEF Picks, lb
    <3>2. \A k \in 1 .. lv : w[k] \in S <=> dom[v[k]].kind = "text"
      BY <1>5, <2>4 DEF Range
    <3>. HIDE DEF S
    <3>. QED  BY <1>5, <2>4, <3>1, <3>2
  <2>6. /\ DOMAIN r = 1 .. lb /\ \A i \in 1 .. lb : r[i] = v[p[i]]
        /\ \A k \in 1 .. lv : v[k] \in Nat /\ v[k] \in Range(v)
    <3>1. \A k \in 1 .. lv : v[k] \in Nat
      BY <1>1, <2>4
    <3>2. \A k \in 1 .. lv : v[k] \in Range(v)
      BY <2>4 DEF Range
    <3>3. DOMAIN r = 1 .. lb /\ \A i \in 1 .. lb : r[i] = v[p[i]]
      BY <2>4, <2>5
    <3>. QED  BY <3>1, <3>2, <3>3
  <2>7. r \in Seq(Nat)
    BY <2>4, <2>5, <2>6
  <2>. HIDE DEF r
  <2>8. Increasing(r)
    BY <1>1, <2>4, <2>5, <2>6 DEF Increasing
  <2>9. /\ list \in Seq(Nat) /\ Increasing(list)
        /\ \A x : x \in Range(list) <=> x \in Expected(n, s)
    BY <1>3, FinishedHolds
  <2>. HIDE DEF list
  <2>10. "content_" \in TextSlots(c, "text")
    BY <1>1, <1>3, <1>7 DEF Slots
  <2>11. ASSUME NEW x \in Range(r)  PROVE x \in Range(list)
    <3>1. x \in Range(v) /\ dom[x].kind = "text"
      BY <2>5, <2>6, <2>11 DEF Range
    <3>2. x \in Nodes /\ dom[x].parent = n
      BY <1>1, <3>1, DueThere
    <3>3. x \in Expected(n, s)
      BY <1>7, <2>10, <3>1, <3>2 DEF Expected, Children, TextKinds
    <3>. QED  BY <2>9, <3>3
  <2>12. ASSUME NEW x \in Range(list)  PROVE x \in Range(r)
    <3>1. /\ x \in Nodes /\ dom[x].parent = n
          /\ dom[x].kind \in TextKinds /\ s \in TextSlots(c, dom[x].kind)
      BY <1>3, <2>9, <2>12, DueThere
    <3>2. dom[x].kind = "text"
      BY <1>3, <1>7, <3>1
    <3>3. x \in Range(v)
      BY <1>4, <3>1, <3>2
    <3>4. PICK k \in 1 .. lv : x = v[k]
      BY <2>4, <3>3 DEF Range
    <3>5. PICK i \in 1 .. lb : p[i] = k
      BY <2>5, <3>2, <3>4
    <3>. QED  BY <2>6, <3>4, <3>5 DEF Range
  <2>13. r = list
    BY <2>7, <2>8, <2>9, <2>11, <2>12, IncreasingIsUnique
  <2>. QED  BY <2>1, <2>13 DEF list, w
<1>. QED  BY <1>3, <1>6, <1>7

-----------------------------------------------------------------------------
(* Mixed content, and the classes written field by field.                  *)

\* Mixed content: each item is read into the one list again.
LEMMA RereadMixed ==
  ASSUME BuildInv, exc = "none", NEW n \in Nodes, Finished(n),
         objs[n].cls \in Generated \ {"str"}, "valueOf_" \notin Slots[objs[n].cls],
         Slots[objs[n].cls] = {"content_"}
  PROVE  Reread(objs[n].cls, Written(n), "content_") = objs[n].held["content_"]
<1>. DEFINE c == objs[n].cls  list == objs[n].held["content_"]  w == Written(n)
            S == {e \in Range(w) : Goes(c, e, "content_")}
            R == Entries(c)
<1>1. /\ c \in DOMAIN Schema /\ DOMAIN objs[n].held = Slots[c]
      /\ list \in Seq(Nat) /\ \A x \in Range(list) : x \in Expected(n, "content_")
  BY FinishedHolds
<1>2. "" \notin Tags(c)
  BY OtherClass
<1>3. w = [k \in DOMAIN list |->
             LET m == list[k]
             IN  IF dom[m].kind \in TextKinds THEN Entry("", m, "raw")
                 ELSE Entry(dom[m].tag, m, KidOf(c, dom[m].tag).form)]
  BY <1>1 DEF Written, WrittenMixed, Holds
<1>4. Tags(c) = {kid.tag : kid \in Kids(c)}
  BY <1>1 DEF Tags, Branches
<1>. HIDE DEF list, w
<1>5. ASSUME NEW k \in DOMAIN list
      PROVE  w[k] \in R /\ w[k].node = list[k] /\ Goes(c, w[k], "content_")
  <2>1. PICK m : m = list[k]
    OBVIOUS
  <2>2. w[k] = IF dom[m].kind \in TextKinds THEN Entry("", m, "raw")
               ELSE Entry(dom[m].tag, m, KidOf(c, dom[m].tag).form)
    BY <1>3, <2>1
  <2>3. m \in Range(list)
    BY <2>1 DEF Range
  <2>4. /\ m \in Nat
        /\ \/ dom[m].kind \in TextKinds /\ "content_" \in TextSlots(c, dom[m].kind)
           \/ /\ dom[m].kind \notin TextKinds /\ dom[m].tag \in Tags(c)
              /\ KidOf(c, dom[m].tag).slot = "content_"
    BY <1>1, <2>3, DueThere
  <2>5. CASE dom[m].kind \in TextKinds
    <3>1. w[k] = Entry("", m, "raw")
      BY <2>2, <2>5
    <3>2. w[k] \in R /\ w[k].node = m /\ w[k].tag = ""
      <4>1. PICK tag \in EntryTags(c), form \in Forms(c) : tag = "" /\ form = "raw"
        BY DEF EntryTags, Forms
      <4>2. w[k] = Entry(tag, m, form)
        BY <3>1, <4>1
      <4>3. w[k] \in R /\ w[k].node = m /\ w[k].tag = tag
        BY <2>4, <4>2, EntryIsOne
      <4>. QED  BY <4>1, <4>3
    <3>. QED  BY <2>1, <2>4, <2>5, <3>2 DEF Goes
  <2>6. CASE dom[m].kind \notin TextKinds
    <3>1. w[k] = Entry(dom[m].tag, m, KidOf(c, dom[m].tag).form)
      BY <2>2, <2>6
    <3>2. KidOf(c, dom[m].tag) \in Kids(c) /\ KidOf(c, dom[m].tag).tag = dom[m].tag
      BY <1>1, <2>4, <2>6, Branch
    <3>3. w[k] \in R /\ w[k].node = m /\ w[k].tag = dom[m].tag
      <4>1. PICK kid \in Kids(c) : kid = KidOf(c, dom[m].tag)
        BY <3>2
      <4>2. w[k] = Entry(kid.tag, m, kid.form)
        BY <3>1, <3>2, <4>1
      <4>3. kid.tag \in EntryTags(c) /\ kid.form \in Forms(c)
        BY DEF EntryTags, Forms
      <4>. QED  BY <2>4, <3>2, <4>1, <4>2, <4>3, EntryIsOne
    <3>. QED  BY <1>2, <2>1, <2>4, <2>6, <3>3 DEF Goes
  <2>. QED  BY <2>5, <2>6
<1>6. DOMAIN w = DOMAIN list /\ w = [k \in DOMAIN list |-> w[k]]
  BY <1>3
<1>7. w \in Seq(R)
  <2>1. \A k \in DOMAIN list : w[k] \in R
    BY <1>5
  <2>. HIDE DEF R
  <2>. QED  BY <1>1, <1>6, <2>1, ItemByItem, Zenon
<1>8. \A e \in Range(w) : e \in S
  BY <1>5, <1>6 DEF Range
<1>9. Select(w, S) = w
  <2>. HIDE DEF S, R
  <2>. QED  BY <1>7, <1>8, SelectAll
<1>10. Reread(c, w, "content_") = [k \in DOMAIN w |-> w[k].node]
  BY <1>9 DEF Reread
<1>11. list = [k \in DOMAIN list |-> list[k]]
  BY <1>1
<1>12. Reread(c, w, "content_") = list
  BY <1>5, <1>6, <1>10, <1>11
<1>. QED  BY <1>12 DEF w, list

\* Fields: what is written of a field has its tag, and no other field has
\* that tag or that list.
LEMMA RereadFields ==
  ASSUME BuildInv, exc = "none", NEW n \in Nodes, Finished(n),
         objs[n].cls \in Generated \ {"str"}, "valueOf_" \notin Slots[objs[n].cls],
         "content_" \notin Slots[objs[n].cls], NEW s \in Slots[objs[n].cls]
  PROVE  Reread(objs[n].cls, Written(n), s) = objs[n].held[s]
<1>. DEFINE c == objs[n].cls  held == objs[n].held  w == Written(n)
            kids == Schema[c].kids
            seqs == [i \in DOMAIN kids |->
                       [k \in DOMAIN held[kids[i].slot] |->
                          Entry(kids[i].tag, held[kids[i].slot][k], kids[i].form)]]
            R == Entries(c)  V == Seq(R)
            S == {e \in Range(w) : Goes(c, e, s)}
<1>1. /\ c \in DOMAIN Schema /\ DOMAIN held = Slots[c]
      /\ \A t \in Slots[c] : held[t] \in Seq(Nat)
  BY FinishedHolds
<1>2. /\ "" \notin Tags(c) /\ kids \in Seq(Kids(c))
      /\ \A i, j \in DOMAIN kids : kids[i].tag = kids[j].tag => i = j
      /\ \A kind \in TextKinds : TextSlots(c, kind) = {}
      /\ \A i, j \in DOMAIN kids : kids[i].slot = kids[j].slot => i = j
  BY OtherClass
<1>3. w = FlattenSeq(seqs)
  BY <1>1 DEF Written, WrittenFields, Holds
<1>4. /\ Tags(c) = {kid.tag : kid \in Kids(c)}
      /\ Kids(c) = {kids[i] : i \in DOMAIN kids}
      /\ Slots[c] = {kid.slot : kid \in Kids(c)}
  <2>1. Tags(c) = {kid.tag : kid \in Kids(c)}
    BY <1>1 DEF Tags, Branches
  <2>2. Kids(c) = {kids[i] : i \in DOMAIN kids}
    BY DEF Kids
  <2>3. Slots[c] = {kid.slot : kid \in Kids(c)} \cup UNION {TextSlots(c, kind) : kind \in TextKinds}
    BY <1>1 DEF Slots
  <2>4. UNION {TextSlots(c, kind) : kind \in TextKinds} = {}
    <3>1. \A kind \in TextKinds : TextSlots(c, kind) = {}
      BY <1>2
    <3>. HIDE DEF c
    <3>. QED  BY <3>1
  <2>. QED  BY <2>1, <2>2, <2>3, <2>4
<1>. HIDE DEF held, w, kids, c
<1>5. ASSUME NEW i \in DOMAIN kids
      PROVE  /\ kids[i] \in Kids(c) /\ kids[i].tag \in Tags(c) /\ kids[i].slot \in Slots[c]
             /\ held[kids[i].slot] \in Seq(Nat) /\ KidOf(c, kids[i].tag) = kids[i]
  <2>1. kids[i] \in Kids(c) /\ kids[i].tag \in Tags(c) /\ kids[i].slot \in Slots[c]
    BY <1>4
  <2>2. KidOf(c, kids[i].tag) \in Kids(c) /\ KidOf(c, kids[i].tag).tag = kids[i].tag
    BY <1>1, <2>1, Branch
  <2>3. PICK j \in DOMAIN kids : KidOf(c, kids[i].tag) = kids[j]
    BY <1>4, <2>2
  <2>. QED  BY <1>1, <1>2, <2>1, <2>2, <2>3
<1>6. ASSUME NEW i \in DOMAIN kids
      PROVE  /\ seqs[i] \in V /\ DOMAIN seqs[i] = DOMAIN held[kids[i].slot]
             /\ \A k \in DOMAIN seqs[i] : /\ seqs[i][k].node = held[kids[i].slot][k]
                                          /\ seqs[i][k].tag = kids[i].tag
  <2>. DEFINE list == held[kids[i].slot]  q == seqs[i]
  <2>1. list \in Seq(Nat)
    BY <1>5
  <2>2. q = [k \in DOMAIN list |-> Entry(kids[i].tag, list[k], kids[i].form)]
    OBVIOUS
  <2>. HIDE DEF list, q
  <2>3. ASSUME NEW k \in DOMAIN list
        PROVE  /\ q[k] \in R /\ q[k].node = list[k] /\ q[k].tag = kids[i].tag
    <3>1. list[k] \in Nat
      BY <2>1
    <3>2. q[k] = Entry(kids[i].tag, list[k], kids[i].form)
      BY <2>2
    <3>3. PICK kid \in Kids(c) : kid = kids[i]
      BY <1>5
    <3>4. q[k] = Entry(kid.tag, list[k], kid.form)
      BY <3>2, <3>3
    <3>5. kid.tag \in EntryTags(c) /\ kid.form \in Forms(c)
      BY DEF EntryTags, Forms
    <3>. QED  BY <3>1, <3>3, <3>4, <3>5, EntryIsOne
  <2>4. DOMAIN q = DOMAIN list /\ q = [k \in DOMAIN list |-> q[k]]
    BY <2>2
  <2>5. q \in Seq(R)
    <3>1. \A k \in DOMAIN list : q[k] \in R
      BY <2>3
    <3>. HIDE DEF R
    <3>. QED  BY <2>1, <2>4, <3>1, ItemByItem, Zenon
  <2>. QED  BY <2>3, <2>4, <2>5 DEF q, list
<1>7. DOMAIN seqs = DOMAIN kids /\ seqs = [i \in DOMAIN kids |-> seqs[i]]
  OBVIOUS
<1>. HIDE DEF seqs
<1>8. seqs \in Seq(V)
  <2>1. \A i \in DOMAIN kids : seqs[i] \in V
    BY <1>6
  <2>2. kids \in Seq(Kids(c))
    BY <1>2
  <2>. HIDE DEF V
  <2>. QED  BY <1>7, <2>1, <2>2, ItemByItem, Zenon
<1>9. PICK j \in DOMAIN kids : kids[j].slot = s
  BY <1>4 DEF c
<1>10. \A e : e \in Range(w) <=> \E i \in DOMAIN seqs : e \in Range(seqs[i])
  <2>. HIDE DEF R
  <2>. QED  BY <1>3, <1>8, FlattenRange
<1>11. ASSUME NEW i \in DOMAIN kids, NEW e \in Range(seqs[i])
       PROVE  e \in S <=> i = j
  <2>1. PICK k \in DOMAIN seqs[i] : e = seqs[i][k]
    BY DEF Range
  <2>2. e.tag = kids[i].tag /\ e.tag # ""
    <3>1. seqs[i][k].tag = kids[i].tag
      BY <1>6
    <3>2. kids[i].tag # ""
      BY <1>2, <1>5
    <3>. QED  BY <2>1, <3>1, <3>2
  <2>3. Goes(c, e, s) <=> kids[i].slot = s
    BY <1>5, <2>2 DEF Goes
  <2>4. kids[i].slot = s <=> i = j
    BY <1>2, <1>9
  <2>. QED  BY <1>7, <1>10, <2>3, <2>4
<1>12. Select(w, S) = seqs[j]
  <2>1. Select(FlattenSeq(seqs), S) = seqs[j]
    <3>. HIDE DEF R, S
    <3>. QED  BY <1>7, <1>8, <1>9, <1>11, SelectOfFlatten
  <2>. QED  BY <1>3, <2>1
<1>13. s # "content_"
  OBVIOUS
<1>14. Reread(c, w, s) = [k \in DOMAIN seqs[j] |-> seqs[j][k].node]
  BY <1>12, <1>13 DEF Reread
<1>15. held[s] = [k \in DOMAIN held[s] |-> held[s][k]]
  BY <1>5, <1>9
<1>16. Reread(c, w, s) = held[s]
  BY <1>6, <1>9, <1>14, <1>15
<1>. QED  BY <1>16 DEF c, w, held

\* Whatever the classes that the assumption allows and whatever the document,
\* what export() writes of an object is what build() reads again: each child
\* goes to the list it came from, in the same order, and none is left out.
THEOREM WrittenIsReadAgain == Spec => []RereadGivesTheSame
<1>1. ASSUME TextInv  PROVE RereadGivesTheSame
  <2>1. ASSUME ~subclassed, exc = "none", NEW n \in Nodes, Finished(n), objs[n].cls # "str",
               NEW s \in Slots[objs[n].cls]
        PROVE  Reread(objs[n].cls, Written(n), s) = objs[n].held[s]
    <3>1. BuildInv /\ objs[n].cls \in Generated \ {"str"}
      BY <1>1, <2>1 DEF TextInv, ObjectClasses, Finished
    <3>2. CASE "valueOf_" \in Slots[objs[n].cls]
      BY <2>1, <3>1, <3>2, RereadText
    <3>3. CASE "valueOf_" \notin Slots[objs[n].cls] /\ Slots[objs[n].cls] = {"content_"}
      <4>1. s = "content_"
        BY <3>3
      <4>. QED  BY <2>1, <3>1, <3>3, <4>1, RereadMixed
    <3>4. CASE "valueOf_" \notin Slots[objs[n].cls] /\ "content_" \notin Slots[objs[n].cls]
      BY <2>1, <3>1, <3>4, RereadFields
    <3>5. \/ "valueOf_" \in Slots[objs[n].cls]
          \/ Slots[objs[n].cls] = {"content_"}
          \/ "content_" \notin Slots[objs[n].cls]
      BY <3>1, OtherClass
    <3>. QED  BY <3>2, <3>3, <3>4, <3>5
  <2>. QED  BY <2>1 DEF RereadGivesTheSame
<1>. QED  BY <1>1, TextInvariance, PTL

-----------------------------------------------------------------------------
(* What is above a node and what is below it.                              *)

\* The parent of a node comes before it, and that of the root is no node.
LEMMA Parents ==
  ASSUME BuildInv
  PROVE  /\ Nodes = 1 .. Len(dom) /\ Len(dom) \in Nat
         /\ \A n \in Nodes : /\ n \in Nat /\ dom[n].parent \in Nat /\ dom[n].parent < n
                             /\ dom[n].parent \in Nodes \cup {0}
                             /\ dom[n].parent \in Nodes => dom[dom[n].parent].kind = "element"
<1>1. /\ Nodes = 1 .. Len(dom) /\ Len(dom) \in Nat /\ dom[1].parent = 0
      /\ \A n \in Nodes : n # 1 =>
           dom[n].parent \in 1..(n - 1) /\ dom[dom[n].parent].kind = "element"
  BY DEF BuildInv, BuildTypes, Nodes, Tree
<1>2. ASSUME NEW n \in Nodes
      PROVE  /\ n \in Nat /\ dom[n].parent \in Nat /\ dom[n].parent < n
             /\ dom[n].parent \in Nodes \cup {0}
             /\ dom[n].parent \in Nodes => dom[dom[n].parent].kind = "element"
  <2>1. CASE n = 1
    BY <1>1, <2>1
  <2>2. CASE n # 1
    BY <1>1, <2>2
  <2>. QED  BY <2>1, <2>2
<1>. QED  BY <1>1, <1>2

\* Above is what it says.
LEMMA AboveSteps ==
  ASSUME BuildInv
  PROVE  /\ Above[0] = {}
         /\ \A n \in Nodes : Above[n] = {dom[n].parent} \cup Above[dom[n].parent]
<1>. DEFINE len == Len(dom)
            Rhs(f, n) == IF n = 0 \/ n > len THEN {}
                         ELSE {dom[n].parent} \cup f[dom[n].parent]
            Upto(m, f) == f = [n \in Nat |-> IF n > m THEN {} ELSE Rhs(f, n)]
            P == {m \in 0 .. len : \E f : Upto(m, f)}
            Fixed(f) == f = [n \in Nat |-> Rhs(f, n)]
<1>1. /\ Nodes = 1 .. len /\ len \in Nat
      /\ \A n \in Nodes : dom[n].parent \in Nat /\ dom[n].parent < n
  BY Parents
<1>. HIDE DEF len
<1>2. 0 \in P
  <2>. DEFINE f == [n \in Nat |-> {}]
  <2>1. \A n \in Nat : f[n] = IF n > 0 THEN {} ELSE Rhs(f, n)
    OBVIOUS
  <2>2. f = [n \in Nat |-> f[n]]
    OBVIOUS
  <2>3. Upto(0, f)
    <3>. HIDE DEF f, Rhs
    <3>. QED  BY <2>1, <2>2
  <2>. HIDE DEF f, Upto
  <2>. QED  BY <1>1, <2>3
<1>3. ASSUME NEW m \in 1 .. len, m - 1 \in P  PROVE m \in P
  <2>1. PICK f : Upto(m - 1, f)
    BY <1>3
  <2>. DEFINE g == [n \in Nat |-> IF n = m THEN Rhs(f, m) ELSE f[n]]
  <2>2. \A n \in Nat : f[n] = IF n > m - 1 THEN {} ELSE Rhs(f, n)
    <3>. HIDE DEF Rhs
    <3>. QED  BY <2>1
  <2>3. \A n \in Nat : g[n] = IF n = m THEN Rhs(f, m) ELSE f[n]
    <3>. HIDE DEF Rhs
    <3>. QED  OBVIOUS
  <2>4. g = [n \in Nat |-> g[n]]
    OBVIOUS
  <2>. HIDE DEF g
  <2>5. ASSUME NEW n \in Nat, n <= m  PROVE Rhs(f, n) = Rhs(g, n)
    <3>1. CASE n = 0
      BY <3>1
    <3>2. CASE n # 0
      <4>1. n \in Nodes /\ m \in Nat
        BY <1>1, <2>5, <3>2
      <4>2. dom[n].parent \in Nat /\ dom[n].parent # m
        BY <1>1, <2>5, <4>1
      <4>. QED  BY <2>3, <4>2
    <3>. QED  BY <3>1, <3>2
  <2>6. ASSUME NEW n \in Nat  PROVE g[n] = IF n > m THEN {} ELSE Rhs(g, n)
    <3>. HIDE DEF Rhs
    <3>1. CASE n = m
      BY <2>3, <2>5, <3>1
    <3>2. CASE n < m
      BY <1>1, <2>2, <2>3, <2>5, <3>2
    <3>3. CASE n > m
      BY <1>1, <2>2, <2>3, <3>3
    <3>. QED  BY <1>1, <3>1, <3>2, <3>3
  <2>7. Upto(m, g)
    <3>. HIDE DEF Rhs
    <3>. QED  BY <2>4, <2>6
  <2>. HIDE DEF Upto
  <2>. QED  BY <1>1, <2>7
<1>4. PICK f : Upto(len, f)
  <2>. HIDE DEF Upto
  <2>1. \A m \in 0 .. len : m \in P
    <3>. HIDE DEF P
    <3>. QED  BY <1>1, <1>2, <1>3, Positions
  <2>. QED  BY <1>1, <2>1
<1>5. Fixed(f)
  <2>1. \A n \in Nat : (IF n > len THEN {} ELSE Rhs(f, n)) = Rhs(f, n)
    OBVIOUS
  <2>. HIDE DEF Rhs
  <2>. QED  BY <1>4, <2>1
<1>6. Fixed(Above)
  <2>1. Above = CHOOSE g : Fixed(g)
    BY DEF Above, len
  <2>. HIDE DEF Fixed
  <2>. QED  BY <1>5, <2>1
<1>7. \A n \in Nat : Above[n] = Rhs(Above, n)
  <2>. HIDE DEF Rhs
  <2>. QED  BY <1>6
<1>8. Above[0] = {}
  BY <1>7
<1>9. ASSUME NEW n \in Nodes  PROVE Above[n] = {dom[n].parent} \cup Above[dom[n].parent]
  <2>1. n \in Nat /\ n # 0 /\ ~(n > len)
    BY <1>1
  <2>2. Above[n] = Rhs(Above, n)
    <3>. HIDE DEF Rhs
    <3>. QED  BY <1>7, <2>1
  <2>3. Rhs(Above, n) = {dom[n].parent} \cup Above[dom[n].parent]
    BY <2>1
  <2>. QED  BY <2>2, <2>3
<1>. QED  BY <1>8, <1>9

\* What is below an element.
LEMMA Belows ==
  ASSUME BuildInv, NEW z \in Nodes
  PROVE  \A a \in Nodes : z \in Below(a) <=> \/ dom[z].parent = a
                                             \/ dom[z].parent \in Below(a)
<1>. SUFFICES ASSUME NEW a \in Nodes
              PROVE  z \in Below(a) <=> \/ dom[z].parent = a
                                        \/ dom[z].parent \in Below(a)
  OBVIOUS
<1>1. z \in Below(a) <=> a \in Above[z]
  BY DEF Below
<1>2. PICK q : q = dom[z].parent
  OBVIOUS
<1>3. Above[z] = {q} \cup Above[q] /\ q \in Nodes \cup {0} /\ Above[0] = {} /\ 0 \notin Nodes
  BY <1>2, AboveSteps, Parents
<1>4. q \in Below(a) <=> q \in Nodes /\ a \in Above[q]
  BY DEF Below
<1>. QED  BY <1>1, <1>2, <1>3, <1>4

\* Induction over the nodes, from the root down.
LEMMA NodesBefore ==
  ASSUME BuildInv, NEW P,
         \A z \in Nodes : (\A y \in Nodes : y < z => y \in P) => z \in P
  PROVE  \A z \in Nodes : z \in P
<1>. DEFINE len == Len(dom)
<1>1. Nodes = 1 .. len /\ len \in Nat
  BY Parents
<1>. HIDE DEF len
<1>2. ASSUME NEW k \in 1 .. len, \A i \in 1 .. k - 1 : i \in P  PROVE k \in P
  <2>1. \A y \in 1 .. len : y < k => y \in 1 .. k - 1
    BY <1>1
  <2>. QED  BY <1>1, <1>2, <2>1
<1>. QED  BY <1>1, <1>2, PositionsBefore

\* What is below an element comes after it.
LEMMA BelowIsAfter ==
  ASSUME BuildInv, NEW a \in Nodes
  PROVE  \A z \in Below(a) : z \in Nodes /\ a < z /\ z \in Nat
<1>. DEFINE P == {z \in Nodes : z \in Below(a) => a < z}
<1>1. ASSUME NEW z \in Nodes, \A y \in Nodes : y < z => y \in P  PROVE z \in P
  <2>. SUFFICES ASSUME z \in Below(a)  PROVE a < z
    OBVIOUS
  <2>1. PICK q : q = dom[z].parent
    OBVIOUS
  <2>2. q < z /\ q \in Nat /\ z \in Nat /\ a \in Nat
    BY <2>1, Parents
  <2>3. q = a \/ q \in Below(a)
    BY <2>1, Belows
  <2>4. q \in Below(a) => a < q
    BY <1>1, <2>2 DEF Below
  <2>. QED  BY <2>2, <2>3, <2>4
<1>2. \A z \in Nodes : z \in P
  <2>. HIDE DEF P
  <2>. QED  BY <1>1, NodesBefore
<1>. QED  BY <1>2, Parents DEF Below

\* What is below an element is one of its children or below one.
LEMMA BelowByChild ==
  ASSUME BuildInv, NEW a \in Nodes
  PROVE  /\ \A z \in Below(a) : \E x \in Children(a) : z = x \/ z \in Below(x)
         /\ \A x \in Children(a) : x \in Below(a) /\ Below(x) \subseteq Below(a)
<1>. DEFINE P == {z \in Nodes : z \in Below(a) =>
                                  \E x \in Children(a) : z = x \/ z \in Below(x)}
<1>1. ASSUME NEW z \in Nodes, \A y \in Nodes : y < z => y \in P  PROVE z \in P
  <2>. SUFFICES ASSUME z \in Below(a)
                PROVE  \E x \in Children(a) : z = x \/ z \in Below(x)
    OBVIOUS
  <2>1. PICK q : q = dom[z].parent
    OBVIOUS
  <2>2. CASE q = a
    BY <2>1, <2>2 DEF Children
  <2>3. CASE q # a
    <3>1. q \in Below(a) /\ q \in Nodes /\ q < z
      BY <2>1, <2>3, Belows, Parents DEF Below
    <3>2. PICK x \in Children(a) : q = x \/ q \in Below(x)
      BY <1>1, <3>1
    <3>3. z \in Below(x)
      BY <2>1, <3>2, Belows DEF Children
    <3>. QED  BY <3>3
  <2>. QED  BY <2>2, <2>3
<1>2. \A z \in Nodes : z \in P
  <2>. HIDE DEF P
  <2>. QED  BY <1>1, NodesBefore
<1>3. ASSUME NEW x \in Children(a)  PROVE x \in Below(a) /\ Below(x) \subseteq Below(a)
  <2>1. x \in Nodes /\ dom[x].parent = a
    BY DEF Children
  <2>2. x \in Below(a)
    BY <2>1, Belows
  <2>. DEFINE Q == {z \in Nodes : z \in Below(x) => z \in Below(a)}
  <2>3. ASSUME NEW z \in Nodes, \A y \in Nodes : y < z => y \in Q  PROVE z \in Q
    <3>. SUFFICES ASSUME z \in Below(x)  PROVE z \in Below(a)
      OBVIOUS
    <3>1. PICK q : q = dom[z].parent
      OBVIOUS
    <3>2. q = x \/ q \in Below(x)
      BY <2>1, <3>1, Belows
    <3>3. q \in Below(x) => q \in Below(a)
      BY <2>3, <3>1, Parents DEF Below
    <3>4. q \in Below(a)
      BY <2>2, <3>2, <3>3
    <3>. QED  BY <3>1, <3>4, Belows
  <2>4. \A z \in Nodes : z \in Q
    <3>. HIDE DEF Q
    <3>. QED  BY <2>3, NodesBefore
  <2>. QED  BY <2>2, <2>4 DEF Below
<1>. QED  BY <1>2, <1>3 DEF Below

\* What is below a child comes before the next child.
LEMMA ChildrenApart ==
  ASSUME BuildInv, Preorder, NEW x \in Nodes, NEW y \in Nodes, x < y,
         dom[x].parent = dom[y].parent
  PROVE  \A z \in Below(x) : z < y
<1>. DEFINE P == {z \in Nodes : z \in Below(x) => z < y}
<1>1. ASSUME NEW z \in Nodes, \A v \in Nodes : v < z => v \in P  PROVE z \in P
  <2>. SUFFICES ASSUME z \in Below(x)  PROVE z < y
    OBVIOUS
  <2>1. PICK q : q = dom[z].parent
    OBVIOUS
  <2>2. /\ q < z /\ q \in Nat /\ z \in Nat /\ x \in Nat /\ y \in Nat
        /\ dom[y].parent \in Nat /\ dom[y].parent < x
    BY <2>1, Parents
  <2>3. q = x \/ q \in Below(x)
    BY <2>1, Belows
  <2>4. q < y /\ x <= q
    <3>1. CASE q = x
      BY <2>2, <3>1
    <3>2. CASE q \in Below(x)
      <4>1. q < y
        BY <1>1, <2>2, <3>2 DEF Below
      <4>2. x < q
        BY <3>2, BelowIsAfter
      <4>. QED  BY <2>2, <4>1, <4>2
    <3>. QED  BY <2>3, <3>1, <3>2
  <2>5. ~(y < z)
    <3>. SUFFICES ASSUME y < z  PROVE FALSE
      OBVIOUS
    <3>1. q <= dom[y].parent
      BY <2>1, <2>4 DEF Preorder
    <3>. QED  BY <2>2, <2>4, <3>1
  <2>6. z # y
    BY <2>1, <2>2, <2>4
  <2>. QED  BY <2>2, <2>5, <2>6
<1>2. \A z \in Nodes : z \in P
  <2>. HIDE DEF P
  <2>. QED  BY <1>1, NodesBefore
<1>. QED  BY <1>2 DEF Below

-----------------------------------------------------------------------------
(* description_bit() on the nodes of a document.                           *)

\* What description_bit() goes over comes later in the document.
LEMMA ContentsAreBelow ==
  ASSUME BuildInv, exc = "none", NEW n \in Nodes
  PROVE  \A k \in DOMAIN Contents(n) : Contents(n)[k] \in Nodes /\ n < Contents(n)[k]
<1>1. HeldFits
  BY DEF BuildInv
<1>2. ASSUME NEW s \in DOMAIN objs[n].held, NEW k \in DOMAIN objs[n].held[s]
      PROVE  objs[n].held[s][k] \in Nodes /\ n < objs[n].held[s][k]
  <2>. DEFINE list == objs[n].held[s]  due == Expected(n, s)
  <2>1. Fits(list, due, s \in OneChild[objs[n].cls])
    BY <1>1, <1>2 DEF HeldFits
  <2>. HIDE DEF due, list
  <2>2. \A p \in DOMAIN list : list[p] \in due
    BY <2>1 DEF Fits
  <2>3. list[k] \in due
    BY <1>2, <2>2 DEF list
  <2>4. list[k] \in Nodes /\ n < list[k]
    BY <2>3, DueThere DEF due
  <2>. QED  BY <2>4 DEF list
<1>3. DOMAIN <<>> = {}
  OBVIOUS
<1>. QED  BY <1>2, <1>3 DEF Contents, Holds

\* description_bit is what it says: it goes over what comes later only.
LEMMA BitSteps ==
  ASSUME BuildInv, exc = "none"
  PROVE  \A n \in Nodes :
           description_bit[n] =
             IF dom[n].kind \in TextKinds THEN <<n>>
             ELSE IF objs[n].cls = "str" THEN objs[n].held["value"]
             ELSE FlattenSeq([k \in DOMAIN Contents(n) |-> description_bit[Contents(n)[k]]])
<1>. DEFINE len == Len(dom)
            Bit(f, n) == IF dom[n].kind \in TextKinds THEN <<n>>
                         ELSE IF objs[n].cls = "str" THEN objs[n].held["value"]
                         ELSE FlattenSeq([k \in DOMAIN Contents(n) |-> f[Contents(n)[k]]])
            Rhs(f, n) == IF n > len \/ n = 0 THEN <<>> ELSE Bit(f, n)
            From(m, f) == f = [n \in Nat |-> IF n < m THEN <<>> ELSE Rhs(f, n)]
            P == {j \in 0 .. len : \E f : From((len + 1) - j, f)}
            Fixed(f) == f = [n \in Nat |-> Rhs(f, n)]
<1>1. /\ Nodes = 1 .. len /\ len \in Nat
      /\ \A n \in Nodes : \A k \in DOMAIN Contents(n) :
           Contents(n)[k] \in Nodes /\ n < Contents(n)[k]
  BY Parents, ContentsAreBelow
<1>. HIDE DEF len
<1>2. ASSUME NEW n \in Nodes, NEW f, NEW g,
             \A i \in Nodes : n < i => f[i] = g[i]
      PROVE  Bit(f, n) = Bit(g, n)
  <2>1. \A k \in DOMAIN Contents(n) : f[Contents(n)[k]] = g[Contents(n)[k]]
    BY <1>1, <1>2
  <2>2. [k \in DOMAIN Contents(n) |-> f[Contents(n)[k]]] =
        [k \in DOMAIN Contents(n) |-> g[Contents(n)[k]]]
    BY <2>1
  <2>. QED  BY <2>2
<1>. HIDE DEF Bit
<1>3. 0 \in P
  <2>. DEFINE f == [n \in Nat |-> <<>>]
  <2>1. \A n \in Nat : f[n] = IF n < len + 1 THEN <<>> ELSE Rhs(f, n)
    BY <1>1
  <2>2. f = [n \in Nat |-> f[n]]
    OBVIOUS
  <2>3. From(len + 1, f)
    <3>. HIDE DEF f, Rhs
    <3>. QED  BY <2>1, <2>2
  <2>4. (len + 1) - 0 = len + 1 /\ 0 \in 0 .. len
    BY <1>1
  <2>. HIDE DEF f, From
  <2>. QED  BY <2>3, <2>4
<1>4. ASSUME NEW j \in 1 .. len, j - 1 \in P  PROVE j \in P
  <2>. DEFINE m == (len + 1) - j
  <2>1. m \in Nodes /\ (len + 1) - (j - 1) = m + 1 /\ j \in 0 .. len
    BY <1>1
  <2>. HIDE DEF m
  <2>2. PICK f : From(m + 1, f)
    <3>. HIDE DEF From
    <3>. QED  BY <1>4, <2>1
  <2>. DEFINE g == [n \in Nat |-> IF n = m THEN Rhs(f, m) ELSE f[n]]
  <2>3. \A n \in Nat : f[n] = IF n < m + 1 THEN <<>> ELSE Rhs(f, n)
    <3>. HIDE DEF Rhs
    <3>. QED  BY <2>2
  <2>4. \A n \in Nat : g[n] = IF n = m THEN Rhs(f, m) ELSE f[n]
    <3>. HIDE DEF Rhs
    <3>. QED  OBVIOUS
  <2>5. g = [n \in Nat |-> g[n]]
    OBVIOUS
  <2>. HIDE DEF g
  <2>6. ASSUME NEW n \in Nat, m <= n  PROVE Rhs(f, n) = Rhs(g, n)
    <3>1. CASE n > len
      BY <3>1
    <3>2. CASE ~(n > len)
      <4>1. n \in Nodes
        BY <1>1, <2>1, <2>6, <3>2
      <4>2. ASSUME NEW i \in Nodes, n < i  PROVE f[i] = g[i]
        <5>1. i # m /\ i \in Nat
          BY <1>1, <2>1, <2>6, <4>1, <4>2
        <5>. QED  BY <2>4, <5>1
      <4>3. Bit(f, n) = Bit(g, n)
        BY <1>2, <4>1, <4>2
      <4>. QED  BY <4>3
    <3>. QED  BY <3>1, <3>2
  <2>7. ASSUME NEW n \in Nat  PROVE g[n] = IF n < m THEN <<>> ELSE Rhs(g, n)
    <3>. HIDE DEF Rhs
    <3>0. m \in Nat
      BY <1>1, <2>1
    <3>1. CASE n = m
      BY <2>4, <2>6, <3>0, <3>1
    <3>2. CASE n < m
      <4>1. n < m + 1 /\ n # m
        BY <3>0, <3>2
      <4>. QED  BY <2>3, <2>4, <3>2, <4>1
    <3>3. CASE n > m
      <4>1. ~(n < m + 1) /\ n # m /\ ~(n < m) /\ m <= n
        BY <3>0, <3>3
      <4>. QED  BY <2>3, <2>4, <2>6, <4>1
    <3>. QED  BY <3>0, <3>1, <3>2, <3>3
  <2>8. From(m, g)
    <3>. HIDE DEF Rhs
    <3>. QED  BY <2>5, <2>7
  <2>. HIDE DEF From
  <2>9. \E h : From((len + 1) - j, h)
    BY <2>8 DEF m
  <2>. QED  BY <2>1, <2>9
<1>5. PICK f : From(1, f)
  <2>. HIDE DEF From
  <2>1. \A j \in 0 .. len : j \in P
    <3>. HIDE DEF P
    <3>. QED  BY <1>1, <1>3, <1>4, Positions
  <2>2. len \in 0 .. len /\ (len + 1) - len = 1
    BY <1>1
  <2>. QED  BY <2>1, <2>2
<1>6. Fixed(f)
  <2>1. \A n \in Nat : (IF n < 1 THEN <<>> ELSE Rhs(f, n)) = Rhs(f, n)
    OBVIOUS
  <2>. HIDE DEF Rhs
  <2>. QED  BY <1>5, <2>1
<1>7. Fixed(description_bit)
  <2>1. description_bit = CHOOSE g : Fixed(g)
    BY DEF description_bit, len, Bit
  <2>. HIDE DEF Fixed
  <2>. QED  BY <1>6, <2>1
<1>8. ASSUME NEW n \in Nodes  PROVE description_bit[n] = Bit(description_bit, n)
  <2>1. n \in Nat /\ n # 0 /\ ~(n > len)
    BY <1>1
  <2>2. description_bit[n] = Rhs(description_bit, n)
    <3>. HIDE DEF Rhs
    <3>. QED  BY <1>7, <2>1
  <2>. QED  BY <2>1, <2>2
<1>. QED  BY <1>8 DEF Bit

-----------------------------------------------------------------------------
(* The text of a description.                                              *)

\* What description_bit() may come to from a description: text, or an element
\* of a class of Prose.
Readable(m) == \/ dom[m].kind \in {"text", "cdata"}
               \/ dom[m].kind = "element" /\ objs[m].cls \in Prose

\* What is below an element and not read as text.
Odd(m) == {x \in Below(m) : \/ dom[x].kind \in {"skipped", "cdata"}
                            \/ dom[x].tag \in Lost}

\* The text of m is in order, is of m or below it, and is all of it where
\* there is nothing odd.
BitFits(m) ==
  /\ description_bit[m] \in Seq(Nat) /\ Increasing(description_bit[m])
  /\ \A z \in Range(description_bit[m]) :
       /\ z \in Below(m) \cup {m} /\ z \in Nodes
       /\ dom[z].kind \in {"text", "cdata"}
  /\ Odd(m) = {} => \A z \in Below(m) \cup {m} :
                      dom[z].kind = "text" => z \in Range(description_bit[m])

\* An element of a class of Prose: its list has its children in order, which
\* may be read again, all of them but what is lost.
LEMMA ProseContents ==
  ASSUME TextInv, subclassed, exc = "none", stack = <<>>, NEW m \in Nodes,
         dom[m].kind = "element", objs[m].cls \in Prose
  PROVE  /\ objs[m].cls # "str" /\ Describable(m)
         /\ Contents(m) \in Seq(Nat) /\ Increasing(Contents(m))
         /\ \A x \in Range(Contents(m)) : x \in Children(m) /\ Readable(x)
         /\ \A x \in Children(m) :
              (\/ dom[x].kind = "text"
               \/ dom[x].kind = "element" /\ dom[x].tag \notin Lost)
              => x \in Range(Contents(m))
<1>. DEFINE c == objs[m].cls  s == ContentOf(objs[m].cls)
<1>0. BuildInv /\ ObjectClasses /\ DOMAIN objs[m].held = Slots[c]
  BY DEF TextInv, BuildInv, Tree
<1>1. /\ c \in DOMAIN Schema /\ c # "str"
      /\ s \in TextSlots(c, "text") /\ s \notin TextSlots(c, "comment")
      /\ \A kid \in Kids(c) : IF kid.tag \in Lost THEN kid.slot # s
                              ELSE kid.slot = s /\ Subclass(kid.cls) \in Prose
  BY ProseAssumption
<1>2. "text" \in TextKinds /\ "text" # "element"
  BY DEF TextKinds
<1>3. s \in Slots[c] /\ s \notin OneChild[c]
  BY <1>1, <1>2, TextGoesToLists DEF Slots
<1>4. s = IF "content" \in Slots[c] THEN "content" ELSE "content_"
  BY DEF ContentOf
<1>5. Contents(m) = objs[m].held[s] /\ Describable(m)
  BY <1>0, <1>3, <1>4 DEF Contents, Describable, Holds
<1>6. \A n : ~Active(n)
  BY DEF Active
<1>7. Finished(m)
  BY <1>6 DEF Finished
<1>8. /\ Contents(m) \in Seq(Nat) /\ Increasing(Contents(m))
      /\ \A x \in Range(Contents(m)) : x \in Expected(m, s)
      /\ \A x \in Expected(m, s) : x \in Range(Contents(m))
  <2>. HIDE DEF s
  <2>. QED  BY <1>0, <1>3, <1>5, <1>7, FinishedHolds
<1>. HIDE DEF c, s
<1>9. ASSUME NEW x \in Range(Contents(m))  PROVE x \in Children(m) /\ Readable(x)
  <2>1. x \in Expected(m, s)
    BY <1>8
  <2>2. /\ x \in Nodes /\ x \in Nat /\ m < x /\ dom[x].parent = m
        /\ \/ dom[x].kind \in TextKinds /\ s \in TextSlots(objs[m].cls, dom[x].kind)
           \/ /\ dom[x].kind = "element"
              /\ dom[x].tag \in Tags(objs[m].cls)
              /\ KidOf(objs[m].cls, dom[x].tag).slot = s
    BY <1>0, <2>1, DueThere
  <2>3. CASE dom[x].kind \in TextKinds /\ s \in TextSlots(objs[m].cls, dom[x].kind)
    <3>1. dom[x].kind # "comment"
      BY <1>1, <2>3 DEF c
    <3>2. dom[x].kind \in {"text", "cdata"}
      BY <2>3, <3>1 DEF TextKinds
    <3>. QED  BY <2>2, <3>2 DEF Readable, Children
  <2>4. CASE /\ dom[x].kind = "element"
             /\ dom[x].tag \in Tags(objs[m].cls)
             /\ KidOf(objs[m].cls, dom[x].tag).slot = s
    <3>. DEFINE kid == KidOf(c, dom[x].tag)
    <3>1. kid \in Kids(c) /\ kid.slot = s
      BY <1>1, <2>4, Branch DEF c
    <3>. HIDE DEF kid
    <3>2. Subclass(kid.cls) \in Prose
      BY <1>1, <3>1
    <3>3. x # 1
      <4>1. m \in Nat /\ m > 0
        BY <1>0, Parents
      <4>. QED  BY <2>2, <4>1
    <3>4. objs[x].cls = Factory(KidOf(objs[dom[x].parent].cls, dom[x].tag).cls)
      BY <1>0, <2>2, <2>4, <3>3 DEF ObjectClasses
    <3>5. objs[x].cls = Factory(kid.cls)
      BY <2>2, <3>4 DEF kid, c
    <3>6. Factory(kid.cls) = Subclass(kid.cls)
      BY DEF Factory
    <3>7. objs[x].cls \in Prose
      BY <3>2, <3>5, <3>6
    <3>. QED  BY <2>2, <2>4, <3>7 DEF Readable, Children
  <2>. QED  BY <2>2, <2>3, <2>4
<1>10. ASSUME NEW x \in Children(m),
              \/ dom[x].kind = "text"
              \/ dom[x].kind = "element" /\ dom[x].tag \notin Lost
       PROVE  x \in Range(Contents(m))
  <2>1. x \in Nodes /\ dom[x].parent = m
    BY DEF Children
  <2>2. CASE dom[x].kind = "text"
    <3>1. x \in Expected(m, s)
      BY <1>1, <1>2, <2>2 DEF Expected, c
    <3>. QED  BY <1>8, <3>1
  <2>3. CASE dom[x].kind = "element" /\ dom[x].tag \notin Lost
    <3>1. x # 1
      <4>1. dom[1].parent = 0 /\ m # 0
        BY <1>0, Parents DEF BuildInv, Tree
      <4>. QED  BY <2>1, <4>1
    <3>2. dom[x].tag \in Tags(c)
      <4>1. dom[x].tag \in Tags(objs[dom[x].parent].cls)
        BY <1>0, <2>1, <2>3, <3>1 DEF BuildInv, Tree
      <4>. QED  BY <2>1, <4>1 DEF c
    <3>. DEFINE kid == KidOf(c, dom[x].tag)
    <3>3. kid \in Kids(c) /\ kid.tag = dom[x].tag
      BY <1>1, <3>2, Branch
    <3>. HIDE DEF kid
    <3>4. kid.slot = s
      BY <1>1, <2>3, <3>3
    <3>5. x \in Expected(m, s)
      BY <1>6, <2>3, <3>4 DEF Expected, kid, c
    <3>. QED  BY <1>8, <3>5
  <2>. QED  BY <1>10, <2>2, <2>3
<1>. QED  BY <1>1, <1>5, <1>8, <1>9, <1>10 DEF c

\* Induction over the nodes, from the last one back.
LEMMA NodesAfter ==
  ASSUME BuildInv, NEW P,
         \A z \in Nodes : (\A y \in Nodes : z < y => y \in P) => z \in P
  PROVE  \A z \in Nodes : z \in P
<1>. DEFINE len == Len(dom)
<1>1. Nodes = 1 .. len /\ len \in Nat
  BY Parents
<1>. HIDE DEF len
<1>2. ASSUME NEW k \in 1 .. len, \A i \in k + 1 .. len : i \in P  PROVE k \in P
  <2>1. \A y \in 1 .. len : k < y => y \in k + 1 .. len
    BY <1>1
  <2>. QED  BY <1>1, <1>2, <2>1
<1>. QED  BY <1>1, <1>2, PositionsAfter

\* Only elements have something below them.
LEMMA NothingBelow ==
  ASSUME BuildInv, NEW m \in Nodes, dom[m].kind # "element"
  PROVE  Below(m) = {}
<1>1. ASSUME NEW z \in Below(m)  PROVE FALSE
  <2>1. PICK x \in Children(m) : TRUE
    BY BelowByChild
  <2>2. x \in Nodes /\ dom[x].parent = m
    BY DEF Children
  <2>. QED  BY <2>2, Parents
<1>. QED  BY <1>1

\* The texts of the items of an element are in order, one after the other.
LEMMA BitsInOrder ==
  ASSUME TextInv, NEW m \in Nodes, NEW list \in Seq(Nat), Increasing(list),
         \A x \in Range(list) : x \in Children(m) /\ BitFits(x),
         NEW seqs, seqs = [k \in DOMAIN list |-> description_bit[list[k]]]
  PROVE  /\ seqs \in Seq(Seq(Nat)) /\ DOMAIN seqs = DOMAIN list
         /\ FlattenSeq(seqs) \in Seq(Nat) /\ Increasing(FlattenSeq(seqs))
         /\ \A z : z \in Range(FlattenSeq(seqs)) <=>
              \E x \in Range(list) : z \in Range(description_bit[x])
<1>0. BuildInv /\ Preorder
  BY DEF TextInv
<1>1. \A k \in DOMAIN list : /\ list[k] \in Range(list) /\ list[k] \in Nat
                             /\ list[k] \in Children(m) /\ BitFits(list[k])
  BY DEF Range
<1>2. \A k \in DOMAIN list : seqs[k] = description_bit[list[k]]
  OBVIOUS
<1>3. \A k \in DOMAIN list : seqs[k] \in Seq(Nat) /\ Increasing(seqs[k])
  BY <1>1, <1>2 DEF BitFits
<1>4. seqs \in Seq(Seq(Nat)) /\ DOMAIN seqs = DOMAIN list
  <2>1. seqs = [k \in DOMAIN list |-> seqs[k]]
    OBVIOUS
  <2>. DEFINE R == Seq(Nat)
  <2>2. \A k \in DOMAIN list : seqs[k] \in R
    BY <1>3
  <2>. HIDE DEF R
  <2>3. seqs \in Seq(R) /\ DOMAIN seqs = DOMAIN list
    BY <2>1, <2>2, ItemByItem
  <2>. QED  BY <2>3 DEF R
<1>5. ASSUME NEW i \in DOMAIN seqs, NEW j \in DOMAIN seqs, i < j,
             NEW z \in Range(seqs[i]), NEW y \in Range(seqs[j])
      PROVE  z < y
  <2>. DEFINE a == list[i]  b == list[j]
  <2>1. /\ a \in Children(m) /\ b \in Children(m) /\ a < b /\ BitFits(a) /\ BitFits(b)
        /\ seqs[i] = description_bit[a] /\ seqs[j] = description_bit[b]
    BY <1>1, <1>2, <1>4, <1>5 DEF Increasing
  <2>. HIDE DEF a, b
  <2>2. /\ a \in Nodes /\ b \in Nodes /\ dom[a].parent = dom[b].parent
        /\ a \in Nat /\ b \in Nat
    <3>1. a \in Nodes /\ b \in Nodes /\ dom[a].parent = m /\ dom[b].parent = m
      BY <2>1 DEF Children
    <3>. QED  BY <1>0, <3>1, Parents
  <2>3. (z = a \/ z \in Below(a)) /\ (y = b \/ y \in Below(b))
    BY <1>5, <2>1 DEF BitFits
  <2>4. z < b /\ z \in Nat
    <3>1. CASE z = a
      BY <2>1, <2>2, <3>1
    <3>2. CASE z \in Below(a)
      BY <1>0, <2>1, <2>2, <3>2, ChildrenApart, BelowIsAfter
    <3>. QED  BY <2>3, <3>1, <3>2
  <2>5. y = b \/ (b < y /\ y \in Nat)
    BY <1>0, <2>2, <2>3, BelowIsAfter
  <2>. QED  BY <2>2, <2>4, <2>5
<1>6. FlattenSeq(seqs) \in Seq(Nat)
  BY <1>4, FlattenRange
<1>7. Increasing(FlattenSeq(seqs))
  BY <1>3, <1>4, <1>5, FlattenIncreasing
<1>8. \A z : z \in Range(FlattenSeq(seqs)) <=> \E i \in DOMAIN seqs : z \in Range(seqs[i])
  BY <1>4, FlattenRange
<1>9. \A z : (\E i \in DOMAIN seqs : z \in Range(seqs[i])) <=>
             \E x \in Range(list) : z \in Range(description_bit[x])
  <2>1. \A x \in Range(list) : \E i \in DOMAIN list : x = list[i]
    BY DEF Range
  <2>. HIDE DEF Range
  <2>2. ASSUME NEW z, NEW i \in DOMAIN seqs, z \in Range(seqs[i])
        PROVE  \E x \in Range(list) : z \in Range(description_bit[x])
    BY <1>1, <1>2, <1>4, <2>2
  <2>3. ASSUME NEW z, NEW x \in Range(list), z \in Range(description_bit[x])
        PROVE  \E i \in DOMAIN seqs : z \in Range(seqs[i])
    <3>1. PICK i \in DOMAIN list : x = list[i]
      BY <2>1
    <3>2. seqs[i] = description_bit[x]
      BY <1>2, <3>1
    <3>. QED  BY <1>4, <2>3, <3>2
  <2>. QED  BY <2>2, <2>3
<1>. QED  BY <1>4, <1>6, <1>7, <1>8, <1>9, Zenon

\* What is odd below a child is odd below its parent.
LEMMA OddBelow ==
  ASSUME BuildInv, NEW m \in Nodes, NEW x \in Children(m), Odd(m) = {}
  PROVE  /\ Odd(x) = {} /\ x \in Nodes
         /\ dom[x].kind \notin {"skipped", "cdata"} /\ dom[x].tag \notin Lost
<1>1. x \in Below(m) /\ Below(x) \subseteq Below(m)
  BY BelowByChild
<1>. QED  BY <1>1 DEF Odd, Below

\* The text of what can be read.
LEMMA BitsFit ==
  ASSUME TextInv, subclassed, exc = "none", stack = <<>>
  PROVE  \A m \in Nodes : Readable(m) => BitFits(m)
<1>. DEFINE P == {m \in Nodes : Readable(m) => BitFits(m)}
<1>0. BuildInv
  BY DEF TextInv
<1>1. ASSUME NEW m \in Nodes, \A y \in Nodes : m < y => y \in P  PROVE m \in P
  <2>. SUFFICES ASSUME Readable(m)  PROVE BitFits(m)
    OBVIOUS
  <2>0. m \in Nat
    BY <1>0, Parents
  <2>1. CASE dom[m].kind \in {"text", "cdata"}
    <3>1. Below(m) = {}
      BY <1>0, <2>1, NothingBelow
    <3>2. description_bit[m] = <<m>>
      BY <1>0, <2>1, BitSteps DEF TextKinds
    <3>3. <<m>> \in Seq(Nat) /\ Range(<<m>>) = {m} /\ Increasing(<<m>>)
      BY <2>0 DEF Range, Increasing
    <3>. QED  BY <2>1, <3>1, <3>2, <3>3 DEF BitFits
  <2>2. CASE dom[m].kind = "element" /\ objs[m].cls \in Prose
    <3>1. /\ objs[m].cls # "str"
          /\ Contents(m) \in Seq(Nat) /\ Increasing(Contents(m))
          /\ \A x \in Range(Contents(m)) : x \in Children(m) /\ Readable(x)
          /\ \A x \in Children(m) :
               (\/ dom[x].kind = "text"
                \/ dom[x].kind = "element" /\ dom[x].tag \notin Lost)
               => x \in Range(Contents(m))
      BY <2>2, ProseContents
    <3>2. dom[m].kind \notin TextKinds
      BY <2>2 DEF TextKinds
    <3>. DEFINE list == Contents(m)
                seqs == [k \in DOMAIN list |-> description_bit[list[k]]]
    <3>3. description_bit[m] = FlattenSeq(seqs)
      BY <1>0, <3>1, <3>2, BitSteps
    <3>4. \A x \in Children(m) : x \in Nodes /\ m < x
      <4>1. \A x \in Children(m) : x \in Below(m)
        BY <1>0, BelowByChild
      <4>. QED  BY <1>0, <4>1, BelowIsAfter
    <3>5. \A x \in Range(list) : x \in Children(m) /\ BitFits(x)
      BY <1>1, <3>1, <3>4
    <3>. HIDE DEF list
    <3>6. list \in Seq(Nat) /\ Increasing(list)
      BY <3>1 DEF list
    <3>7. /\ FlattenSeq(seqs) \in Seq(Nat) /\ Increasing(FlattenSeq(seqs))
          /\ \A z : z \in Range(FlattenSeq(seqs)) <=>
               \E x \in Range(list) : z \in Range(description_bit[x])
      <4>. DEFINE f == seqs
      <4>1. f = [k \in DOMAIN list |-> description_bit[list[k]]]
        OBVIOUS
      <4>. HIDE DEF f, seqs
      <4>2. /\ FlattenSeq(f) \in Seq(Nat) /\ Increasing(FlattenSeq(f))
            /\ \A z : z \in Range(FlattenSeq(f)) <=>
                 \E x \in Range(list) : z \in Range(description_bit[x])
        BY <3>5, <3>6, <4>1, BitsInOrder
      <4>. QED  BY <4>2 DEF f
    <3>. HIDE DEF seqs
    <3>8. ASSUME NEW z \in Range(description_bit[m])
          PROVE  z \in Below(m) /\ z \in Nodes /\ dom[z].kind \in {"text", "cdata"}
      <4>1. PICK x \in Range(list) : z \in Range(description_bit[x])
        BY <3>3, <3>7, <3>8
      <4>2. x \in Children(m) /\ BitFits(x)
        BY <3>5
      <4>3. z \in Below(x) \cup {x} /\ z \in Nodes /\ dom[z].kind \in {"text", "cdata"}
        BY <4>1, <4>2 DEF BitFits
      <4>4. x \in Below(m) /\ Below(x) \subseteq Below(m)
        BY <1>0, <4>2, BelowByChild
      <4>. QED  BY <4>3, <4>4
    <3>9. ASSUME Odd(m) = {}, NEW z \in Below(m) \cup {m}, dom[z].kind = "text"
          PROVE  z \in Range(description_bit[m])
      <4>1. z \in Below(m)
        BY <2>2, <3>9
      <4>2. PICK x \in Children(m) : z = x \/ z \in Below(x)
        BY <1>0, <4>1, BelowByChild
      <4>3. Odd(x) = {} /\ x \in Nodes /\ dom[x].tag \notin Lost
        BY <1>0, <3>9, <4>2, OddBelow
      <4>4. dom[x].kind = "text" \/ dom[x].kind = "element"
        <5>1. z = x \/ dom[x].kind = "element"
          BY <1>0, <4>2, <4>3, NothingBelow
        <5>. QED  BY <3>9, <5>1
      <4>5. x \in Range(list)
        BY <3>1, <4>2, <4>3, <4>4 DEF list
      <4>6. z \in Range(description_bit[x])
        BY <3>5, <3>9, <4>2, <4>3, <4>5 DEF BitFits
      <4>. QED  BY <3>3, <3>7, <4>5, <4>6
    <3>. QED  BY <3>3, <3>7, <3>8, <3>9 DEF BitFits
  <2>. QED  BY <2>1, <2>2 DEF Readable
<1>2. \A m \in Nodes : m \in P
  <2>. HIDE DEF P
  <2>. QED  BY <1>0, <1>1, NodesAfter
<1>. QED  BY <1>2

\* Below an element of a class of Prose, without anything odd, there are
\* elements of such classes only.
LEMMA AllProse ==
  ASSUME TextInv, subclassed, exc = "none", stack = <<>>, NEW n \in Nodes,
         dom[n].kind = "element", objs[n].cls \in Prose, Odd(n) = {}
  PROVE  \A z \in Below(n) : dom[z].kind = "element" => objs[z].cls \in Prose
<1>. DEFINE P == {z \in Nodes : z \in Below(n) /\ dom[z].kind = "element"
                                  => objs[z].cls \in Prose}
<1>0. BuildInv
  BY DEF TextInv
<1>1. ASSUME NEW z \in Nodes, \A y \in Nodes : y < z => y \in P  PROVE z \in P
  <2>. SUFFICES ASSUME z \in Below(n), dom[z].kind = "element"
                PROVE  objs[z].cls \in Prose
    OBVIOUS
  <2>1. PICK q : q = dom[z].parent
    OBVIOUS
  <2>2. q < z /\ (q = n \/ q \in Below(n))
    BY <1>0, <2>1, Parents, Belows
  <2>3. q \in Nodes /\ dom[q].kind = "element"
    <3>1. q \in Nodes
      BY <2>2 DEF Below
    <3>. QED  BY <1>0, <2>1, <3>1, Parents
  <2>4. objs[q].cls \in Prose
    BY <1>1, <2>2, <2>3
  <2>5. z \in Children(q) /\ dom[z].tag \notin Lost
    BY <2>1 DEF Children, Odd
  <2>6. z \in Range(Contents(q))
    BY <2>3, <2>4, <2>5, ProseContents
  <2>7. Readable(z)
    BY <2>3, <2>4, <2>6, ProseContents
  <2>. QED  BY <2>7 DEF Readable
<1>2. \A z \in Nodes : z \in P
  <2>. HIDE DEF P
  <2>. QED  BY <1>0, <1>1, NodesBefore
<1>. QED  BY <1>2 DEF Below

\* A description gives the text below it, all of it where nothing is odd, in
\* the order of the document (text.py on the objects that build() makes).
THEOREM DescriptionsAreTheText == Spec => []DescriptionIsTheText
<1>1. ASSUME TextInv  PROVE DescriptionIsTheText
  <2>. SUFFICES ASSUME NEW n \in Nodes, subclassed, exc = "none", Finished(n),
                       objs[n].cls \in Descriptions
       PROVE  LET text == description_bit[n]
                  words == {m \in Below(n) : dom[m].kind = "text"}
                  odd == {m \in Below(n) : \/ dom[m].kind \in {"skipped", "cdata"}
                                           \/ dom[m].tag \in Lost}
              IN  /\ \A m \in Below(n) :
                       dom[m].kind = "element" => Describable(m) \/ odd # {}
                  /\ \A p, q \in DOMAIN text : p < q => text[p] < text[q]
                  /\ odd = {} => words = {text[p] : p \in DOMAIN text}
    BY DEF DescriptionIsTheText
  <2>. DEFINE text == description_bit[n]
  <2>1. /\ stack = <<>> /\ dom[n].kind = "element" /\ objs[n].cls \in Prose
        /\ BuildInv
    BY <1>1, ProseAssumption DEF Finished, TextInv
  <2>2. BitFits(n)
    BY <1>1, <2>1, BitsFit DEF Readable
  <2>3. ASSUME Odd(n) = {}, NEW m \in Below(n), dom[m].kind = "element"
        PROVE  Describable(m)
    <3>1. m \in Nodes /\ objs[m].cls \in Prose
      BY <1>1, <2>1, <2>3, AllProse DEF Below
    <3>. QED  BY <1>1, <2>1, <2>3, <3>1, ProseContents
  <2>4. \A p, q \in DOMAIN text : p < q => text[p] < text[q]
    BY <2>2 DEF BitFits, Increasing
  <2>5. ASSUME Odd(n) = {}
        PROVE  {m \in Below(n) : dom[m].kind = "text"} = {text[p] : p \in DOMAIN text}
    <3>1. {text[p] : p \in DOMAIN text} = Range(text)
      BY DEF Range
    <3>2. ASSUME NEW z \in Range(text)  PROVE z \in Below(n) /\ dom[z].kind = "text"
      <4>1. z \in Below(n) \cup {n} /\ dom[z].kind \in {"text", "cdata"}
        BY <2>2 DEF BitFits
      <4>2. z \in Below(n)
        BY <2>1, <4>1
      <4>. QED  BY <2>5, <4>1, <4>2 DEF Odd
    <3>3. ASSUME NEW z \in Below(n), dom[z].kind = "text"  PROVE z \in Range(text)
      BY <2>2, <2>5, <3>3 DEF BitFits
    <3>. QED  BY <3>1, <3>2, <3>3
  <2>. HIDE DEF text
  <2>6. Odd(n) = {m \in Below(n) : \/ dom[m].kind \in {"skipped", "cdata"}
                                   \/ dom[m].tag \in Lost}
    BY DEF Odd
  <2>. QED  BY <2>3, <2>4, <2>5, <2>6 DEF text
<1>. QED  BY <1>1, TextInvariance, PTL

=============================================================================
