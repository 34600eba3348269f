------------------------- MODULE UpdatePydocProofs --------------------------
(***************************************************************************)
(* Why every class and function is in the JSON file that scrape writes,    *)
(* what scrape fails over, that docstrings of blocks survive, and that sub *)
(* fills its templates, for every directory and every templates.           *)
(***************************************************************************)
EXTENDS UpdatePydoc, ListProofs

Members == Defined \cup {NoObject}
Objects == Listed \cup Members
Values == Seq(Objects) \ {<<>>}
Names == {"make"} \cup {o.name : o \in Objects} \cup {o.owner : o \in Objects}
Items == [key : Seq(Names), value : Values]

Loops == {"find_blocks", "blocks", "blocks2", "functions", "classes"}

FunctionsOf(class) == InCategory(members[class.refid], "function")

\* The tree is that of one index, and what its files hold.
XmlTypes ==
  /\ index \in Seq(Listed) /\ files \in Files
  /\ parsed \subseteq DOMAIN files
  /\ error = {r \in parsed : files[r].state = "malformed"}
  /\ members \in [DOMAIN files -> Seq(Members)]
  /\ top \in Seq(Objects)
OfIndex ==
  \E i \in Index :
    /\ Range(index) \subseteq Range(i)
    /\ \A m \in Range(top) :
         \/ m \in Range(i) \cup {NoObject}
         \/ \E mem \in Range(i) : /\ ReadByIndex(mem)
                                  /\ m \in Range(files[mem.refid].memberdefs)
OfFiles ==
  \A r \in DOMAIN files :
    Range(members[r]) \subseteq Range(files[r].memberdefs) \cup {NoObject}

\* The lists of the loops, and the dictionary.
TodoTypes ==
  /\ pc \in Loops => todo \in Seq(Objects)
  /\ pc \in {"find_blocks", "classes"} => Range(todo) \subseteq Range(IndexClasses)
  /\ pc = "blocks" => Range(todo) \subseteq Range(blocks)
  /\ pc = "blocks2" => Range(todo) \subseteq Range(blocks2)
  /\ pc = "functions" => Range(todo) \subseteq Range(IndexFunctions)
BlockTypes ==
  /\ blocks \in Seq(Objects) /\ Range(blocks) \subseteq Range(IndexClasses)
  /\ blocks2 \in Seq(Objects)
  /\ \A b \in Range(blocks2) : b \in Range(IndexClasses) /\ IsBlock2(b)
  /\ pc = "index" => blocks = <<>>
  /\ pc \in {"index", "find_blocks"} => blocks2 = <<>>
OutputTypes ==
  output \in Seq(Items) /\ json \in [exists : BOOLEAN, items : Seq(Items)]
Types == /\ XmlTypes /\ OfIndex /\ OfFiles
         /\ TodoTypes /\ BlockTypes /\ OutputTypes

\* Why scrape stops: the blocks were found with what the tree still holds.
BlocksFit ==
  \A b \in Range(blocks) :
    /\ b.refid \in parsed /\ b.refid \notin error
    /\ \/ has_member(InCategory(members[b.refid], "friend"), MakeName(b.name))
       \/ has_member(IndexFunctions, MakeName(b.name))
StopInv ==
  /\ exc # "none" => pc = "ended"
  /\ BlocksFit /\ StopsForAReason

\* When the classes have been looked at, and what each loop leaves behind.
Scraping == pc \in {"blocks", "blocks2", "functions", "classes"}
Written == pc \in {"written", "sub"}
AllParsed ==
  /\ pc = "find_blocks" => \A k \in Range(IndexClasses) :
                             k.refid \in parsed \/ k \in Range(todo)
  /\ Scraping \/ Written => \A k \in Range(IndexClasses) : k.refid \in parsed
Known(key) == \E item \in Range(output) : item.key = key
Done(class) ==
  /\ Known(<<class.name>>)
  /\ \A f \in Range(FunctionsOf(class)) : Known(<<class.name, f.name>>)

\* Nothing is documented before the loops, then by what can be documented.
NothingYet ==
  pc \in {"index", "find_blocks"} => output = <<>> /\ make_funcs = {}
Source(item) ==
  LET obj == item.value[1]
  IN  /\ \/ obj \in Range(IndexClasses) /\ obj.refid \notin error
         \/ obj.kind = "function"
      /\ \A k \in Range(IndexClasses) : item.key = <<k.name>> => obj = k
Sources == \A item \in Range(output) : Source(item)

\* What is in make_funcs is dealt with.
MakeFuncsDone ==
  /\ \A n \in make_funcs : \E b \in Range(IndexClasses) :
       Done(b) /\ n \in {<<MakeName(b.name)>>, <<b.name, "make">>}
  /\ \A f \in Range(IndexFunctions) :
       <<f.name>> \in make_funcs => Known(FunctionKey(f))

\* What a loop has still to do is in todo.
LoopsDone ==
  /\ Scraping => \A b \in Range(blocks) :
       Done(b) \/ (pc = "blocks" /\ b \in Range(todo))
  /\ Scraping /\ pc # "blocks" => \A b \in Range(blocks2) :
       Done(b) \/ (pc = "blocks2" /\ b \in Range(todo))
  /\ pc \in {"functions", "classes"} \/ Written =>
       \A f \in Range(IndexFunctions) : ~IsStd(f.name) =>
         Known(FunctionKey(f)) \/ (pc = "functions" /\ f \in Range(todo))
  /\ pc = "classes" \/ Written =>
       \A k \in Range(IndexClasses) : ~IsStd(k.name) /\ k.refid \notin error =>
         Done(k) \/ (pc = "classes" /\ k \in Range(todo))
TodoIsOther ==
  /\ pc = "functions" => \A f \in Range(todo) : <<f.name>> \notin make_funcs
  /\ pc = "classes" => \A k \in Range(todo) :
       \A b \in Range(blocks) \cup Range(blocks2) : k.name # b.name
JsonIsOutput == json.exists => Written /\ json.items = output

\* The names that joined docstrings go by.
JoinedName(item) ==
  \/ \E b \in Range(blocks) \cup Range(blocks2) :
       \/ item.key = <<b.name>>
       \/ item.key = <<b.name, "make">> /\ pc # "blocks"
  \/ \E f \in Range(IndexFunctions) :
       item.key = FunctionKey(f) /\ <<f.name>> \in make_funcs
JoinedNames ==
  \A item \in Range(output) : Len(item.value) > 1 => JoinedName(item)

DocInv == /\ AllParsed /\ NothingYet /\ Sources /\ MakeFuncsDone
          /\ LoopsDone /\ TodoIsOther /\ JsonIsOutput /\ JoinedNames

\* The docstrings for a variable that can be substituted, and what sub has
\* still to do.
Own(t, k) == {item \in Range(json.items) : /\ DocKey(item.key) = Templates[t][k]
                                            /\ ~Starts(item.value, odd.digit)}
TextShape ==
  /\ DOMAIN text = DOMAIN Templates
  /\ \A t \in DOMAIN Templates : DOMAIN text[t] = DOMAIN Templates[t]
FilledSoFar ==
  \A t \in DOMAIN Templates : \A k \in DOMAIN Templates[t] :
    \/ text[t][k] \in {item.value : item \in Own(t, k)}
    \/ text[t][k] = <<>> /\ \A item \in Own(t, k) :
                              [file |-> t, item |-> item] \in Range(todo)
SubInv ==
  /\ pc # "sub" => text = [t \in DOMAIN Templates |-> [k \in DOMAIN Templates[t] |-> <<>>]]
  /\ pc = "sub" => /\ todo \in Seq([file : DOMAIN Templates, item : Range(json.items)])
                   /\ TextShape /\ FilledSoFar

-----------------------------------------------------------------------------
(* The dictionary.                                                         *)

\* d holds what dict and a set of items make: places and keys of dict are
\* kept, and for each key of theirs there is an item.
Updated(T, dict, items, d) ==
  /\ d \in Seq(T)
  /\ \A k \in DOMAIN dict : /\ k \in DOMAIN d /\ d[k].key = dict[k].key
                            /\ d[k] = dict[k] \/ d[k] \in items
  /\ \A item \in Range(d) : item \in Range(dict) \cup items
  /\ \A item \in items : \E other \in Range(d) : other.key = item.key

\* Put adds an item to a dictionary.
LEMMA PutUpdates ==
  ASSUME NEW T, NEW dict \in Seq(T), NEW item \in T
  PROVE  Updated(T, dict, {item}, Put(dict, item))
<1>. DEFINE d == Put(dict, item)
<1>0. DOMAIN dict = 1 .. Len(dict) /\ Len(dict) \in Nat
  OBVIOUS
<1>1. CASE \E k \in DOMAIN dict : dict[k].key = item.key
  <2>1. d = [k \in DOMAIN dict |-> IF dict[k].key = item.key THEN item ELSE dict[k]]
    BY <1>1 DEF Put
  <2>2. d \in Seq(T) /\ DOMAIN d = DOMAIN dict
    <3>1. \A k \in 1 .. Len(dict) :
            (IF dict[k].key = item.key THEN item ELSE dict[k]) \in T
      BY <1>0
    <3>. QED  BY <1>0, <2>1, <3>1
  <2>3. \A k \in DOMAIN dict :
          d[k].key = dict[k].key /\ (d[k] = dict[k] \/ d[k] = item)
    BY <2>1
  <2>. HIDE DEF d
  <2>4. \A x \in Range(d) : x \in Range(dict) \cup {item}
    BY <2>2, <2>3 DEF Range
  <2>5. \E other \in Range(d) : other.key = item.key
    BY <1>1, <2>2, <2>3 DEF Range
  <2>. QED  BY <2>2, <2>3, <2>4, <2>5 DEF Updated, d
<1>2. CASE ~\E k \in DOMAIN dict : dict[k].key = item.key
  <2>1. d = Append(dict, item)
    BY <1>2 DEF Put
  <2>2. /\ d \in Seq(T) /\ Len(d) = Len(dict) + 1
        /\ \A k \in 1 .. Len(dict) : d[k] = dict[k]
        /\ d[Len(dict) + 1] = item
    BY <2>1, AppendProperties
  <2>3. /\ DOMAIN d = 1 .. Len(dict) + 1
        /\ \A k \in 1 .. Len(dict) : k \in 1 .. Len(dict) + 1
        /\ \A k \in 1 .. Len(dict) + 1 : k \in 1 .. Len(dict) \/ k = Len(dict) + 1
        /\ Len(dict) + 1 \in 1 .. Len(dict) + 1
    BY <1>0, <2>2
  <2>. HIDE DEF d
  <2>4. \A x \in Range(d) : x \in Range(dict) \cup {item}
    BY <1>0, <2>2, <2>3 DEF Range
  <2>5. item \in Range(d)
    BY <2>2, <2>3 DEF Range
  <2>. QED  BY <1>0, <2>2, <2>3, <2>4, <2>5 DEF Updated, d
<1>. QED  BY <1>1, <1>2

\* One update after the other.
LEMMA UpdatedTwice ==
  ASSUME NEW T, NEW dict, NEW some, NEW more, NEW d, NEW e,
         Updated(T, dict, some, d), Updated(T, d, more, e)
  PROVE  Updated(T, dict, some \cup more, e)
<1>1. e \in Seq(T)
  BY DEF Updated
<1>2. ASSUME NEW k \in DOMAIN dict
      PROVE  /\ k \in DOMAIN e /\ e[k].key = dict[k].key
             /\ e[k] = dict[k] \/ e[k] \in some \cup more
  BY <1>2 DEF Updated
<1>3. \A item \in Range(e) : item \in Range(dict) \cup (some \cup more)
  BY DEF Updated
<1>4. ASSUME NEW item \in some \cup more
      PROVE  \E other \in Range(e) : other.key = item.key
  <2>1. CASE item \in more
    BY <2>1 DEF Updated
  <2>2. CASE item \in some
    <3>1. PICK k \in DOMAIN d : d[k].key = item.key
      BY <2>2 DEF Updated, Range
    <3>2. k \in DOMAIN e /\ e[k].key = item.key
      BY <3>1 DEF Updated
    <3>. QED  BY <3>2 DEF Range
  <2>. QED  BY <2>1, <2>2
<1>. QED  BY <1>1, <1>2, <1>3, <1>4 DEF Updated

\* update() puts the items one by one.
LEMMA UpdateUpdates ==
  ASSUME NEW T, NEW dict \in Seq(T), NEW items \in Seq(T)
  PROVE  Updated(T, dict, Range(items), update(dict, items))
<1>. DEFINE len == Len(items)
            V == Seq(T)
            step == [k \in 1 .. len |-> [v \in V |-> Put(v, items[k])]]
<1>1. len \in Nat /\ DOMAIN items = 1 .. len /\ \A k \in 1 .. len : items[k] \in T
  OBVIOUS
<1>2. ASSUME NEW k \in 1 .. len, NEW v \in V
      PROVE  Updated(T, v, {items[k]}, Put(v, items[k])) /\ Put(v, items[k]) \in V
  <2>1. Updated(T, v, {items[k]}, Put(v, items[k]))
    BY <1>1, PutUpdates
  <2>. QED  BY <2>1 DEF Updated
<1>3. step \in [1 .. len -> [V -> V]]
  BY <1>2
<1>4. PICK f : Iterates(f, V, dict, len, step)
  <2>. HIDE DEF step, len
  <2>1. dict \in V /\ len \in Nat /\ step \in [1 .. len -> [V -> V]]
    BY <1>1, <1>3
  <2>. QED  BY <2>1, Iteration
<1>5. f \in [0 .. len -> V] /\ f[0] = dict
  BY <1>4 DEF Iterates
<1>6. ASSUME NEW k \in 1 .. len
      PROVE  /\ k \in 0 .. len /\ k - 1 \in 0 .. len /\ f[k - 1] \in V
             /\ f[k] = Put(f[k - 1], items[k])
  <2>1. k \in 0 .. len /\ k - 1 \in 0 .. len
    BY <1>1
  <2>2. f[k - 1] \in V
    BY <1>5, <2>1
  <2>3. f[k] = step[k][f[k - 1]]
    BY <1>4 DEF Iterates
  <2>. QED  BY <2>1, <2>2, <2>3
<1>. DEFINE Rhs(g, k) == IF k = 0 THEN dict ELSE Put(g[k - 1], items[k])
            Fixed(g) == g = [k \in 0 .. len |-> Rhs(g, k)]
            c == CHOOSE g : Fixed(g)
<1>7. Fixed(f)
  <2>1. ASSUME NEW k \in 0 .. len  PROVE f[k] = Rhs(f, k)
    <3>1. CASE k = 0
      BY <1>5, <3>1
    <3>2. CASE k # 0
      <4>1. k \in 1 .. len
        BY <1>1, <3>2
      <4>. QED  BY <1>6, <3>2, <4>1
    <3>. QED  BY <3>1, <3>2
  <2>. HIDE DEF Rhs, len, V
  <2>. QED  BY <1>5, <2>1
<1>8. Fixed(c)
  <2>. HIDE DEF Fixed
  <2>. QED  BY <1>7
<1>9. update(dict, items) = c[len]
  BY DEF update
<1>10. \A k \in 0 .. len : c[k] = Rhs(c, k)
  <2>. HIDE DEF Rhs, len, c
  <2>. QED  BY <1>8
<1>. HIDE DEF c
<1>. DEFINE First(k) == {items[j] : j \in 1 .. k}
            P == {k \in 0 .. len : c[k] = f[k] /\ Updated(T, dict, First(k), f[k])}
<1>11. 0 \in P
  <2>1. 0 \in 0 .. len /\ c[0] = dict /\ First(0) = {}
    BY <1>1, <1>10
  <2>2. Updated(T, dict, {}, dict)
    BY DEF Updated
  <2>. HIDE DEF First
  <2>. QED  BY <1>5, <2>1, <2>2
<1>12. ASSUME NEW k \in 1 .. len, k - 1 \in P  PROVE k \in P
  <2>1. c[k] = f[k]
    <3>1. k \in 0 .. len /\ k # 0 /\ c[k - 1] = f[k - 1]
      BY <1>1, <1>12
    <3>. QED  BY <1>6, <1>10, <3>1
  <2>2. First(k) = First(k - 1) \cup {items[k]}
    <3>1. \A j : j \in 1 .. k <=> j \in 1 .. k - 1 \/ j = k
      BY <1>1
    <3>. QED  BY <3>1
  <2>3. Updated(T, dict, First(k - 1), f[k - 1])
    BY <1>12
  <2>4. Updated(T, f[k - 1], {items[k]}, f[k])
    BY <1>2, <1>6
  <2>. HIDE DEF First
  <2>5. Updated(T, dict, First(k), f[k])
    BY <2>2, <2>3, <2>4, UpdatedTwice
  <2>. QED  BY <1>6, <2>1, <2>5
<1>13. len \in P
  <2>. HIDE DEF P, len
  <2>1. \A k \in 0 .. len : k \in P
    BY <1>1, <1>11, <1>12, Positions
  <2>. QED  BY <1>1, <2>1
<1>14. First(len) = Range(items)
  BY <1>1 DEF Range
<1>. HIDE DEF First, len
<1>. QED  BY <1>9, <1>13, <1>14

-----------------------------------------------------------------------------
(* The members of an object.                                               *)

\* in_category() and get_member() of a list.
LEMMA InCategoryFacts ==
  ASSUME NEW T, NEW list \in Seq(T), NEW kind
  PROVE  /\ InCategory(list, kind) \in Seq(T)
         /\ \A x : x \in Range(InCategory(list, kind)) <=>
                    x \in Range(list) /\ x.kind = kind
<1>. DEFINE S == {m \in Range(list) : m.kind = kind}
<1>1. InCategory(list, kind) = Select(list, S)
  BY DEF InCategory
<1>2. \A x : x \in Range(list) /\ x \in S <=> x \in Range(list) /\ x.kind = kind
  OBVIOUS
<1>. HIDE DEF S
<1>3. /\ Select(list, S) \in Seq(T)
      /\ \A x : x \in Range(Select(list, S)) <=> x \in Range(list) /\ x \in S
  BY SelectFacts
<1>. QED  BY <1>1, <1>2, <1>3

\* Two items of a category under one name have two places in the list.
LEMMA TwoOfACategory ==
  ASSUME NEW T, NEW list \in Seq(T), NEW kind, NEW name,
         Duplicate(InCategory(list, kind), name)
  PROVE  \E a, b \in DOMAIN list : /\ a # b /\ list[a].name = list[b].name
                                   /\ list[a].kind = kind /\ list[b].kind = kind
<1>. DEFINE cat == InCategory(list, kind)
            S == {m \in Range(list) : m.kind = kind}
            N == {m \in Range(cat) : m.name = name}
<1>1. cat \in Seq(T) /\ \A x : x \in Range(cat) <=> x \in Range(list) /\ x.kind = kind
  BY InCategoryFacts
<1>2. Len(Select(cat, N)) > 1
  BY DEF Duplicate, Named
<1>. HIDE DEF N
<1>3. PICK a, b \in DOMAIN cat : a # b /\ cat[a] \in N /\ cat[b] \in N
  BY <1>1, <1>2, SelectFacts
<1>4. PICK p : Picks(list, S, Len(list), cat, p)
  <2>1. cat = Select(list, S)
    BY DEF InCategory
  <2>. HIDE DEF S, cat
  <2>. QED  BY <2>1, SelectPicks
<1>5. DOMAIN cat = 1 .. Len(cat) /\ DOMAIN list = 1 .. Len(list) /\ Len(cat) \in Nat
  BY <1>1
<1>. HIDE DEF cat
<1>6. /\ p[a] \in DOMAIN list /\ p[b] \in DOMAIN list /\ p[a] # p[b]
      /\ list[p[a]] = cat[a] /\ list[p[b]] = cat[b]
      /\ list[p[a]] \in S /\ list[p[b]] \in S
  <2>1. a < b \/ b < a
    BY <1>3, <1>5
  <2>2. /\ p[a] \in 1 .. Len(list) /\ p[b] \in 1 .. Len(list)
        /\ p[a] < p[b] \/ p[b] < p[a]
    BY <1>3, <1>4, <1>5, <2>1 DEF Picks
  <2>3. p[a] # p[b]
    BY <2>2
  <2>. QED  BY <1>3, <1>4, <1>5, <2>2, <2>3 DEF Picks
<1>7. cat[a].name = name /\ cat[b].name = name
  BY <1>3 DEF N
<1>. QED  BY <1>6, <1>7

\* What get_member() returns when has_member() says that it is there: the only
\* one of the name. When it is not, there are two of the name or none.
LEMMA HasMember ==
  ASSUME NEW T, NEW list \in Seq(T), NEW name
  PROVE  /\ has_member(list, name) =>
              /\ Named(list, name)[1] \in Range(list)
              /\ Named(list, name)[1].name = name
              /\ \A x \in Range(list) : x.name = name => x = Named(list, name)[1]
         /\ ~has_member(list, name) =>
              Duplicate(list, name) \/ \A x \in Range(list) : x.name # name
<1>. DEFINE N == {m \in Range(list) : m.name = name}
            s == Named(list, name)
<1>1. s = Select(list, N)
  BY DEF Named
<1>2. \A x : x \in N <=> x \in Range(list) /\ x.name = name
  OBVIOUS
<1>. HIDE DEF N, s
<1>3. /\ s \in Seq(T)
      /\ \A x : x \in Range(s) <=> x \in Range(list) /\ x \in N
      /\ Len(s) = 1 => \A x \in Range(list) : x \in N => x = s[1]
      /\ Len(s) = 0 => \A x \in Range(list) : x \notin N
  BY <1>1, SelectFacts
<1>4. Len(s) \in Nat /\ DOMAIN s = 1 .. Len(s)
  BY <1>3
<1>5. Len(s) = 1 => s[1] \in Range(s)
  BY <1>4 DEF Range
<1>6. ~(Len(s) = 1) => Len(s) > 1 \/ Len(s) = 0
  BY <1>4
<1>. QED  BY <1>2, <1>3, <1>5, <1>6 DEF has_member, Duplicate, s

-----------------------------------------------------------------------------
(* Entries of the dictionary.                                              *)

\* An item for a key and a docstring.
LEMMA ItemTypes ==
  ASSUME NEW key \in Seq(Names), NEW value \in Values
  PROVE  Item(key, value) \in Items
BY DEF Item, Items

\* The keys of an object, and the docstrings that begin with it.
LEMMA KeyTypes ==
  ASSUME NEW obj \in Objects
  PROVE  /\ <<obj.name>> \in Seq(Names) /\ FunctionKey(obj) \in Seq(Names)
         /\ <<obj.name, "make">> \in Seq(Names)
         /\ \A f \in Objects : <<obj.name, f.name>> \in Seq(Names)
         /\ <<obj>> \in Values
         /\ \A f \in Objects : <<obj, f>> \in Values
<1>1. obj.name \in Names /\ obj.owner \in Names /\ "make" \in Names
      /\ \A f \in Objects : f.name \in Names
  BY DEF Names
<1>2. FunctionKey(obj) \in Seq(Names)
  <2>1. <<obj.name>> \in Seq(Names) /\ <<obj.owner, obj.name>> \in Seq(Names)
    BY <1>1
  <2>. QED  BY <2>1, Zenon DEF FunctionKey
<1>3. <<obj>> \in Values /\ \A f \in Objects : <<obj, f>> \in Values
  <2>1. <<obj>> \in Seq(Objects) /\ \A f \in Objects : <<obj, f>> \in Seq(Objects)
    OBVIOUS
  <2>2. <<obj>> # <<>> /\ \A f : <<obj, f>> # <<>>
    OBVIOUS
  <2>. QED  BY <2>1, <2>2 DEF Values
<1>4. <<obj.name>> \in Seq(Names) /\ <<obj.name, "make">> \in Seq(Names)
      /\ \A f \in Objects : <<obj.name, f.name>> \in Seq(Names)
  <2>. HIDE DEF Names
  <2>. QED  BY <1>1
<1>. QED  BY <1>2, <1>3, <1>4

\* Two keys of functions that are the same have the same last part, and their
\* first part tells functions and classes apart.
LEMMA KeyFacts ==
  ASSUME NEW f
  PROVE  /\ \A g : FunctionKey(f) = FunctionKey(g) => f.name = g.name
         /\ \A a : FunctionKey(f) = <<a>> => FunctionKey(f)[1] = a
         /\ \A a, b : FunctionKey(f) = <<a, b>> => FunctionKey(f)[1] = a
<1>1. \A a, b, c, d : /\ <<a>> # <<b, c>> /\ (<<a>> = <<b>> => a = b)
                      /\ (<<a, b>> = <<c, d>> => a = c /\ b = d)
                      /\ <<a>>[1] = a /\ <<a, b>>[1] = a
  OBVIOUS
<1>2. ASSUME NEW g, FunctionKey(f) = FunctionKey(g)  PROVE f.name = g.name
  BY <1>1, <1>2 DEF FunctionKey
<1>. QED  BY <1>1, <1>2

\* The items of a class: one for itself, and one for each function that is not
\* ignored.
Entry(class, description, ignored) ==
  {Item(<<class.name>>, description)} \cup
  {Item(<<class.name, f.name>>, <<f>>) :
     f \in {f \in Range(FunctionsOf(class)) : f.name \notin ignored}}

\* make_class_entry() makes them.
LEMMA ClassEntry ==
  ASSUME NEW class \in Objects, NEW description \in Values, NEW ignored,
         members[class.refid] \in Seq(Members)
  PROVE  LET entry == make_class_entry(class, description, ignored)
         IN  /\ entry \in Seq(Items)
             /\ Range(entry) = Entry(class, description, ignored)
<1>. DEFINE all == FunctionsOf(class)
            S == {f \in Range(all) : f.name \notin ignored}
            funcs == Select(all, S)
            first == <<Item(<<class.name>>, description)>>
            rest == [k \in DOMAIN funcs |-> Item(<<class.name, funcs[k].name>>, <<funcs[k]>>)]
<1>1. all \in Seq(Members)
  BY InCategoryFacts DEF FunctionsOf
<1>2. \A x : x \in Range(all) /\ x \in S <=> x \in Range(all) /\ x.name \notin ignored
  OBVIOUS
<1>3. /\ funcs \in Seq(Members)
      /\ \A x : x \in Range(funcs) <=> x \in Range(all) /\ x \in S
  <2>. HIDE DEF S, all
  <2>. QED  BY <1>1, SelectFacts
<1>4. DOMAIN funcs = 1 .. Len(funcs) /\ Len(funcs) \in Nat
      /\ \A k \in DOMAIN funcs : funcs[k] \in Members
  <2>. HIDE DEF funcs
  <2>. QED  BY <1>3
<1>5. make_class_entry(class, description, ignored) = first \o rest
  BY DEF make_class_entry, FunctionsOf
<1>. HIDE DEF all, S, funcs
<1>6. first \in Seq(Items) /\ Range(first) = {Item(<<class.name>>, description)}
  <2>1. Item(<<class.name>>, description) \in Items
    BY ItemTypes, KeyTypes
  <2>2. first \in Seq(Items) /\ DOMAIN first = {1}
        /\ first[1] = Item(<<class.name>>, description)
    BY <2>1
  <2>. HIDE DEF first
  <2>. QED  BY <2>2 DEF Range
<1>7. rest \in Seq(Items)
  <2>1. ASSUME NEW k \in 1 .. Len(funcs)
        PROVE  Item(<<class.name, funcs[k].name>>, <<funcs[k]>>) \in Items
    <3>1. funcs[k] \in Objects
      BY <1>4 DEF Objects
    <3>2. <<class.name, funcs[k].name>> \in Seq(Names) /\ <<funcs[k]>> \in Values
      BY <3>1, KeyTypes
    <3>. QED  BY <3>2, ItemTypes
  <2>. QED  BY <1>4, <2>1
<1>8. \A item : item \in Range(rest) <=> \E f \in Range(funcs) :
                 item = Item(<<class.name, f.name>>, <<f>>)
  BY DEF Range
<1>. HIDE DEF first, rest
<1>9. /\ first \o rest \in Seq(Items)
      /\ \A x : x \in Range(first \o rest) <=> x \in Range(first) \/ x \in Range(rest)
  BY <1>6, <1>7, RangeOfConcat
<1>10. \A f : f \in Range(funcs) <=> f \in Range(FunctionsOf(class)) /\ f.name \notin ignored
  BY <1>2, <1>3 DEF all
<1>11. ASSUME NEW item
       PROVE  item \in Range(first \o rest) <=>
                  \/ item = Item(<<class.name>>, description)
                  \/ \E f \in Range(FunctionsOf(class)) :
                       f.name \notin ignored /\ item = Item(<<class.name, f.name>>, <<f>>)
  <2>1. item \in Range(first \o rest) <=> item = Item(<<class.name>>, description) \/ item \in Range(rest)
    BY <1>6, <1>9
  <2>2. item \in Range(rest) <=> \E f \in Range(FunctionsOf(class)) :
              f.name \notin ignored /\ item = Item(<<class.name, f.name>>, <<f>>)
    BY <1>8, <1>10
  <2>. QED  BY <2>1, <2>2
<1>12. Range(first \o rest) = Entry(class, description, ignored)
  BY <1>11 DEF Entry
<1>. QED  BY <1>5, <1>9, <1>12

-----------------------------------------------------------------------------
(* The tree of objects.                                                    *)

\* Objects that are compounds are listed by an index and have a file.
LEMMA CompoundsAreListed ==
  ASSUME NEW obj \in Objects, obj.kind \in Compounds
  PROVE  obj \in Listed /\ \A f \in Files : obj.refid \in DOMAIN f
<1>1. obj # NoObject
  <2>1. NoObject.kind = "None" /\ "None" \notin Compounds
    BY DEF NoObject, Compounds
  <2>. QED  BY <2>1
<1>2. obj \in Listed
  BY <1>1, DirectoryAssumption DEF Objects, Members
<1>. QED  BY <1>2, DirectoryAssumption

\* What process_memberdefs() makes of a file.
LEMMA MembersRead ==
  ASSUME files \in Files, NEW r \in DOMAIN files
  PROVE  /\ process_memberdefs(r) \in Seq(Members)
         /\ Range(process_memberdefs(r)) \subseteq
              Range(files[r].memberdefs) \cup {NoObject}
<1>. DEFINE defs == files[r].memberdefs
            fresh == {k \in DOMAIN defs :
                        \A j \in 1..(k - 1) : defs[j].name # defs[k].name}
            all == [k \in DOMAIN defs |-> k]
            firsts == Select(all, fresh)
            made == [k \in DOMAIN firsts |-> convert_mem(defs[firsts[k]])]
<1>1. defs \in Seq(Defined)
  BY DirectoryAssumption
<1>2. DOMAIN defs = 1 .. Len(defs) /\ Len(defs) \in Nat
      /\ \A k \in DOMAIN defs : defs[k] \in Defined
  <2>. HIDE DEF defs
  <2>. QED  BY <1>1
<1>3. process_memberdefs(r) = made
  BY DEF process_memberdefs
<1>. HIDE DEF defs
<1>4. all \in Seq(DOMAIN defs)
  BY <1>2
<1>. HIDE DEF all, fresh
<1>5. firsts \in Seq(DOMAIN defs)
  BY <1>4, SelectFacts
<1>6. DOMAIN firsts = 1 .. Len(firsts) /\ Len(firsts) \in Nat
      /\ \A k \in DOMAIN firsts : firsts[k] \in DOMAIN defs
  <2>. HIDE DEF firsts
  <2>. QED  BY <1>5
<1>. HIDE DEF firsts
<1>7. \A k \in DOMAIN firsts : /\ made[k] \in Range(defs) \cup {NoObject}
                              /\ made[k] \in Members
  BY <1>2, <1>6 DEF convert_mem, Range, Members
<1>8. DOMAIN made = 1 .. Len(firsts)
  BY <1>6
<1>9. made \in Seq(Members)
  <2>1. \A k \in 1 .. Len(firsts) : convert_mem(defs[firsts[k]]) \in Members
    BY <1>2, <1>6 DEF convert_mem, Members
  <2>. QED  BY <1>6, <2>1
<1>. HIDE DEF made
<1>10. Range(made) \subseteq Range(defs) \cup {NoObject}
  BY <1>6, <1>7, <1>8 DEF Range
<1>. QED  BY <1>3, <1>9, <1>10 DEF defs

\* _parse() leaves alone what has parsed.
LEMMA ParseFacts ==
  ASSUME XmlTypes, OfFiles, NEW obj, obj.refid \in DOMAIN files, Parse(obj),
         files' = files
  PROVE  /\ parsed' = parsed \cup {obj.refid}
         /\ error' = {r \in parsed' : files[r].state = "malformed"}
         /\ members' \in [DOMAIN files -> Seq(Members)]
         /\ \A r \in parsed : members'[r] = members[r] /\ (r \in error' <=> r \in error)
         /\ OfFiles'
<1>. DEFINE r == obj.refid
<1>0. /\ files \in Files /\ parsed \subseteq DOMAIN files
      /\ error = {q \in parsed : files[q].state = "malformed"}
      /\ members \in [DOMAIN files -> Seq(Members)]
  BY DEF XmlTypes
<1>1. CASE r \in parsed
  <2>1. UNCHANGED <<parsed, error, members>>
    BY <1>1 DEF Parse
  <2>. QED  BY <1>0, <1>1, <2>1 DEF OfFiles
<1>2. CASE r \notin parsed
  <2>1. /\ parsed' = parsed \cup {r}
        /\ error' = IF files[r].state = "malformed" THEN error \cup {r} ELSE error
        /\ members' = IF files[r].state = "good"
                      THEN [members EXCEPT ![r] = process_memberdefs(r)]
                      ELSE members
    BY <1>2 DEF Parse
  <2>2. /\ process_memberdefs(r) \in Seq(Members)
        /\ Range(process_memberdefs(r)) \subseteq Range(files[r].memberdefs) \cup {NoObject}
    BY <1>0, MembersRead
  <2>3. error' = {q \in parsed' : files[q].state = "malformed"}
    BY <1>0, <1>2, <2>1
  <2>4. members' \in [DOMAIN files -> Seq(Members)]
    BY <1>0, <2>1, <2>2
  <2>5. \A q \in parsed : members'[q] = members[q] /\ (q \in error' <=> q \in error)
    BY <1>0, <1>2, <2>1
  <2>6. ASSUME NEW q \in DOMAIN files
        PROVE  Range(members'[q]) \subseteq Range(files[q].memberdefs) \cup {NoObject}
    <3>1. CASE q = r /\ files[r].state = "good"
      <4>1. members'[q] = process_memberdefs(r)
        BY <1>0, <2>1, <3>1
      <4>. QED  BY <2>2, <3>1, <4>1
    <3>2. CASE ~(q = r /\ files[r].state = "good")
      <4>1. members'[q] = members[q]
        BY <1>0, <2>1, <3>2
      <4>. QED  BY <4>1 DEF OfFiles
    <3>. QED  BY <3>1, <3>2
  <2>. QED  BY <2>1, <2>3, <2>4, <2>5, <2>6 DEF OfFiles
<1>. QED  BY <1>1, <1>2

\* What in_category() of the index returns.
LEMMA IndexFacts ==
  ASSUME XmlTypes
  PROVE  /\ IndexClasses \in Seq(Objects) /\ IndexFunctions \in Seq(Objects)
         /\ \A k : k \in Range(IndexClasses) <=> k \in Range(top) /\ k.kind = "class"
         /\ \A k \in Range(IndexClasses) :
              k \in Objects /\ k \in Listed /\ k.refid \in DOMAIN files
              /\ members[k.refid] \in Seq(Members)
         /\ \A f : f \in Range(IndexFunctions) <=> f \in Range(top) /\ f.kind = "function"
         /\ \A f \in Range(IndexFunctions) : f \in Objects
<1>1. top \in Seq(Objects) /\ files \in Files
      /\ members \in [DOMAIN files -> Seq(Members)]
  BY DEF XmlTypes
<1>2. \A x \in Range(top) : x \in Objects
  BY <1>1 DEF Range
<1>3. /\ IndexClasses \in Seq(Objects)
      /\ \A k : k \in Range(IndexClasses) <=> k \in Range(top) /\ k.kind = "class"
  BY <1>1, InCategoryFacts DEF IndexClasses
<1>4. /\ IndexFunctions \in Seq(Objects)
      /\ \A f : f \in Range(IndexFunctions) <=> f \in Range(top) /\ f.kind = "function"
  BY <1>1, InCategoryFacts DEF IndexFunctions
<1>5. \A k \in Range(IndexClasses) : k \in Objects /\ k.kind \in Compounds
  BY <1>2, <1>3 DEF Compounds
<1>6. \A k \in Range(IndexClasses) : k \in Listed /\ k.refid \in DOMAIN files
  BY <1>1, <1>5, CompoundsAreListed
<1>. QED  BY <1>1, <1>2, <1>3, <1>4, <1>5, <1>6

\* Without a change of the tree, what is asked of it does not change.
LEMMA TreeUnchanged ==
  ASSUME UNCHANGED xmlVars
  PROVE  /\ IndexClasses' = IndexClasses /\ IndexFunctions' = IndexFunctions
         /\ \A k : FunctionsOf(k)' = FunctionsOf(k) /\ IsBlock2(k)' = IsBlock2(k)
         /\ XmlTypes => XmlTypes'
         /\ (OfIndex => OfIndex') /\ (OfFiles => OfFiles')
BY DEF xmlVars, IndexClasses, IndexFunctions, FunctionsOf, IsBlock2, XmlTypes, OfIndex, OfFiles

\* A joined docstring is that of its first object and of others.
Joined(d, obj) == d \in Values /\ d[1] = obj /\ Len(d) > 1

\* make_block_entry(): the class and the make function share a docstring.
LEMMA BlockEntry ==
  ASSUME NEW block \in Objects, NEW make_func \in Objects,
         members[block.refid] \in Seq(Members), top \in Seq(Objects)
  PROVE  LET entry == make_block_entry(block, make_func)
         IN  /\ entry \in Seq(Items)
             /\ \E d : /\ Joined(d, block)
                      /\ Range(entry) = Entry(block, d, {}) \cup
                                        {Item(FunctionKey(make_func), d)}
<1>. DEFINE cat == InCategory(top, "file")
            file == Named(cat, HeaderOf(block.name))
            d == <<block, make_func>> \o file
            class == make_class_entry(block, d, {})
            make == make_entry(make_func, d)
<1>1. cat \in Seq(Objects)
  BY InCategoryFacts
<1>2. file \in Seq(Objects)
  <2>. DEFINE S == {m \in Range(cat) : m.name = HeaderOf(block.name)}
  <2>1. file = Select(cat, S)
    BY DEF Named
  <2>. HIDE DEF cat, S, file
  <2>2. Select(cat, S) \in Seq(Objects)
    BY <1>1, SelectFacts
  <2>. QED  BY <2>1, <2>2
<1>. HIDE DEF file
<1>3. d \in Seq(Objects) /\ Len(d) > 1 /\ d[1] = block
  <2>1. /\ <<block, make_func>> \in Seq(Objects) /\ Len(<<block, make_func>>) = 2
        /\ <<block, make_func>>[1] = block
    OBVIOUS
  <2>2. Len(file) \in Nat
    BY <1>2
  <2>3. /\ d \in Seq(Objects) /\ Len(d) = 2 + Len(file)
        /\ \A k \in 1 .. 2 + Len(file) :
             d[k] = IF k <= 2 THEN <<block, make_func>>[k] ELSE file[k - 2]
    BY <1>2, <2>1, ConcatProperties
  <2>4. 1 \in 1 .. 2 + Len(file) /\ 1 <= 2 /\ 2 + Len(file) > 1
    BY <2>2
  <2>. QED  BY <2>1, <2>3, <2>4
<1>4. make_block_entry(block, make_func) = class \o make
  BY DEF make_block_entry, file
<1>. HIDE DEF d
<1>5. d \in Values
  BY <1>3, EmptySeq DEF Values
<1>6. /\ class \in Seq(Items)
      /\ Range(class) = Entry(block, d, {})
  BY <1>5, ClassEntry
<1>7. make \in Seq(Items) /\ Range(make) = {Item(FunctionKey(make_func), d)}
  <2>1. Item(FunctionKey(make_func), d) \in Items
    BY <1>5, ItemTypes, KeyTypes
  <2>2. make \in Seq(Items) /\ DOMAIN make = {1}
        /\ make[1] = Item(FunctionKey(make_func), d)
    BY <2>1 DEF make_entry
  <2>. HIDE DEF make
  <2>. QED  BY <2>2 DEF Range
<1>. HIDE DEF class, make
<1>8. /\ class \o make \in Seq(Items)
      /\ \A x : x \in Range(class \o make) <=> x \in Range(class) \/ x \in Range(make)
  BY <1>6, <1>7, RangeOfConcat
<1>9. Joined(d, block)
  BY <1>3, <1>5 DEF Joined
<1>10. Range(class \o make) = Entry(block, d, {}) \cup {Item(FunctionKey(make_func), d)}
  BY <1>6, <1>7, <1>8
<1>. QED  BY <1>4, <1>8, <1>9, <1>10

\* make_block2_entry(): the class and its method make do.
LEMMA Block2Entry ==
  ASSUME NEW block \in Objects, NEW make_func \in Objects,
         members[block.refid] \in Seq(Members)
  PROVE  LET entry == make_block2_entry(block, make_func)
         IN  /\ entry \in Seq(Items)
             /\ \E d : /\ Joined(d, block)
                      /\ Range(entry) = Entry(block, d, {"make"}) \cup
                                        {Item(<<block.name, "make">>, d)}
<1>. DEFINE d == <<block, make_func>>
            class == make_class_entry(block, d, {"make"})
            make == <<Item(<<block.name, "make">>, d)>>
<1>1. d \in Values /\ Len(d) > 1 /\ d[1] = block
  <2>1. d \in Values
    BY KeyTypes
  <2>2. Len(d) = 2 /\ d[1] = block
    OBVIOUS
  <2>. QED  BY <2>1, <2>2
<1>2. make_block2_entry(block, make_func) = class \o make
  BY DEF make_block2_entry
<1>. HIDE DEF d
<1>3. /\ class \in Seq(Items)
      /\ Range(class) = Entry(block, d, {"make"})
  BY <1>1, ClassEntry
<1>4. make \in Seq(Items) /\ Range(make) = {Item(<<block.name, "make">>, d)}
  <2>1. Item(<<block.name, "make">>, d) \in Items
    BY <1>1, ItemTypes, KeyTypes
  <2>2. make \in Seq(Items) /\ DOMAIN make = {1}
        /\ make[1] = Item(<<block.name, "make">>, d)
    BY <2>1
  <2>. HIDE DEF make
  <2>. QED  BY <2>2 DEF Range
<1>. HIDE DEF class, make
<1>5. /\ class \o make \in Seq(Items)
      /\ \A x : x \in Range(class \o make) <=> x \in Range(class) \/ x \in Range(make)
  BY <1>3, <1>4, RangeOfConcat
<1>6. Joined(d, block)
  BY <1>1 DEF Joined
<1>7. Range(class \o make) = Entry(block, d, {"make"}) \cup
                             {Item(<<block.name, "make">>, d)}
  BY <1>3, <1>4, <1>5
<1>. QED  BY <1>2, <1>5, <1>6, <1>7

-----------------------------------------------------------------------------
(* The types are kept.                                                     *)

\* What a step of the first loop does to the dictionary.
LEMMA BlockStep ==
  ASSUME Types, ScrapeBlock
  PROVE  \/ Raise("make function")
         \/ \E f \in Range(IndexFunctions) : \E d :
              /\ f.name = MakeName(Head(todo).name)
              /\ \A g \in Range(IndexFunctions) : g.name = f.name => g = f
              /\ Joined(d, Head(todo))
              /\ make_funcs' = make_funcs \cup {<<f.name>>}
              /\ \/ <<f.name>> \in make_funcs /\ output' = output
                 \/ Updated(Items, output,
                            Entry(Head(todo), d, {}) \cup {Item(FunctionKey(f), d)},
                            output')
              /\ Goto(pc, Tail(todo))
              /\ UNCHANGED <<xmlVars, blocks, blocks2, exc, json, subVars>>
<1>. DEFINE block == Head(todo)
            name == MakeName(block.name)
            f == Named(IndexFunctions, name)[1]
            fails == \/ ~has_member(IndexFunctions, name)
                     \/ Duplicate(InCategory(top, "file"), HeaderOf(block.name))
<1>1. /\ todo # <<>> /\ pc = "blocks"
      /\ \/ fails /\ Raise("make function")
         \/ /\ ~fails
            /\ make_funcs' = make_funcs \cup {<<name>>}
            /\ output' = IF <<name>> \in make_funcs THEN output
                         ELSE update(output, make_block_entry(block, f))
            /\ Goto(pc, Tail(todo))
            /\ UNCHANGED <<xmlVars, blocks, blocks2, exc, json, subVars>>
  BY DEF ScrapeBlock
<1>2. CASE Raise("make function")
  BY <1>2
<1>3. CASE /\ ~fails
           /\ make_funcs' = make_funcs \cup {<<name>>}
           /\ output' = IF <<name>> \in make_funcs THEN output
                        ELSE update(output, make_block_entry(block, f))
           /\ Goto(pc, Tail(todo))
           /\ UNCHANGED <<xmlVars, blocks, blocks2, exc, json, subVars>>
  <2>1. IndexFunctions \in Seq(Objects) /\ \A g \in Range(IndexFunctions) : g \in Objects
    BY IndexFacts DEF Types
  <2>2. /\ f \in Range(IndexFunctions) /\ f.name = name
        /\ \A g \in Range(IndexFunctions) : g.name = name => g = f
    BY <1>3, <2>1, HasMember
  <2>. HIDE DEF f
  <2>3. block \in Objects /\ members[block.refid] \in Seq(Members)
    <3>1. block \in Range(blocks)
      BY <1>1, HeadAndTail DEF Types, TodoTypes, Loops
    <3>. QED  BY <3>1, IndexFacts DEF Types, BlockTypes
  <2>4. top \in Seq(Objects) /\ output \in Seq(Items)
    BY DEF Types, XmlTypes, OutputTypes
  <2>5. PICK d : /\ Joined(d, block)
                 /\ Range(make_block_entry(block, f)) =
                       Entry(block, d, {}) \cup {Item(FunctionKey(f), d)}
    BY <2>1, <2>2, <2>3, <2>4, BlockEntry
  <2>6. make_block_entry(block, f) \in Seq(Items)
    BY <2>1, <2>2, <2>3, <2>4, BlockEntry
  <2>7. Updated(Items, output, Entry(block, d, {}) \cup {Item(FunctionKey(f), d)},
                update(output, make_block_entry(block, f)))
    BY <2>4, <2>5, <2>6, UpdateUpdates
  <2>. HIDE DEF block
  <2>8. \/ <<f.name>> \in make_funcs /\ output' = output
        \/ Updated(Items, output, Entry(block, d, {}) \cup {Item(FunctionKey(f), d)},
                   output')
    BY <1>3, <2>2, <2>7
  <2>. QED  BY <1>3, <2>2, <2>5, <2>8 DEF block
<1>. HIDE DEF fails
<1>. QED  BY <1>1, <1>2, <1>3

\* A step of the second.
LEMMA Block2Step ==
  ASSUME Types, ScrapeBlock2
  PROVE  /\ Head(todo) \in Range(blocks2) /\ Head(todo) \in Range(IndexClasses)
         /\ \E d : /\ Joined(d, Head(todo))
                  /\ \/ /\ <<Head(todo).name, "make">> \in make_funcs
                        /\ output' = output
                     \/ Updated(Items, output,
                                Entry(Head(todo), d, {"make"}) \cup
                                  {Item(<<Head(todo).name, "make">>, d)},
                                output')
<1>. DEFINE block == Head(todo)
            all == InCategory(members[block.refid], "function")
            f == Named(all, "make")[1]
<1>1. todo # <<>> /\ pc = "blocks2"
  BY DEF ScrapeBlock2
<1>2. block \in Range(blocks2)
  BY <1>1, HeadAndTail DEF Types, TodoTypes, Loops
<1>3. block \in Range(IndexClasses) /\ has_member(all, "make")
  BY <1>2 DEF Types, BlockTypes, IsBlock2
<1>4. block \in Objects /\ members[block.refid] \in Seq(Members)
  BY <1>3, IndexFacts DEF Types
<1>5. all \in Seq(Members)
  BY <1>4, InCategoryFacts
<1>6. f \in Objects
  <2>1. f \in Range(all)
    BY <1>3, <1>5, HasMember
  <2>. HIDE DEF f, all
  <2>. QED  BY <1>5, <2>1 DEF Range, Objects
<1>7. output' = IF <<block.name, "make">> \in make_funcs THEN output
                ELSE update(output, make_block2_entry(block, f))
  BY DEF ScrapeBlock2
<1>. HIDE DEF f, all
<1>8. output \in Seq(Items)
  BY DEF Types, OutputTypes
<1>9. make_block2_entry(block, f) \in Seq(Items)
  BY <1>4, <1>6, Block2Entry
<1>10. PICK d : /\ Joined(d, block)
                /\ Range(make_block2_entry(block, f)) =
                      Entry(block, d, {"make"}) \cup {Item(<<block.name, "make">>, d)}
  BY <1>4, <1>6, Block2Entry
<1>11. Updated(Items, output,
               Entry(block, d, {"make"}) \cup {Item(<<block.name, "make">>, d)},
               update(output, make_block2_entry(block, f)))
  BY <1>8, <1>9, <1>10, UpdateUpdates
<1>. HIDE DEF block
<1>12. \/ <<block.name, "make">> \in make_funcs /\ output' = output
       \/ Updated(Items, output,
                  Entry(block, d, {"make"}) \cup {Item(<<block.name, "make">>, d)},
                  output')
  BY <1>7, <1>11
<1>. QED  BY <1>2, <1>3, <1>10, <1>12 DEF block

\* One of the third.
LEMMA FunctionStep ==
  ASSUME Types, ScrapeFunction
  PROVE  /\ Head(todo) \in Range(IndexFunctions)
         /\ Updated(Items, output,
                    {Item(FunctionKey(Head(todo)), <<Head(todo)>>)}, output')
<1>. DEFINE f == Head(todo)
            made == make_entry(f, <<f>>)
<1>1. todo # <<>> /\ pc = "functions" /\ output' = update(output, made)
  BY DEF ScrapeFunction
<1>2. f \in Range(IndexFunctions)
  BY <1>1, HeadAndTail DEF Types, TodoTypes, Loops
<1>3. f \in Objects
  BY <1>2, IndexFacts DEF Types
<1>4. Item(FunctionKey(f), <<f>>) \in Items
  BY <1>3, ItemTypes, KeyTypes
<1>5. made \in Seq(Items) /\ Range(made) = {Item(FunctionKey(f), <<f>>)}
  <2>1. made \in Seq(Items) /\ DOMAIN made = {1} /\ made[1] = Item(FunctionKey(f), <<f>>)
    BY <1>4 DEF make_entry
  <2>. HIDE DEF made
  <2>. QED  BY <2>1 DEF Range
<1>6. output \in Seq(Items)
  BY DEF Types, OutputTypes
<1>. HIDE DEF made
<1>7. Updated(Items, output, {Item(FunctionKey(f), <<f>>)}, output')
  BY <1>1, <1>5, <1>6, UpdateUpdates
<1>. QED  BY <1>2, <1>7

\* One of the last.
LEMMA ClassStep ==
  ASSUME Types, ScrapeClass
  PROVE  /\ Head(todo) \in Range(IndexClasses)
         /\ \/ Head(todo).refid \in error /\ output' = output
            \/ /\ Head(todo).refid \notin error
               /\ Updated(Items, output, Entry(Head(todo), <<Head(todo)>>, {}), output')
<1>. DEFINE k == Head(todo)
            made == make_class_entry(k, <<k>>, {})
<1>1. /\ todo # <<>> /\ pc = "classes"
      /\ output' = IF k.refid \in error THEN output ELSE update(output, made)
  BY DEF ScrapeClass
<1>2. k \in Range(IndexClasses)
  BY <1>1, HeadAndTail DEF Types, TodoTypes, Loops
<1>3. k \in Objects /\ members[k.refid] \in Seq(Members)
  BY <1>2, IndexFacts DEF Types
<1>4. made \in Seq(Items) /\ Range(made) = Entry(k, <<k>>, {})
  BY <1>3, KeyTypes, ClassEntry
<1>5. output \in Seq(Items)
  BY DEF Types, OutputTypes
<1>. HIDE DEF made
<1>6. Updated(Items, output, Entry(k, <<k>>, {}), update(output, made))
  BY <1>4, <1>5, UpdateUpdates
<1>. QED  BY <1>1, <1>2, <1>6

\* The index is read compound by compound.
LEMMA IndexStep ==
  ASSUME Types, IndexCompound
  PROVE  /\ XmlTypes' /\ OfIndex' /\ OfFiles' /\ parsed \subseteq parsed'
         /\ files' = files
<1>. DEFINE mem == Head(index)
<1>1. /\ index # <<>> /\ ~IndexRaises(mem)
      /\ IF ReadByIndex(mem) THEN Parse(mem) ELSE UNCHANGED <<parsed, error, members>>
      /\ top' = top \o Contents(mem)
      /\ index' = Tail(index) /\ files' = files
  BY DEF IndexCompound
<1>2. /\ index \in Seq(Listed) /\ files \in Files /\ top \in Seq(Objects)
      /\ parsed \subseteq DOMAIN files
      /\ members \in [DOMAIN files -> Seq(Members)]
      /\ error = {r \in parsed : files[r].state = "malformed"}
      /\ OfFiles /\ XmlTypes
  BY DEF Types, XmlTypes
<1>3. /\ mem \in Listed /\ mem \in Range(index) /\ index' \in Seq(Listed)
      /\ Range(index') \subseteq Range(index)
  BY <1>1, <1>2, HeadAndTail
<1>4. mem.refid \in DOMAIN files
  BY <1>2, <1>3, DirectoryAssumption
<1>. HIDE DEF mem
<1>5. /\ parsed \subseteq parsed' /\ parsed' \subseteq DOMAIN files
      /\ error' = {r \in parsed' : files[r].state = "malformed"}
      /\ members' \in [DOMAIN files -> Seq(Members)]
      /\ OfFiles'
  <2>1. CASE ReadByIndex(mem)
    <3>1. Parse(mem)
      BY <1>1, <2>1
    <3>2. /\ parsed' = parsed \cup {mem.refid}
          /\ error' = {r \in parsed' : files[r].state = "malformed"}
          /\ members' \in [DOMAIN files -> Seq(Members)]
          /\ OfFiles'
      BY <1>1, <1>2, <1>4, <3>1, ParseFacts
    <3>. QED  BY <1>2, <1>4, <3>2
  <2>2. CASE ~ReadByIndex(mem)
    BY <1>1, <1>2, <2>2 DEF OfFiles
  <2>. QED  BY <2>1, <2>2
<1>6. /\ Contents(mem) \in Seq(Objects)
      /\ \A m \in Range(Contents(mem)) :
           m = mem \/ (ReadByIndex(mem) /\ m \in Range(members'[mem.refid]))
  <2>1. mem \in Objects
    BY <1>3 DEF Objects
  <2>2. CASE mem.kind = "file" /\ ~IsHeader(mem.name)
    <3>1. Contents(mem) = <<>>
      BY <2>2 DEF Contents
    <3>2. Range(Contents(mem)) = {}
      BY <3>1 DEF Range
    <3>. QED  BY <3>1, <3>2
  <2>3. CASE ~(mem.kind = "file" /\ ~IsHeader(mem.name)) /\ mem.kind \in {"file", "namespace"}
    <3>1. Contents(mem) = Append(members'[mem.refid], mem) /\ ReadByIndex(mem)
      BY <2>3 DEF Contents, ReadByIndex
    <3>. DEFINE list == members'[mem.refid]
    <3>2. list \in Seq(Members)
      BY <1>4, <1>5
    <3>. HIDE DEF list
    <3>3. list \in Seq(Objects)
      BY <3>2, SeqMonotonic DEF Objects
    <3>4. /\ Append(list, mem) \in Seq(Objects) /\ Len(Append(list, mem)) = Len(list) + 1
          /\ \A k \in 1 .. Len(list) : Append(list, mem)[k] = list[k]
          /\ Append(list, mem)[Len(list) + 1] = mem
      BY <2>1, <3>3, AppendProperties
    <3>5. Len(list) \in Nat /\ DOMAIN list = 1 .. Len(list)
          /\ DOMAIN Append(list, mem) = 1 .. Len(list) + 1
      BY <3>3, <3>4
    <3>6. \A k \in 1 .. Len(list) + 1 : k \in 1 .. Len(list) \/ k = Len(list) + 1
      BY <3>5
    <3>7. \A m \in Range(Append(list, mem)) : m = mem \/ m \in Range(list)
      BY <3>4, <3>5, <3>6 DEF Range
    <3>. QED  BY <3>1, <3>4, <3>7 DEF list
  <2>4. CASE ~(mem.kind = "file" /\ ~IsHeader(mem.name)) /\ mem.kind \notin {"file", "namespace"}
    <3>1. Contents(mem) = <<mem>>
      BY <2>4 DEF Contents
    <3>2. <<mem>> \in Seq(Objects) /\ DOMAIN <<mem>> = {1} /\ <<mem>>[1] = mem
      BY <2>1
    <3>3. Range(<<mem>>) = {mem}
      BY <3>2 DEF Range
    <3>. QED  BY <3>1, <3>2, <3>3
  <2>. QED  BY <2>2, <2>3, <2>4
<1>7. /\ top' \in Seq(Objects)
      /\ \A m : m \in Range(top') <=> m \in Range(top) \/ m \in Range(Contents(mem))
  BY <1>1, <1>2, <1>6, RangeOfConcat
<1>8. XmlTypes'
  BY <1>1, <1>2, <1>3, <1>5, <1>7 DEF XmlTypes
<1>9. OfIndex'
  <2>1. PICK i \in Index :
          /\ Range(index) \subseteq Range(i)
          /\ \A m \in Range(top) :
               \/ m \in Range(i) \cup {NoObject}
               \/ \E c \in Range(i) : ReadByIndex(c) /\ m \in Range(files[c.refid].memberdefs)
    BY DEF Types, OfIndex
  <2>2. mem \in Range(i)
    BY <1>3, <2>1
  <2>3. ASSUME NEW m \in Range(top')
        PROVE  \/ m \in Range(i) \cup {NoObject}
               \/ \E c \in Range(i) : ReadByIndex(c) /\ m \in Range(files[c.refid].memberdefs)
    <3>1. CASE m \in Range(top)
      BY <2>1, <3>1
    <3>2. CASE m = mem
      BY <2>2, <3>2
    <3>3. CASE ReadByIndex(mem) /\ m \in Range(members'[mem.refid])
      <4>1. m \in Range(files[mem.refid].memberdefs) \cup {NoObject}
        BY <1>1, <1>4, <1>5, <3>3 DEF OfFiles
      <4>. QED  BY <2>2, <3>3, <4>1
    <3>. QED  BY <1>6, <1>7, <2>3, <3>1, <3>2, <3>3
  <2>. QED  BY <1>1, <1>3, <2>1, <2>3 DEF OfIndex
<1>. QED  BY <1>1, <1>5, <1>8, <1>9

\* A class is looked at: it is parsed, unless its file raises.
LEMMA FindStep ==
  ASSUME Types, FindBlock
  PROVE  /\ Head(todo) \in Range(IndexClasses) /\ todo \in Seq(Objects)
         /\ XmlTypes' /\ OfIndex' /\ OfFiles'
         /\ files' = files /\ top' = top /\ parsed \subseteq parsed'
         /\ \A r \in parsed : members'[r] = members[r] /\ (r \in error' <=> r \in error)
         /\ \/ Raises(Head(todo)) /\ Raise("class file")
            \/ ~Raises(Head(todo)) /\ Head(todo).refid \in parsed'
<1>. DEFINE class == Head(todo)
<1>1. todo # <<>> /\ pc = "find_blocks"
  BY DEF FindBlock
<1>2. todo \in Seq(Objects) /\ class \in Range(IndexClasses)
  BY <1>1, HeadAndTail DEF Types, TodoTypes, Loops
<1>3. class.refid \in DOMAIN files
  BY <1>2, IndexFacts DEF Types
<1>4. \/ Raises(class) /\ Raise("class file")
      \/ ~Raises(class) /\ Parse(class) /\ UNCHANGED <<index, files, top>>
  BY DEF FindBlock
<1>. HIDE DEF class
<1>5. CASE Raises(class) /\ Raise("class file")
  <2>1. UNCHANGED xmlVars
    BY <1>5 DEF Raise
  <2>2. XmlTypes' /\ OfIndex' /\ OfFiles'
    BY <2>1 DEF Types, xmlVars, XmlTypes, OfIndex, OfFiles
  <2>. QED  BY <1>2, <1>5, <2>1, <2>2 DEF xmlVars, class
<1>6. CASE ~Raises(class) /\ Parse(class) /\ UNCHANGED <<index, files, top>>
  <2>1. /\ parsed' = parsed \cup {class.refid}
        /\ error' = {r \in parsed' : files[r].state = "malformed"}
        /\ members' \in [DOMAIN files -> Seq(Members)]
        /\ \A r \in parsed : members'[r] = members[r] /\ (r \in error' <=> r \in error)
        /\ OfFiles'
    BY <1>3, <1>6, ParseFacts DEF Types
  <2>2. XmlTypes'
    BY <1>3, <1>6, <2>1 DEF Types, XmlTypes
  <2>3. OfIndex'
    BY <1>6 DEF Types, OfIndex
  <2>. QED  BY <1>2, <1>6, <2>1, <2>2, <2>3 DEF class
<1>. QED  BY <1>4, <1>5, <1>6

\* A dictionary that is updated has the type of one.
LEMMA OutputKept ==
  ASSUME OutputTypes, json' = json,
         output' = output \/ \E items : Updated(Items, output, items, output')
  PROVE  OutputTypes'
BY DEF OutputTypes, Updated

\* The types of lists that come from the index.
LEMMA OtherLists ==
  ASSUME XmlTypes
  PROVE  /\ OtherFunctions \in Seq(Objects)
         /\ \A f : f \in Range(OtherFunctions) <=>
              f \in Range(IndexFunctions) /\ <<f.name>> \notin make_funcs /\ ~IsStd(f.name)
         /\ OtherClasses \in Seq(Objects)
         /\ \A k : k \in Range(OtherClasses) <=>
              /\ k \in Range(IndexClasses) /\ ~IsStd(k.name)
              /\ k.name \notin {b.name : b \in Range(blocks \o blocks2)}
<1>. DEFINE S == {f \in Range(IndexFunctions) : <<f.name>> \notin make_funcs /\ ~IsStd(f.name)}
            C == {k \in Range(IndexClasses) :
                    /\ k.name \notin {b.name : b \in Range(blocks \o blocks2)}
                    /\ ~IsStd(k.name)}
<1>1. OtherFunctions = Select(IndexFunctions, S) /\ OtherClasses = Select(IndexClasses, C)
  BY DEF OtherFunctions, OtherClasses
<1>2. IndexFunctions \in Seq(Objects) /\ IndexClasses \in Seq(Objects)
  BY IndexFacts
<1>3. \A f : f \in Range(IndexFunctions) /\ f \in S <=>
             f \in Range(IndexFunctions) /\ <<f.name>> \notin make_funcs /\ ~IsStd(f.name)
  OBVIOUS
<1>4. \A k : k \in Range(IndexClasses) /\ k \in C <=>
              /\ k \in Range(IndexClasses) /\ ~IsStd(k.name)
              /\ k.name \notin {b.name : b \in Range(blocks \o blocks2)}
  OBVIOUS
<1>. HIDE DEF S, C
<1>5. /\ Select(IndexFunctions, S) \in Seq(Objects)
      /\ \A x : x \in Range(Select(IndexFunctions, S)) <=> x \in Range(IndexFunctions) /\ x \in S
  BY <1>2, SelectFacts
<1>6. /\ Select(IndexClasses, C) \in Seq(Objects)
      /\ \A x : x \in Range(Select(IndexClasses, C)) <=> x \in Range(IndexClasses) /\ x \in C
  BY <1>2, SelectFacts
<1>. QED  BY <1>1, <1>3, <1>4, <1>5, <1>6

\* The tail of a list of objects.
LEMMA TodoTail ==
  ASSUME todo # <<>>, pc \in Loops, Types
  PROVE  /\ Head(todo) \in Range(todo) /\ Tail(todo) \in Seq(Objects)
         /\ Range(Tail(todo)) \subseteq Range(todo)
         /\ \A x \in Range(todo) : x = Head(todo) \/ x \in Range(Tail(todo))
BY HeadAndTail DEF Types, TodoTypes

\* When a step leaves the tree and the lists of blocks alone, the types hold
\* after it if they do of what it changes.
LEMMA TypesKept ==
  ASSUME Types, UNCHANGED xmlVars, UNCHANGED <<blocks, blocks2>>,
         pc # "index" => pc' # "index", pc \notin {"index", "find_blocks"} =>
           pc' \notin {"index", "find_blocks"},
         pc = "index" => blocks2' = <<>>, TodoTypes', OutputTypes'
  PROVE  Types'
<1>1. XmlTypes' /\ OfIndex' /\ OfFiles'
  BY DEF Types, xmlVars, XmlTypes, OfIndex, OfFiles
<1>2. /\ IndexClasses' = IndexClasses
      /\ \A b : IsBlock2(b)' <=> IsBlock2(b)
  BY DEF xmlVars, IndexClasses, IsBlock2
<1>3. BlockTypes'
  <2>1. BlockTypes
    BY DEF Types
  <2>2. /\ blocks' \in Seq(Objects) /\ Range(blocks') \subseteq Range(IndexClasses')
        /\ blocks2' \in Seq(Objects)
        /\ \A b \in Range(blocks2') : b \in Range(IndexClasses') /\ IsBlock2(b)'
        /\ pc' = "index" => blocks' = <<>>
        /\ pc' \in {"index", "find_blocks"} => blocks2' = <<>>
    BY <1>2, <2>1 DEF BlockTypes
  <2>. QED  BY <2>2 DEF BlockTypes
<1>. QED  BY <1>1, <1>3 DEF Types

\* Each step keeps the types.
LEMMA TypesStep ==
  ASSUME Types, [Next]_vars  PROVE Types'
<1>0. XmlTypes /\ OfIndex /\ OfFiles /\ TodoTypes /\ BlockTypes /\ OutputTypes
  BY DEF Types
<1>1. CASE UNCHANGED vars
  BY <1>0, <1>1 DEF Types, vars, xmlVars, pydocVars, XmlTypes, OfIndex, OfFiles,
       TodoTypes, BlockTypes, OutputTypes, IndexClasses, IndexFunctions, IsBlock2
<1>2. ASSUME NEW e, Raise(e)  PROVE Types'
  <2>1. UNCHANGED xmlVars /\ UNCHANGED <<blocks, blocks2>> /\ pc' = "ended"
        /\ UNCHANGED <<output, json>>
    BY <1>2 DEF Raise, loopVars
  <2>2. TodoTypes' /\ OutputTypes'
    BY <1>0, <2>1 DEF TodoTypes, OutputTypes, Loops
  <2>. QED  BY <1>0, <2>1, <2>2, TypesKept DEF BlockTypes
\* A loop goes on with the rest of its list.
<1>3. ASSUME pc \in Loops, todo # <<>>, Goto(pc, Tail(todo)), UNCHANGED xmlVars,
             UNCHANGED <<blocks, blocks2, json>>,
             output' = output \/ \E items : Updated(Items, output, items, output')
      PROVE  Types'
  <2>1. pc' = pc /\ todo' = Tail(todo)
    BY <1>3 DEF Goto
  <2>2. Tail(todo) \in Seq(Objects) /\ Range(Tail(todo)) \subseteq Range(todo)
    BY <1>3, TodoTail
  <2>3. IndexClasses' = IndexClasses /\ IndexFunctions' = IndexFunctions
    BY <1>3 DEF xmlVars, IndexClasses, IndexFunctions
  <2>4. TodoTypes'
    BY <1>0, <1>3, <2>1, <2>2, <2>3 DEF TodoTypes
  <2>5. OutputTypes'
    BY <1>0, <1>3, OutputKept
  <2>. QED  BY <1>3, <2>1, <2>4, <2>5, TypesKept DEF Loops
\* The loop that is through is followed by the next.
<1>4. ASSUME pc \in Loops, pc' \notin {"index", "find_blocks"}, UNCHANGED xmlVars,
             UNCHANGED <<blocks, blocks2>>, TodoTypes', OutputTypes'
      PROVE  Types'
  BY <1>4, TypesKept DEF Loops
<1>5. CASE ScrapeIndex
  <2>1. CASE IndexCompound /\ UNCHANGED pydocVars /\ pc = "index"
    <3>1. XmlTypes' /\ OfIndex' /\ OfFiles'
      BY <2>1, IndexStep
    <3>2. blocks = <<>> /\ blocks2 = <<>> /\ Range(<<>>) = {}
      BY <1>0, <2>1 DEF BlockTypes, Range
    <3>3. TodoTypes' /\ BlockTypes' /\ OutputTypes'
      BY <1>0, <2>1, <3>2 DEF pydocVars, TodoTypes, BlockTypes, OutputTypes, Loops
    <3>. QED  BY <3>1, <3>3 DEF Types
  <2>2. CASE Raise("index")
    BY <1>2, <2>2
  <2>3. CASE /\ pc = "index" /\ Goto("find_blocks", IndexClasses)
             /\ UNCHANGED <<xmlVars, loopVars, exc, json, subVars>>
    <3>1. /\ XmlTypes' /\ OfIndex' /\ OfFiles' /\ IndexClasses' = IndexClasses
      BY <1>0, <2>3 DEF xmlVars, XmlTypes, OfIndex, OfFiles, IndexClasses
    <3>2. pc' = "find_blocks" /\ todo' = IndexClasses /\ IndexClasses \in Seq(Objects)
      BY <1>0, <2>3, IndexFacts DEF Goto
    <3>3. blocks = <<>> /\ blocks2 = <<>> /\ Range(<<>>) = {}
      BY <1>0, <2>3 DEF BlockTypes, Range
    <3>4. TodoTypes'
      BY <3>1, <3>2 DEF TodoTypes
    <3>5. BlockTypes' /\ OutputTypes'
      BY <1>0, <2>3, <3>2, <3>3 DEF BlockTypes, OutputTypes, loopVars
    <3>. QED  BY <3>1, <3>4, <3>5 DEF Types
  <2>. QED  BY <1>5, <2>1, <2>2, <2>3 DEF ScrapeIndex
<1>6. CASE FindBlock
  <2>1. /\ Head(todo) \in Range(IndexClasses) /\ todo \in Seq(Objects)
        /\ XmlTypes' /\ OfIndex' /\ OfFiles' /\ top' = top
        /\ todo # <<>> /\ pc = "find_blocks"
    BY <1>6, FindStep DEF FindBlock
  <2>2. CASE Raise("class file")
    BY <1>2, <2>2
  <2>3. CASE /\ UNCHANGED <<blocks2, output, json>>
             /\ \/ pc' = "ended" /\ UNCHANGED <<todo, blocks>>
                \/ Goto(pc, Tail(todo)) /\ blocks' \in {blocks, Append(blocks, Head(todo))}
    <3>1. IndexClasses' = IndexClasses
      BY <2>1 DEF IndexClasses
    <3>2. Tail(todo) \in Seq(Objects) /\ Range(Tail(todo)) \subseteq Range(todo)
      BY <2>1, TodoTail DEF Loops
    <3>3. TodoTypes'
      BY <1>0, <2>1, <2>3, <3>1, <3>2 DEF TodoTypes, Goto, Loops
    <3>4. blocks' \in Seq(Objects) /\ Range(blocks') \subseteq Range(IndexClasses)
      <4>1. CASE blocks' = blocks
        BY <1>0, <4>1 DEF BlockTypes
      <4>2. CASE blocks' = Append(blocks, Head(todo))
        <5>. DEFINE k == Head(todo)
        <5>1. k \in Objects /\ blocks \in Seq(Objects)
          BY <1>0, <2>1, IndexFacts DEF BlockTypes
        <5>2. /\ Append(blocks, k) \in Seq(Objects)
              /\ DOMAIN Append(blocks, k) = 1 .. Len(blocks) + 1
              /\ \A j \in 1 .. Len(blocks) : Append(blocks, k)[j] = blocks[j]
              /\ Append(blocks, k)[Len(blocks) + 1] = k
          BY <5>1, AppendProperties
        <5>3. Len(blocks) \in Nat /\ DOMAIN blocks = 1 .. Len(blocks)
          BY <5>1
        <5>4. \A x \in Range(Append(blocks, k)) : x = k \/ x \in Range(blocks)
          <6>1. \A j \in 1 .. Len(blocks) + 1 : j \in 1 .. Len(blocks) \/ j = Len(blocks) + 1
            BY <5>3
          <6>. QED  BY <5>2, <5>3, <6>1 DEF Range
        <5>. QED  BY <1>0, <2>1, <4>2, <5>2, <5>4 DEF BlockTypes
      <4>. QED  BY <2>3, <4>1, <4>2
    <3>5. pc' # "index" /\ blocks2' = <<>> /\ Range(<<>>) = {} /\ <<>> \in Seq(Objects)
      BY <1>0, <2>1, <2>3 DEF BlockTypes, Goto, Range
    <3>6. BlockTypes'
      BY <3>1, <3>4, <3>5 DEF BlockTypes
    <3>7. OutputTypes'
      BY <1>0, <2>3 DEF OutputTypes
    <3>. QED  BY <2>1, <3>3, <3>6, <3>7 DEF Types
  <2>. QED  BY <1>6, <2>2, <2>3 DEF FindBlock
<1>7. CASE BlocksFound
  <2>1. /\ pc = "find_blocks" /\ pc' = "blocks" /\ todo' = blocks
        /\ UNCHANGED xmlVars /\ UNCHANGED <<blocks, output, json>>
        /\ blocks2' = Select(IndexClasses, {k \in Range(IndexClasses) : IsBlock2(k)})
    BY <1>7 DEF BlocksFound, Goto
  <2>2. /\ XmlTypes' /\ OfIndex' /\ OfFiles' /\ IndexClasses' = IndexClasses
        /\ \A k : IsBlock2(k)' <=> IsBlock2(k)
    BY <1>0, <2>1 DEF xmlVars, XmlTypes, OfIndex, OfFiles, IndexClasses, IsBlock2
  <2>3. blocks2' \in Seq(Objects) /\ \A b \in Range(blocks2') : b \in Range(IndexClasses) /\ IsBlock2(b)
    <3>. DEFINE S == {k \in Range(IndexClasses) : IsBlock2(k)}
    <3>1. IndexClasses \in Seq(Objects) /\ \A k : k \in S <=> k \in Range(IndexClasses) /\ IsBlock2(k)
      BY <1>0, IndexFacts
    <3>. HIDE DEF S
    <3>2. /\ Select(IndexClasses, S) \in Seq(Objects)
          /\ \A x : x \in Range(Select(IndexClasses, S)) <=> x \in Range(IndexClasses) /\ x \in S
      BY <3>1, SelectFacts
    <3>. QED  BY <2>1, <3>1, <3>2 DEF S
  <2>4. TodoTypes' /\ OutputTypes'
    BY <1>0, <2>1 DEF TodoTypes, OutputTypes, BlockTypes
  <2>5. BlockTypes'
    <3>1. /\ \A b \in Range(blocks2') : b \in Range(IndexClasses') /\ IsBlock2(b)'
          /\ blocks' \in Seq(Objects) /\ Range(blocks') \subseteq Range(IndexClasses')
          /\ pc' \notin {"index", "find_blocks"}
      BY <1>0, <2>1, <2>2, <2>3 DEF BlockTypes
    <3>. QED  BY <2>3, <3>1 DEF BlockTypes
  <2>. QED  BY <2>2, <2>4, <2>5 DEF Types
<1>8. CASE ScrapeBlock
  <2>1. pc \in Loops /\ todo # <<>>
    BY <1>8 DEF ScrapeBlock, Loops
  <2>2. \/ Raise("make function")
        \/ /\ output' = output \/ \E items : Updated(Items, output, items, output')
           /\ Goto(pc, Tail(todo)) /\ UNCHANGED xmlVars
           /\ UNCHANGED <<blocks, blocks2, json>>
    BY <1>8, BlockStep
  <2>. QED  BY <1>2, <1>3, <2>1, <2>2
<1>9. CASE ScrapeBlock2
  <2>1. /\ pc \in Loops /\ todo # <<>> /\ Goto(pc, Tail(todo)) /\ UNCHANGED xmlVars
        /\ UNCHANGED <<blocks, blocks2, json>>
    BY <1>9 DEF ScrapeBlock2, Loops
  <2>2. output' = output \/ \E items : Updated(Items, output, items, output')
    BY <1>9, Block2Step
  <2>. QED  BY <1>3, <2>1, <2>2
<1>10. CASE ScrapeFunction
  <2>1. /\ pc \in Loops /\ todo # <<>> /\ Goto(pc, Tail(todo)) /\ UNCHANGED xmlVars
        /\ UNCHANGED <<blocks, blocks2, json>>
    BY <1>10 DEF ScrapeFunction, Loops
  <2>2. output' = output \/ \E items : Updated(Items, output, items, output')
    BY <1>10, FunctionStep
  <2>. QED  BY <1>3, <2>1, <2>2
<1>11. CASE ScrapeClass
  <2>1. /\ pc \in Loops /\ todo # <<>> /\ Goto(pc, Tail(todo)) /\ UNCHANGED xmlVars
        /\ UNCHANGED <<blocks, blocks2, json>>
    BY <1>11 DEF ScrapeClass, Loops
  <2>2. output' = output \/ \E items : Updated(Items, output, items, output')
    BY <1>11, ClassStep
  <2>. QED  BY <1>3, <2>1, <2>2
<1>12. CASE NextLoop
  <2>1. /\ UNCHANGED xmlVars /\ UNCHANGED <<blocks, blocks2, output>>
        /\ pc \in Loops /\ pc' \notin {"index", "find_blocks"}
        /\ \/ pc' = "blocks2" /\ todo' = blocks2 /\ json' = json
           \/ pc' = "functions" /\ todo' = OtherFunctions /\ json' = json
           \/ pc' = "classes" /\ todo' = OtherClasses /\ json' = json
           \/ pc' = "written" /\ json' = [exists |-> TRUE, items |-> output]
    BY <1>12 DEF NextLoop, Goto, loopVars, Loops
  <2>2. IndexClasses' = IndexClasses /\ IndexFunctions' = IndexFunctions
    BY <2>1 DEF xmlVars, IndexClasses, IndexFunctions
  <2>3. /\ OtherFunctions \in Seq(Objects) /\ OtherClasses \in Seq(Objects)
        /\ Range(OtherFunctions) \subseteq Range(IndexFunctions)
        /\ Range(OtherClasses) \subseteq Range(IndexClasses)
    BY <1>0, OtherLists
  <2>4. TodoTypes'
    BY <1>0, <2>1, <2>2, <2>3 DEF TodoTypes, BlockTypes, Loops
  <2>5. OutputTypes'
    <3>1. output \in Seq(Items) /\ output' = output
          /\ json \in [exists : BOOLEAN, items : Seq(Items)]
      BY <1>0, <2>1 DEF OutputTypes
    <3>2. json' = json \/ json' = [exists |-> TRUE, items |-> output]
      BY <2>1
    <3>3. [exists |-> TRUE, items |-> output] \in [exists : BOOLEAN, items : Seq(Items)]
      BY <3>1
    <3>. QED  BY <3>1, <3>2, <3>3 DEF OutputTypes
  <2>. QED  BY <1>4, <2>1, <2>4, <2>5
<1>13. CASE SubStarts \/ Substitute
  <2>1. /\ UNCHANGED xmlVars /\ UNCHANGED <<blocks, blocks2, output, json>>
        /\ pc \in {"written", "sub"} /\ pc' = "sub"
    BY <1>13 DEF SubStarts, Substitute, Goto, loopVars
  <2>2. TodoTypes' /\ OutputTypes'
    BY <1>0, <2>1 DEF TodoTypes, OutputTypes, Loops
  <2>. QED  BY <2>1, <2>2, TypesKept
<1>. QED  BY <1>1, <1>5, <1>6, <1>7, <1>8, <1>9, <1>10, <1>11, <1>12, <1>13 DEF Next

\* The types hold at the beginning,
LEMMA TypesInit ==
  ASSUME Init  PROVE Types
<1>1. /\ index \in Index /\ files \in Files /\ parsed = {} /\ error = {}
      /\ members = [r \in DOMAIN files |-> <<>>] /\ top = <<>>
      /\ pc = "index" /\ blocks = <<>> /\ blocks2 = <<>> /\ output = <<>>
      /\ json = [exists |-> FALSE, items |-> <<>>]
  BY DEF Init, XmlInit, NoFile
<1>2. Range(<<>>) = {} /\ \A S : <<>> \in Seq(S)
  BY DEF Range
<1>3. XmlTypes
  BY <1>1, <1>2, DirectoryAssumption DEF XmlTypes
<1>4. OfIndex /\ OfFiles
  BY <1>1, <1>2 DEF OfIndex, OfFiles
<1>5. TodoTypes /\ BlockTypes /\ OutputTypes
  BY <1>1, <1>2 DEF TodoTypes, BlockTypes, OutputTypes, Loops
<1>. QED  BY <1>3, <1>4, <1>5 DEF Types

\* and always.
LEMMA TypesHold == Spec => []Types
BY TypesInit, TypesStep, PTL DEF Spec

-----------------------------------------------------------------------------
(* What scrape fails over.                                                 *)

\* Two in the index under one name, where one is expected.
TwoInIndex ==
  \E p, q \in DOMAIN top : /\ p # q /\ top[p].name = top[q].name
                          /\ top[p].kind \in {"function", "file"}
                          /\ top[q].kind = top[p].kind

\* A call of get_member() that finds two is a reason to stop.
LEMMA DuplicateIsAReason ==
  ASSUME Types, NEW name,
         Duplicate(IndexFunctions, name) \/ Duplicate(InCategory(top, "file"), name)
  PROVE  TwoInIndex
<1>1. top \in Seq(Objects)
  BY DEF Types, XmlTypes
<1>2. CASE Duplicate(IndexFunctions, name)
  <2>1. Duplicate(InCategory(top, "function"), name)
    BY <1>2 DEF IndexFunctions
  <2>. QED  BY <1>1, <2>1, TwoOfACategory DEF TwoInIndex
<1>3. CASE Duplicate(InCategory(top, "file"), name)
  BY <1>1, <1>3, TwoOfACategory DEF TwoInIndex
<1>. QED  BY <1>2, <1>3

\* A block was found with a friend that is no function of the index, or there
\* are two of the name.
LEMMA NoMakeFunction ==
  ASSUME Types, BlocksFit, NEW b \in Range(blocks),
         ~has_member(IndexFunctions, MakeName(b.name))
  PROVE  \/ TwoInIndex
         \/ \E class \in Range(IndexClasses) :
              /\ \E m \in Range(members[class.refid]) :
                   m.kind = "friend" /\ m.name = MakeName(class.name)
              /\ \A f \in Range(IndexFunctions) : f.name # MakeName(class.name)
<1>. DEFINE name == MakeName(b.name)
            friends == InCategory(members[b.refid], "friend")
<1>1. b \in Range(IndexClasses) /\ members[b.refid] \in Seq(Members)
      /\ IndexFunctions \in Seq(Objects)
  BY IndexFacts DEF Types, BlockTypes
<1>2. has_member(friends, name)
  BY DEF BlocksFit
<1>3. /\ friends \in Seq(Members)
      /\ \A x : x \in Range(friends) <=> x \in Range(members[b.refid]) /\ x.kind = "friend"
  BY <1>1, InCategoryFacts
<1>. HIDE DEF friends
<1>4. PICK m \in Range(friends) : m.name = name
  BY <1>2, <1>3, HasMember
<1>5. Duplicate(IndexFunctions, name) \/ \A f \in Range(IndexFunctions) : f.name # name
  BY <1>1, HasMember
<1>6. CASE Duplicate(IndexFunctions, name)
  BY <1>6, DuplicateIsAReason
<1>7. CASE \A f \in Range(IndexFunctions) : f.name # name
  BY <1>1, <1>3, <1>4, <1>7
<1>. QED  BY <1>5, <1>6, <1>7

\* No step stops the scrape without a reason.
LEMMA StopStep ==
  ASSUME Types, StopInv, [Next]_vars  PROVE StopInv'
<1>0. XmlTypes /\ TodoTypes /\ BlockTypes /\ BlocksFit
      /\ (exc # "none" => pc = "ended")
  BY DEF Types, StopInv
<1>1. CASE UNCHANGED vars
  BY <1>1 DEF StopInv, BlocksFit, StopsForAReason, IndexClasses, IndexFunctions,
       vars, xmlVars, pydocVars
\* Where nothing is raised, the blocks found have only to remain what they are.
<1>2. ASSUME UNCHANGED xmlVars, blocks' = blocks  PROVE BlocksFit'
  BY <1>0, <1>2 DEF BlocksFit, xmlVars, IndexFunctions
<1>3. ASSUME exc' = exc, pc # "ended"
      PROVE  (exc' # "none" => pc' = "ended") /\ StopsForAReason'
  BY <1>0, <1>3 DEF StopsForAReason
<1>4. ASSUME pc # "ended", exc' = exc, UNCHANGED xmlVars, blocks' = blocks  PROVE StopInv'
  BY <1>2, <1>3, <1>4 DEF StopInv
<1>5. ASSUME NEW e, Raise(e), StopsForAReason'  PROVE StopInv'
  BY <1>2, <1>5 DEF StopInv, Raise, loopVars
<1>6. ASSUME top' = top, TwoInIndex  PROVE StopsForAReason'
  BY <1>6 DEF StopsForAReason, TwoInIndex
<1>7. CASE ScrapeIndex
  <2>1. CASE IndexCompound /\ UNCHANGED pydocVars /\ pc = "index"
    <3>1. blocks' = <<>> /\ Range(<<>>) = {}
      BY <1>0, <2>1 DEF pydocVars, BlockTypes, Range
    <3>2. BlocksFit'
      BY <3>1 DEF BlocksFit
    <3>. QED  BY <1>3, <2>1, <3>2 DEF pydocVars, StopInv
  <2>2. CASE index # <<>> /\ IndexRaises(Head(index)) /\ Raise("index")
    <3>1. files[Head(index).refid].state # "good" \/ Head(index).kind \notin Kinds
      BY <2>2 DEF IndexRaises, Raises
    <3>2. index' = index /\ files' = files
      BY <2>2 DEF Raise, xmlVars
    <3>3. StopsForAReason'
      BY <2>2, <3>1, <3>2 DEF StopsForAReason
    <3>. QED  BY <1>5, <2>2, <3>3
  <2>3. CASE /\ pc = "index"
             /\ UNCHANGED <<xmlVars, loopVars, exc, json, subVars>>
    BY <1>4, <2>3 DEF loopVars
  <2>. QED  BY <1>7, <2>1, <2>2, <2>3 DEF ScrapeIndex
<1>8. CASE FindBlock
  <2>. DEFINE class == Head(todo)
              name == MakeName(class.name)
              Friend == has_member(InCategory(members'[class.refid], "friend"), name)
  <2>1. /\ class \in Range(IndexClasses) /\ XmlTypes'
        /\ files' = files /\ top' = top /\ parsed \subseteq parsed' /\ pc = "find_blocks"
        /\ \A r \in parsed : members'[r] = members[r] /\ (r \in error' <=> r \in error)
        /\ \/ Raises(class) /\ Raise("class file")
           \/ ~Raises(class) /\ class.refid \in parsed'
    BY <1>8, FindStep DEF FindBlock
  <2>2. IndexClasses' = IndexClasses /\ IndexFunctions' = IndexFunctions
    BY <2>1 DEF IndexClasses, IndexFunctions
  <2>3. CASE Raises(class) /\ Raise("class file")
    <3>1. class.kind = "class"
      BY <1>0, <2>1, IndexFacts
    <3>2. files[class.refid].state = "missing"
      BY <2>3, <3>1 DEF Raises
    <3>3. StopsForAReason'
      BY <2>1, <2>2, <3>2 DEF StopsForAReason
    <3>. QED  BY <1>5, <2>3, <3>3
  <2>4. CASE /\ ~Raises(class) /\ class.refid \in parsed'
             /\ IF class.refid \notin error' /\ ~Friend /\ Duplicate(IndexFunctions, name)
                THEN exc' = "Duplicate" /\ pc' = "ended" /\ UNCHANGED <<todo, blocks>>
                ELSE /\ Goto(pc, Tail(todo)) /\ UNCHANGED exc
                     /\ blocks' = IF /\ class.refid \notin error'
                                     /\ Friend \/ has_member(IndexFunctions, name)
                                  THEN Append(blocks, class) ELSE blocks
    <3>1. ASSUME NEW b \in Range(blocks)
          PROVE  /\ b.refid \in parsed' /\ b.refid \notin error'
                 /\ \/ has_member(InCategory(members'[b.refid], "friend"), MakeName(b.name))
                    \/ has_member(IndexFunctions, MakeName(b.name))
      BY <1>0, <2>1 DEF BlocksFit
    <3>2. CASE blocks' = blocks
      <4>1. BlocksFit'
        BY <2>2, <3>1, <3>2 DEF BlocksFit
      <4>2. (exc' # "none" => pc' = "ended") /\ StopsForAReason'
        <5>1. CASE exc' = exc
          BY <1>3, <2>1, <5>1
        <5>2. CASE exc' # exc
          <6>1. Duplicate(IndexFunctions, name) /\ pc' = "ended"
            BY <2>4, <5>2
          <6>2. TwoInIndex
            BY <6>1, DuplicateIsAReason
          <6>. QED  BY <1>6, <2>1, <6>1, <6>2
        <5>. QED  BY <5>1, <5>2
      <4>. QED  BY <4>1, <4>2 DEF StopInv
    <3>3. CASE blocks' # blocks
      <4>1. /\ class.refid \notin error' /\ (Friend \/ has_member(IndexFunctions, name))
            /\ blocks' = Append(blocks, class) /\ exc' = exc
        BY <2>4, <3>3
      <4>2. \A b \in Range(blocks') : b = class \/ b \in Range(blocks)
        <5>1. blocks \in Seq(Objects) /\ class \in Objects
          BY <1>0, <2>1, IndexFacts DEF BlockTypes
        <5>. HIDE DEF class
        <5>2. /\ DOMAIN blocks' = 1 .. Len(blocks) + 1
              /\ \A j \in 1 .. Len(blocks) : blocks'[j] = blocks[j]
              /\ blocks'[Len(blocks) + 1] = class
          BY <4>1, <5>1, AppendProperties
        <5>3. Len(blocks) \in Nat /\ DOMAIN blocks = 1 .. Len(blocks)
          BY <5>1
        <5>4. \A j \in 1 .. Len(blocks) + 1 : j \in 1 .. Len(blocks) \/ j = Len(blocks) + 1
          BY <5>3
        <5>. QED  BY <5>2, <5>3, <5>4 DEF Range
      <4>3. BlocksFit'
        BY <2>2, <2>4, <3>1, <4>1, <4>2 DEF BlocksFit
      <4>. QED  BY <1>3, <2>1, <4>1, <4>3 DEF StopInv
    <3>. QED  BY <3>2, <3>3
  <2>5. \/ Raises(class) /\ Raise("class file")
        \/ /\ ~Raises(class)
           /\ IF class.refid \notin error' /\ ~Friend /\ Duplicate(IndexFunctions, name)
              THEN exc' = "Duplicate" /\ pc' = "ended" /\ UNCHANGED <<todo, blocks>>
              ELSE /\ Goto(pc, Tail(todo)) /\ UNCHANGED exc
                   /\ blocks' = IF /\ class.refid \notin error'
                                   /\ Friend \/ has_member(IndexFunctions, name)
                                THEN Append(blocks, class) ELSE blocks
    BY <1>8 DEF FindBlock
  <2>. QED  BY <2>1, <2>3, <2>4, <2>5
<1>9. CASE BlocksFound
  BY <1>4, <1>9 DEF BlocksFound
<1>10. CASE ScrapeBlock
  <2>. DEFINE block == Head(todo)
              name == MakeName(block.name)
              fails == \/ ~has_member(IndexFunctions, name)
                       \/ Duplicate(InCategory(top, "file"), HeaderOf(block.name))
  <2>1. pc = "blocks" /\ todo # <<>>
    BY <1>10 DEF ScrapeBlock
  <2>2. block \in Range(blocks)
    BY <1>0, <2>1, TodoTail DEF TodoTypes, Loops
  <2>3. CASE fails /\ Raise("make function")
    <3>1. \/ TwoInIndex
          \/ \E class \in Range(IndexClasses) :
               /\ \E m \in Range(members[class.refid]) :
                    m.kind = "friend" /\ m.name = MakeName(class.name)
               /\ \A f \in Range(IndexFunctions) : f.name # MakeName(class.name)
      BY <1>0, <2>2, <2>3, DuplicateIsAReason, NoMakeFunction
    <3>2. top' = top /\ members' = members
          /\ IndexClasses' = IndexClasses /\ IndexFunctions' = IndexFunctions
      BY <2>3 DEF Raise, xmlVars, IndexClasses, IndexFunctions
    <3>3. StopsForAReason'
      BY <3>1, <3>2 DEF StopsForAReason, TwoInIndex
    <3>. QED  BY <1>5, <2>3, <3>3
  <2>4. CASE UNCHANGED <<xmlVars, blocks, blocks2, exc, json, subVars>>
    BY <1>4, <2>1, <2>4
  <2>. QED  BY <1>10, <2>3, <2>4 DEF ScrapeBlock
<1>11. CASE ScrapeBlock2
  BY <1>4, <1>11 DEF ScrapeBlock2
<1>12. CASE ScrapeFunction
  BY <1>4, <1>12 DEF ScrapeFunction
<1>13. CASE ScrapeClass
  BY <1>4, <1>13 DEF ScrapeClass
<1>14. CASE NextLoop
  <2>1. pc # "ended" /\ exc' = exc /\ UNCHANGED xmlVars /\ blocks' = blocks
    BY <1>14 DEF NextLoop, loopVars
  <2>. QED  BY <1>4, <2>1
<1>15. CASE SubStarts
  BY <1>4, <1>15 DEF SubStarts, loopVars
<1>16. CASE Substitute
  BY <1>4, <1>16 DEF Substitute, loopVars
<1>. QED  BY <1>1, <1>7, <1>8, <1>9, <1>10, <1>11, <1>12, <1>13, <1>14, <1>15, <1>16 DEF Next

\* An exception of scrape has one of the reasons that are listed.
THEOREM ScrapeStopsForAReason == Spec => []StopsForAReason
<1>1. Init => StopInv
  BY DEF Init, StopInv, BlocksFit, StopsForAReason, Range
<1>2. Types /\ StopInv /\ [Next]_vars => StopInv'
  BY StopStep
<1>3. StopInv => StopsForAReason
  BY DEF StopInv
<1>. QED  BY <1>1, <1>2, <1>3, TypesHold, PTL DEF Spec

-----------------------------------------------------------------------------
(* What is in the JSON file.                                               *)

\* The names of what the index holds, as NamesAssumption has them.
LEMMA NamesApart ==
  ASSUME Types
  PROVE  /\ \A k, l \in Range(IndexClasses) :
              k.name = l.name \/ MakeName(k.name) = MakeName(l.name) => k = l
         /\ \A f \in Range(IndexFunctions), k \in Range(IndexClasses) :
              FunctionKey(f)[1] # k.name
<1>1. PICK i \in Index :
        \A m \in Range(top) :
          \/ m \in Range(i) \cup {NoObject}
          \/ \E mem \in Range(i) : /\ ReadByIndex(mem)
                                   /\ m \in Range(files[mem.refid].memberdefs)
  BY DEF Types, OfIndex
<1>2. files \in Files
  BY DEF Types, XmlTypes
<1>3. \A k \in Range(i) : k \in Listed
  BY DEF Listed
<1>4. \A mem \in Range(i) : mem.refid \in DOMAIN files
  BY <1>2, <1>3, DirectoryAssumption
<1>5. \A mem \in Range(i) : \A m \in Range(files[mem.refid].memberdefs) : m.kind \notin Compounds
  <2>1. \A r \in DOMAIN files : \A m \in Range(files[r].memberdefs) : m \in Defined
    BY <1>2 DEF Defined
  <2>. QED  BY <1>4, <2>1, DirectoryAssumption
<1>6. NoObject.kind = "None"
  BY DEF NoObject
<1>7. \A k \in Range(IndexClasses) : k \in Range(i) /\ k.kind = "class"
  <2>1. "class" \in Compounds /\ "class" # "None"
    BY DEF Compounds
  <2>2. ASSUME NEW k \in Range(IndexClasses)  PROVE k \in Range(i) /\ k.kind = "class"
    <3>1. k \in Range(top) /\ k.kind = "class"
      BY IndexFacts DEF Types
    <3>. QED  BY <1>1, <1>5, <1>6, <2>1, <3>1
  <2>. QED  BY <2>2
<1>8. ASSUME NEW f \in Range(IndexFunctions)
      PROVE  \E mem \in Range(i) : /\ ReadByIndex(mem) /\ f.kind = "function"
                                   /\ f \in Range(files[mem.refid].memberdefs)
  <2>1. f \in Range(top) /\ f.kind = "function"
    BY IndexFacts DEF Types
  <2>2. f \notin Range(i)
    BY <1>3, <2>1, DirectoryAssumption
  <2>. QED  BY <1>1, <1>6, <2>1, <2>2
<1>9. \A k, l \in Range(IndexClasses) :
        k.name = l.name \/ MakeName(k.name) = MakeName(l.name) => k = l
  BY <1>7, NamesAssumption
<1>10. ASSUME NEW f \in Range(IndexFunctions), NEW k \in Range(IndexClasses)
       PROVE  FunctionKey(f)[1] # k.name
  <2>1. PICK mem \in Range(i) : /\ ReadByIndex(mem) /\ f.kind = "function"
                                /\ f \in Range(files[mem.refid].memberdefs)
    BY <1>8
  <2>. QED  BY <1>2, <1>7, <2>1, NamesAssumption
<1>. QED  BY <1>9, <1>10

\* Nothing is lost by an update, and what it is given is known afterwards.
LEMMA KnownAfter ==
  ASSUME NEW items, Updated(Items, output, items, output')
  PROVE  /\ \A key : Known(key) => Known(key)'
         /\ \A item \in items : Known(item.key)'
<1>1. \A k \in DOMAIN output : k \in DOMAIN output' /\ output'[k].key = output[k].key
  BY DEF Updated
<1>2. ASSUME NEW key, NEW item \in Range(output), item.key = key
      PROVE  \E other \in Range(output') : other.key = key
  <2>1. PICK k \in DOMAIN output : item = output[k]
    BY DEF Range
  <2>. QED  BY <1>1, <1>2, <2>1 DEF Range
<1>3. \A item \in items : \E other \in Range(output') : other.key = item.key
  BY DEF Updated
<1>. QED  BY <1>2, <1>3 DEF Known

\* A class is done when its entries were added, and stays so.
LEMMA DoneAfter ==
  ASSUME NEW items, Updated(Items, output, items, output'), UNCHANGED xmlVars, NEW k
  PROVE  /\ Done(k) => Done(k)'
         /\ \A d, ignored :
              /\ Entry(k, d, ignored) \subseteq items
              /\ \A name \in ignored : \E item \in items : item.key = <<k.name, name>>
              => Done(k)'
<1>1. FunctionsOf(k)' = FunctionsOf(k)
  BY DEF xmlVars, FunctionsOf
<1>2. /\ \A key : Known(key) => Known(key)'
      /\ \A item \in items : Known(item.key)'
  BY KnownAfter
<1>3. Done(k) => Done(k)'
  BY <1>1, <1>2 DEF Done
<1>4. ASSUME NEW d, NEW ignored, Entry(k, d, ignored) \subseteq items,
             \A name \in ignored : \E item \in items : item.key = <<k.name, name>>
      PROVE  Done(k)'
  <2>1. Known(<<k.name>>)'
    <3>1. Item(<<k.name>>, d) \in items /\ Item(<<k.name>>, d).key = <<k.name>>
      BY <1>4 DEF Entry, Item
    <3>. QED  BY <1>2, <3>1
  <2>2. ASSUME NEW f \in Range(FunctionsOf(k))  PROVE Known(<<k.name, f.name>>)'
    <3>1. CASE f.name \in ignored
      BY <1>2, <1>4, <3>1
    <3>2. CASE f.name \notin ignored
      <4>1. Item(<<k.name, f.name>>, <<f>>) \in items
        BY <1>4, <3>2 DEF Entry
      <4>2. Item(<<k.name, f.name>>, <<f>>).key = <<k.name, f.name>>
        BY DEF Item
      <4>. QED  BY <1>2, <4>1, <4>2
    <3>. QED  BY <3>1, <3>2
  <2>. QED  BY <1>1, <2>1, <2>2 DEF Done
<1>. QED  BY <1>3, <1>4

\* A step of a loop keeps DocInv if what it puts into the dictionary has a
\* source and a name that fits, and it deals with the head of its list.
LEMMA LoopStep ==
  ASSUME Types, DocInv, Scraping, todo # <<>>, Goto(pc, Tail(todo)),
         UNCHANGED xmlVars, UNCHANGED <<blocks, blocks2, json>>,
         NEW items, Updated(Items, output, items, output'),
         make_funcs \subseteq make_funcs',
         pc = "functions" => make_funcs' = make_funcs,
         \A item \in items : Source(item),
         \A item \in items : Len(item.value) > 1 => JoinedName(item)',
         \A n \in make_funcs' : n \in make_funcs \/
           \E b \in Range(IndexClasses) :
             Done(b)' /\ n \in {<<MakeName(b.name)>>, <<b.name, "make">>},
         \A f \in Range(IndexFunctions) : <<f.name>> \in make_funcs' =>
           <<f.name>> \in make_funcs \/ Known(FunctionKey(f))',
         NEW head, head = Head(todo),
         pc \in {"blocks", "blocks2"} => Done(head)',
         pc = "functions" => Known(FunctionKey(head))',
         pc = "classes" => head.refid \in error \/ Done(head)'
  PROVE  DocInv'
<1>0. /\ AllParsed /\ NothingYet /\ Sources /\ MakeFuncsDone
      /\ LoopsDone /\ TodoIsOther /\ JsonIsOutput /\ JoinedNames
  BY DEF DocInv
<1>1. /\ IndexClasses' = IndexClasses /\ IndexFunctions' = IndexFunctions
      /\ parsed' = parsed /\ error' = error
  BY DEF xmlVars, IndexClasses, IndexFunctions
<1>2. pc' = pc /\ todo' = Tail(todo) /\ blocks' = blocks /\ blocks2' = blocks2 /\ json' = json
  BY DEF Goto
<1>3. /\ pc \in {"blocks", "blocks2", "functions", "classes"}
      /\ \A x \in Range(todo) : x = head \/ x \in Range(Tail(todo))
      /\ Range(Tail(todo)) \subseteq Range(todo)
  BY TodoTail DEF Scraping, Loops
<1>4. /\ \A key : Known(key) => Known(key)'
      /\ \A k : Done(k) => Done(k)'
  BY KnownAfter, DoneAfter
<1>5. \A item \in Range(output') : item \in Range(output) \/ item \in items
  BY DEF Updated
<1>6. AllParsed' /\ NothingYet'
  BY <1>0, <1>1, <1>2, <1>3 DEF AllParsed, NothingYet, Scraping, Written
<1>7. Sources'
  <2>1. \A item : Source(item)' <=> Source(item)
    BY <1>1 DEF Source
  <2>. QED  BY <1>0, <1>5, <2>1 DEF Sources
<1>8. MakeFuncsDone'
  <2>1. ASSUME NEW n \in make_funcs'
        PROVE  \E b \in Range(IndexClasses) :
                 Done(b)' /\ n \in {<<MakeName(b.name)>>, <<b.name, "make">>}
    <3>1. CASE n \in make_funcs
      BY <1>0, <1>4, <3>1 DEF MakeFuncsDone
    <3>. QED  BY <3>1
  <2>2. ASSUME NEW f \in Range(IndexFunctions), <<f.name>> \in make_funcs'
        PROVE  Known(FunctionKey(f))'
    <3>1. CASE <<f.name>> \in make_funcs
      BY <1>0, <1>4, <3>1 DEF MakeFuncsDone
    <3>. QED  BY <2>2, <3>1
  <2>. QED  BY <1>1, <2>1, <2>2 DEF MakeFuncsDone
<1>9. LoopsDone'
  <2>1. ASSUME NEW b \in Range(blocks)
        PROVE  Done(b)' \/ (pc = "blocks" /\ b \in Range(Tail(todo)))
    BY <1>0, <1>3, <1>4 DEF LoopsDone, Scraping
  <2>2. ASSUME NEW b \in Range(blocks2), pc # "blocks"
        PROVE  Done(b)' \/ (pc = "blocks2" /\ b \in Range(Tail(todo)))
    BY <1>0, <1>3, <1>4, <2>2 DEF LoopsDone, Scraping
  <2>3. ASSUME NEW f \in Range(IndexFunctions), ~IsStd(f.name), pc \in {"functions", "classes"}
        PROVE  Known(FunctionKey(f))' \/ (pc = "functions" /\ f \in Range(Tail(todo)))
    BY <1>0, <1>3, <1>4, <2>3 DEF LoopsDone
  <2>4. ASSUME NEW k \in Range(IndexClasses), ~IsStd(k.name), k.refid \notin error, pc = "classes"
        PROVE  Done(k)' \/ k \in Range(Tail(todo))
    BY <1>0, <1>3, <1>4, <2>4 DEF LoopsDone
  <2>. QED  BY <1>1, <1>2, <1>3, <2>1, <2>2, <2>3, <2>4 DEF LoopsDone, Scraping, Written
<1>10. TodoIsOther'
  BY <1>0, <1>2, <1>3 DEF TodoIsOther
<1>11. JsonIsOutput'
  BY <1>0, <1>2, <1>3 DEF JsonIsOutput, Written
<1>12. JoinedNames'
  <2>1. ASSUME NEW item \in Range(output'), Len(item.value) > 1  PROVE JoinedName(item)'
    <3>1. CASE item \in items
      BY <2>1, <3>1
    <3>2. CASE item \in Range(output)
      <4>1. JoinedName(item)
        BY <1>0, <2>1, <3>2 DEF JoinedNames
      <4>. QED  BY <1>1, <1>2, <4>1 DEF JoinedName
    <3>. QED  BY <1>5, <3>1, <3>2
  <2>. QED  BY <2>1 DEF JoinedNames
<1>. QED  BY <1>6, <1>7, <1>8, <1>9, <1>10, <1>11, <1>12 DEF DocInv

\* Nothing happens to the dictionary by an update without items.
LEMMA NoUpdate ==
  ASSUME Types, output' = output  PROVE Updated(Items, output, {}, output')
BY DEF Types, OutputTypes, Updated

\* What the items of a class tell about their source and their length.
LEMMA EntrySources ==
  ASSUME Types, NEW k \in Range(IndexClasses), k.refid \notin error,
         NEW d, d[1] = k, NEW ignored, NEW item \in Entry(k, d, ignored)
  PROVE  /\ Source(item)
         /\ \/ item.value = d /\ item.key = <<k.name>>
            \/ /\ ~(Len(item.value) > 1)
               /\ \E name : name \notin ignored /\ item.key = <<k.name, name>>
<1>1. CASE item = Item(<<k.name>>, d)
  <2>1. item.value = d /\ item.key = <<k.name>>
    BY <1>1 DEF Item
  <2>2. \A l \in Range(IndexClasses) : <<k.name>> = <<l.name>> => k = l
    <3>1. \A l : <<k.name>> = <<l.name>> => k.name = l.name
      OBVIOUS
    <3>. QED  BY <3>1, NamesApart
  <2>. QED  BY <2>1, <2>2 DEF Source
<1>2. CASE item # Item(<<k.name>>, d)
  <2>1. PICK f \in Range(FunctionsOf(k)) :
          f.name \notin ignored /\ item = Item(<<k.name, f.name>>, <<f>>)
    BY <1>2 DEF Entry
  <2>2. item.value = <<f>> /\ item.key = <<k.name, f.name>>
    BY <2>1 DEF Item
  <2>3. ~(Len(<<f>>) > 1) /\ <<f>>[1] = f /\ \A l : <<k.name, f.name>> # <<l>>
    OBVIOUS
  <2>4. f.kind = "function"
    <3>1. members[k.refid] \in Seq(Members)
      BY IndexFacts DEF Types
    <3>. QED  BY <3>1, InCategoryFacts DEF FunctionsOf
  <2>. QED  BY <2>1, <2>2, <2>3, <2>4 DEF Source
<1>. QED  BY <1>1, <1>2

\* The loop over the blocks.
LEMMA DocStepBlock ==
  ASSUME Types, BlocksFit, DocInv, ScrapeBlock, ~Raise("make function")  PROVE DocInv'
<1>1. PICK f, d :
        /\ f \in Range(IndexFunctions) /\ f.name = MakeName(Head(todo).name)
        /\ \A g \in Range(IndexFunctions) : g.name = f.name => g = f
        /\ Joined(d, Head(todo))
        /\ make_funcs' = make_funcs \cup {<<f.name>>}
        /\ \/ <<f.name>> \in make_funcs /\ output' = output
           \/ Updated(Items, output,
                      Entry(Head(todo), d, {}) \cup {Item(FunctionKey(f), d)}, output')
        /\ Goto(pc, Tail(todo))
        /\ UNCHANGED <<xmlVars, blocks, blocks2, exc, json, subVars>>
  BY BlockStep
<1>2. PICK b : b = Head(todo)
  OBVIOUS
<1>3. /\ pc = "blocks" /\ todo # <<>> /\ Scraping
      /\ UNCHANGED xmlVars /\ UNCHANGED <<blocks, blocks2, json>> /\ pc' = pc
      /\ Goto(pc, Tail(todo))
  BY <1>1 DEF ScrapeBlock, Scraping, Goto
<1>4. b \in Range(blocks) /\ b \in Range(IndexClasses) /\ b.refid \notin error
  BY <1>2, <1>3, TodoTail DEF Types, TodoTypes, BlockTypes, BlocksFit, Loops
<1>5. MakeFuncsDone
  BY DEF DocInv
<1>6. CASE <<f.name>> \in make_funcs /\ output' = output
  <2>1. PICK c \in Range(IndexClasses) :
          Done(c) /\ <<f.name>> \in {<<MakeName(c.name)>>, <<c.name, "make">>}
    BY <1>5, <1>6 DEF MakeFuncsDone
  <2>2. MakeName(c.name) = MakeName(b.name)
    <3>1. \A x, y, z : <<x>> # <<y, z>> /\ (<<x>> = <<y>> => x = y)
      OBVIOUS
    <3>. QED  BY <1>1, <1>2, <2>1, <3>1
  <2>3. c = b
    BY <1>4, <2>2, NamesApart
  <2>4. Updated(Items, output, {}, output')
    BY <1>6, NoUpdate
  <2>5. Done(b)'
    BY <1>3, <2>1, <2>3, <2>4, DoneAfter
  <2>6. make_funcs' = make_funcs
    BY <1>1, <1>6
  <2>. DEFINE items == {}
  <2>7. \A item \in items : Source(item) /\ JoinedName(item)'
    OBVIOUS
  <2>8. /\ make_funcs \subseteq make_funcs' /\ Updated(Items, output, items, output')
        /\ \A x \in make_funcs' : x \in make_funcs
    BY <2>4, <2>6
  <2>9. pc # "functions" /\ pc # "classes"
    BY <1>3
  <2>. HIDE DEF items
  <2>. QED  BY <1>2, <1>3, <2>5, <2>7, <2>8, <2>9, LoopStep
<1>7. CASE Updated(Items, output, Entry(b, d, {}) \cup {Item(FunctionKey(f), d)}, output')
  <2>. DEFINE items == Entry(b, d, {}) \cup {Item(FunctionKey(f), d)}
  <2>1. /\ Item(FunctionKey(f), d).key = FunctionKey(f)
        /\ Item(FunctionKey(f), d).value = d
        /\ d[1] = b
    BY <1>1, <1>2 DEF Item, Joined
  <2>2. /\ Entry(b, d, {}) \subseteq items /\ Item(FunctionKey(f), d) \in items
        /\ \A item \in items : item \in Entry(b, d, {}) \/ item = Item(FunctionKey(f), d)
        /\ Updated(Items, output, items, output')
    BY <1>7
  <2>. HIDE DEF items
  <2>3. Done(b)'
    <3>. DEFINE ignored == {}
    <3>1. /\ \A x \in ignored : \E item \in items : item.key = <<b.name, x>>
          /\ Entry(b, d, ignored) \subseteq items
      BY <2>2
    <3>. HIDE DEF ignored
    <3>. QED  BY <1>3, <2>2, <3>1, DoneAfter
  <2>4. Known(FunctionKey(f))'
    BY <2>1, <2>2, KnownAfter
  <2>5. ASSUME NEW item \in items
        PROVE  Source(item) /\ (Len(item.value) > 1 => JoinedName(item)')
    <3>1. b \in Range(blocks') /\ f \in Range(IndexFunctions') /\ <<f.name>> \in make_funcs'
      BY <1>1, <1>3, <1>4 DEF xmlVars, IndexFunctions
    <3>2. CASE item \in Entry(b, d, {})
      <4>1. /\ Source(item)
            /\ item.key = <<b.name>> \/ ~(Len(item.value) > 1)
        BY <1>4, <2>1, <3>2, EntrySources, Zenon
      <4>. QED  BY <3>1, <4>1, Zenon DEF JoinedName
    <3>3. CASE item = Item(FunctionKey(f), d)
      <4>1. ASSUME NEW k \in Range(IndexClasses)  PROVE FunctionKey(f) # <<k.name>>
        BY <1>1, KeyFacts, NamesApart
      <4>2. Source(item)
        BY <1>4, <2>1, <3>3, <4>1 DEF Source
      <4>. QED  BY <2>1, <3>1, <3>3, <4>2 DEF JoinedName
    <3>. QED  BY <2>2, <3>2, <3>3
  <2>6. ASSUME NEW n \in make_funcs', n \notin make_funcs
        PROVE  Done(b)' /\ n \in {<<MakeName(b.name)>>, <<b.name, "make">>}
    BY <1>1, <1>2, <2>3, <2>6
  <2>7. ASSUME NEW g \in Range(IndexFunctions), <<g.name>> \in make_funcs',
               <<g.name>> \notin make_funcs
        PROVE  Known(FunctionKey(g))'
    <3>1. <<g.name>> = <<f.name>>
      BY <1>1, <2>7
    <3>2. g.name = f.name
      BY <3>1
    <3>3. g = f
      BY <1>1, <3>2
    <3>. QED  BY <2>4, <3>3
  <2>8. make_funcs \subseteq make_funcs'
    BY <1>1
  <2>. QED  BY <1>2, <1>3, <1>4, <2>2, <2>3, <2>5, <2>6, <2>7, <2>8, LoopStep
<1>. QED  BY <1>1, <1>2, <1>6, <1>7

\* The second loop, over the blocks of the other style.
LEMMA DocStepBlock2 ==
  ASSUME Types, DocInv, ScrapeBlock2  PROVE DocInv'
<1>1. PICK d :
        /\ Joined(d, Head(todo))
        /\ \/ <<Head(todo).name, "make">> \in make_funcs /\ output' = output
           \/ Updated(Items, output,
                      Entry(Head(todo), d, {"make"}) \cup
                        {Item(<<Head(todo).name, "make">>, d)}, output')
  BY Block2Step
<1>2. PICK b : b = Head(todo)
  OBVIOUS
<1>. DEFINE name == <<b.name, "make">>
<1>3. /\ pc = "blocks2" /\ todo # <<>> /\ Scraping /\ Goto(pc, Tail(todo))
      /\ UNCHANGED xmlVars /\ UNCHANGED <<blocks, blocks2, json>> /\ pc' = pc
      /\ make_funcs' = make_funcs \cup {name}
  BY <1>2 DEF ScrapeBlock2, Scraping, Goto
<1>4. b \in Range(blocks2) /\ b \in Range(IndexClasses) /\ b.refid \notin error
  <2>1. b \in Range(blocks2) /\ b \in Range(IndexClasses)
    BY <1>2, Block2Step
  <2>. QED  BY <2>1 DEF Types, BlockTypes, IsBlock2
<1>5. MakeFuncsDone
  BY DEF DocInv
<1>6. CASE name \in make_funcs /\ output' = output
  <2>1. PICK c \in Range(IndexClasses) :
          Done(c) /\ name \in {<<MakeName(c.name)>>, <<c.name, "make">>}
    BY <1>5, <1>6 DEF MakeFuncsDone
  <2>2. c.name = b.name
    <3>1. \A x, y, z, u : <<y, z>> # <<x>> /\ (<<y, z>> = <<x, u>> => x = y)
      OBVIOUS
    <3>. QED  BY <2>1, <3>1
  <2>3. c = b
    BY <1>4, <2>2, NamesApart
  <2>4. Updated(Items, output, {}, output')
    BY <1>6, NoUpdate
  <2>5. Done(b)'
    BY <1>3, <2>1, <2>3, <2>4, DoneAfter
  <2>6. make_funcs' = make_funcs
    BY <1>3, <1>6
  <2>. QED  BY <1>2, <1>3, <2>4, <2>5, <2>6, LoopStep
<1>7. CASE Updated(Items, output, Entry(b, d, {"make"}) \cup {Item(name, d)}, output')
  <2>. DEFINE items == Entry(b, d, {"make"}) \cup {Item(name, d)}
  <2>1. Item(name, d).key = name /\ Item(name, d).value = d /\ d[1] = b
    BY <1>1, <1>2 DEF Item, Joined
  <2>2. /\ Entry(b, d, {"make"}) \subseteq items /\ Item(name, d) \in items
        /\ \A item \in items : item \in Entry(b, d, {"make"}) \/ item = Item(name, d)
        /\ Updated(Items, output, items, output')
    BY <1>7
  <2>. HIDE DEF items
  <2>3. Done(b)'
    <3>1. \A x \in {"make"} : \E item \in items : item.key = <<b.name, x>>
      BY <2>1, <2>2
    <3>. QED  BY <1>3, <2>2, <3>1, DoneAfter
  <2>4. ASSUME NEW item \in items
        PROVE  Source(item) /\ (Len(item.value) > 1 => JoinedName(item)')
    <3>1. b \in Range(blocks2') /\ pc' # "blocks"
      BY <1>3, <1>4
    <3>2. CASE item \in Entry(b, d, {"make"})
      <4>1. /\ Source(item)
            /\ item.key = <<b.name>> \/ ~(Len(item.value) > 1)
        BY <1>4, <2>1, <3>2, EntrySources, Zenon
      <4>. QED  BY <3>1, <4>1, Zenon DEF JoinedName
    <3>3. CASE item = Item(name, d)
      <4>1. \A k : name # <<k.name>>
        OBVIOUS
      <4>2. Source(item)
        BY <1>4, <2>1, <3>3, <4>1 DEF Source
      <4>. QED  BY <2>1, <3>1, <3>3, <4>2 DEF JoinedName
    <3>. QED  BY <2>2, <3>2, <3>3
  <2>5. ASSUME NEW n \in make_funcs', n \notin make_funcs
        PROVE  Done(b)' /\ n \in {<<MakeName(b.name)>>, <<b.name, "make">>}
    BY <1>3, <2>3, <2>5
  <2>6. ASSUME NEW g \in Range(IndexFunctions), <<g.name>> \in make_funcs'
        PROVE  <<g.name>> \in make_funcs
    <3>1. <<g.name>> # name
      OBVIOUS
    <3>. QED  BY <1>3, <2>6, <3>1
  <2>7. make_funcs \subseteq make_funcs'
    BY <1>3
  <2>. QED  BY <1>2, <1>3, <1>4, <2>2, <2>3, <2>4, <2>5, <2>6, <2>7, LoopStep
<1>. QED  BY <1>1, <1>2, <1>6, <1>7

\* The loop over the other functions.
LEMMA DocStepFunction ==
  ASSUME Types, DocInv, ScrapeFunction  PROVE DocInv'
<1>1. PICK f : f = Head(todo)
  OBVIOUS
<1>. DEFINE items == {Item(FunctionKey(f), <<f>>)}
<1>2. f \in Range(IndexFunctions) /\ Updated(Items, output, items, output')
  BY <1>1, FunctionStep
<1>3. /\ pc = "functions" /\ todo # <<>> /\ Scraping /\ Goto(pc, Tail(todo))
      /\ UNCHANGED xmlVars /\ UNCHANGED <<blocks, blocks2, json>>
      /\ make_funcs' = make_funcs
  BY DEF ScrapeFunction, Scraping
<1>4. ASSUME NEW item \in items
      PROVE  /\ item.key = FunctionKey(f) /\ ~(Len(item.value) > 1) /\ Source(item)
  <2>1. item.key = FunctionKey(f) /\ item.value = <<f>>
    BY DEF Item
  <2>2. <<f>>[1] = f /\ ~(Len(<<f>>) > 1)
    OBVIOUS
  <2>3. f.kind = "function"
    BY <1>2, IndexFacts DEF Types
  <2>4. ASSUME NEW k \in Range(IndexClasses)  PROVE FunctionKey(f) # <<k.name>>
    BY <1>2, KeyFacts, NamesApart
  <2>. QED  BY <2>1, <2>2, <2>3, <2>4 DEF Source
<1>5. items # {}
  OBVIOUS
<1>. HIDE DEF items
<1>6. Known(FunctionKey(f))'
  BY <1>2, <1>4, <1>5, KnownAfter
<1>7. \A item \in items : Source(item) /\ ~(Len(item.value) > 1)
  BY <1>4
<1>. QED  BY <1>1, <1>2, <1>3, <1>6, <1>7, LoopStep

\* The loop over the other classes.
LEMMA DocStepClass ==
  ASSUME Types, DocInv, ScrapeClass  PROVE DocInv'
<1>1. PICK k : k = Head(todo)
  OBVIOUS
<1>2. /\ k \in Range(IndexClasses)
      /\ \/ k.refid \in error /\ output' = output
         \/ k.refid \notin error /\ Updated(Items, output, Entry(k, <<k>>, {}), output')
  BY <1>1, ClassStep
<1>3. /\ pc = "classes" /\ todo # <<>> /\ Scraping /\ Goto(pc, Tail(todo))
      /\ UNCHANGED xmlVars /\ UNCHANGED <<blocks, blocks2, json>>
      /\ make_funcs' = make_funcs
  BY DEF ScrapeClass, Scraping
<1>4. CASE k.refid \in error /\ output' = output
  <2>1. Updated(Items, output, {}, output')
    BY <1>4, NoUpdate
  <2>. QED  BY <1>1, <1>3, <1>4, <2>1, LoopStep
<1>5. CASE k.refid \notin error /\ Updated(Items, output, Entry(k, <<k>>, {}), output')
  <2>1. Done(k)'
    BY <1>3, <1>5, DoneAfter
  <2>2. ASSUME NEW item \in Entry(k, <<k>>, {})
        PROVE  Source(item) /\ ~(Len(item.value) > 1)
    <3>1. <<k>>[1] = k /\ ~(Len(<<k>>) > 1)
      OBVIOUS
    <3>2. Source(item) /\ (item.value = <<k>> \/ ~(Len(item.value) > 1))
      BY <1>2, <1>5, <3>1, EntrySources
    <3>. QED  BY <3>1, <3>2
  <2>. QED  BY <1>1, <1>3, <1>5, <2>1, <2>2, LoopStep
<1>. QED  BY <1>2, <1>4, <1>5

\* Where nothing is in the dictionary, and no loop is at work.
LEMMA DocStepEmpty ==
  ASSUME output' = <<>>, make_funcs' = {}, ~json'.exists, AllParsed',
         pc' \notin {"blocks", "blocks2", "functions", "classes", "written", "sub"}
  PROVE  DocInv'
<1>1. Range(<<>>) = {}
  BY DEF Range
<1>. QED
  BY <1>1 DEF DocInv, NothingYet, Sources, MakeFuncsDone, LoopsDone, TodoIsOther,
     JsonIsOutput, JoinedNames, Scraping, Written

\* From one loop to the next, and what stops or follows the loops.
LEMMA DocStepKept ==
  ASSUME Types, DocInv, UNCHANGED xmlVars, UNCHANGED <<blocks, blocks2, make_funcs, output>>,
         pc \notin {"index", "find_blocks"}, pc' \notin {"index", "find_blocks", "blocks"},
         ~(Scraping \/ Written) => ~(Scraping' \/ Written'),
         LoopsDone', TodoIsOther', JsonIsOutput'
  PROVE  DocInv'
<1>0. AllParsed /\ Sources /\ MakeFuncsDone /\ JoinedNames
  BY DEF DocInv
<1>1. /\ IndexClasses' = IndexClasses /\ IndexFunctions' = IndexFunctions
      /\ \A k : FunctionsOf(k)' = FunctionsOf(k)
      /\ parsed' = parsed /\ error' = error
  BY DEF xmlVars, IndexClasses, IndexFunctions, FunctionsOf
<1>2. AllParsed' /\ NothingYet'
  BY <1>0, <1>1 DEF AllParsed, NothingYet
<1>3. Sources'
  BY <1>0, <1>1 DEF Sources, Source
<1>4. MakeFuncsDone'
  BY <1>0, <1>1 DEF MakeFuncsDone, Done, Known
<1>5. JoinedNames'
  <2>1. \A item : JoinedName(item) => JoinedName(item)'
    BY <1>1 DEF JoinedName
  <2>. QED  BY <1>0, <2>1 DEF JoinedNames
<1>. QED  BY <1>2, <1>3, <1>4, <1>5 DEF DocInv

\* Every step keeps what the loops have done,
LEMMA DocStep ==
  ASSUME Types, BlocksFit, DocInv, [Next]_vars  PROVE DocInv'
<1>0. /\ AllParsed /\ NothingYet /\ Sources /\ MakeFuncsDone
      /\ LoopsDone /\ TodoIsOther /\ JsonIsOutput /\ JoinedNames
  BY DEF DocInv
<1>1. CASE UNCHANGED vars
  <2>1. UNCHANGED xmlVars /\ UNCHANGED pydocVars
    BY <1>1 DEF vars
  <2>. QED
    BY <1>0, <2>1 DEF xmlVars, pydocVars, DocInv, AllParsed, NothingYet, Sources,
       Source, MakeFuncsDone, LoopsDone, TodoIsOther, JsonIsOutput, JoinedNames,
       JoinedName, Done, Known, IndexClasses, IndexFunctions, FunctionsOf,
       Scraping, Written
<1>2. CASE ScrapeIndex
  <2>1. /\ pc = "index" /\ output' = output /\ make_funcs' = make_funcs /\ json' = json
        /\ \/ pc' \in {"index", "ended"}
           \/ pc' = "find_blocks" /\ todo' = IndexClasses /\ IndexClasses' = IndexClasses
    BY <1>2 DEF ScrapeIndex, pydocVars, loopVars, Raise, Goto, xmlVars, IndexClasses
  <2>2. output = <<>> /\ make_funcs = {} /\ ~json.exists
    BY <1>0, <2>1 DEF NothingYet, JsonIsOutput, Written
  <2>3. AllParsed'
    BY <2>1 DEF AllParsed, Scraping, Written
  <2>. QED  BY <2>1, <2>2, <2>3, DocStepEmpty
<1>3. CASE FindBlock
  <2>1. /\ pc = "find_blocks" /\ output' = output /\ make_funcs' = make_funcs /\ json' = json
        /\ todo # <<>> /\ pc \in Loops
        /\ \/ pc' = "ended"
           \/ pc' = "find_blocks" /\ todo' = Tail(todo)
    BY <1>3 DEF FindBlock, Raise, Goto, loopVars, Loops
  <2>2. output = <<>> /\ make_funcs = {} /\ ~json.exists
    BY <1>0, <2>1 DEF NothingYet, JsonIsOutput, Written
  <2>3. AllParsed'
    <3>1. CASE pc' = "ended"
      BY <3>1 DEF AllParsed, Scraping, Written
    <3>2. CASE pc' = "find_blocks" /\ todo' = Tail(todo)
      <4>. DEFINE class == Head(todo)
      <4>1. /\ top' = top /\ parsed \subseteq parsed'
            /\ Raise("class file") \/ class.refid \in parsed'
        BY <1>3, FindStep
      <4>2. class.refid \in parsed'
        BY <3>2, <4>1 DEF Raise
      <4>3. IndexClasses' = IndexClasses
        BY <4>1 DEF IndexClasses
      <4>4. \A x \in Range(todo) : x = class \/ x \in Range(Tail(todo))
        BY <2>1, TodoTail
      <4>. HIDE DEF class
      <4>5. \A k \in Range(IndexClasses) : k.refid \in parsed' \/ k \in Range(Tail(todo))
        BY <1>0, <2>1, <4>1, <4>2, <4>4 DEF AllParsed
      <4>. QED  BY <3>2, <4>3, <4>5 DEF AllParsed, Scraping, Written
    <3>. QED  BY <2>1, <3>1, <3>2
  <2>. QED  BY <2>1, <2>2, <2>3, DocStepEmpty
<1>4. CASE BlocksFound
  <2>1. /\ pc = "find_blocks" /\ todo = <<>> /\ pc' = "blocks" /\ todo' = blocks
        /\ UNCHANGED xmlVars /\ blocks' = blocks
        /\ output' = output /\ make_funcs' = make_funcs /\ json' = json
    BY <1>4 DEF BlocksFound, Goto
  <2>2. output = <<>> /\ make_funcs = {} /\ ~json.exists /\ Range(<<>>) = {}
    BY <1>0, <2>1 DEF NothingYet, JsonIsOutput, Written, Range
  <2>3. AllParsed'
    <3>1. IndexClasses' = IndexClasses /\ parsed' = parsed
      BY <2>1 DEF xmlVars, IndexClasses
    <3>2. \A k \in Range(IndexClasses) : k.refid \in parsed
      BY <1>0, <2>1, <2>2 DEF AllParsed
    <3>. QED  BY <2>1, <3>1, <3>2 DEF AllParsed
  <2>4. /\ NothingYet' /\ Sources' /\ MakeFuncsDone' /\ LoopsDone' /\ TodoIsOther'
        /\ JsonIsOutput' /\ JoinedNames'
    BY <2>1, <2>2 DEF NothingYet, Sources, MakeFuncsDone, LoopsDone, TodoIsOther,
       JsonIsOutput, JoinedNames, Scraping, Written
  <2>. QED  BY <2>3, <2>4 DEF DocInv
<1>5. CASE ScrapeBlock
  <2>1. CASE Raise("make function")
    <3>1. /\ UNCHANGED xmlVars /\ UNCHANGED <<blocks, blocks2, make_funcs, output>>
          /\ pc' = "ended" /\ pc = "blocks" /\ json' = json
      BY <1>5, <2>1 DEF Raise, loopVars, ScrapeBlock
    <3>2. LoopsDone' /\ TodoIsOther' /\ JsonIsOutput' /\ ~(Scraping' \/ Written')
      BY <1>0, <3>1 DEF LoopsDone, TodoIsOther, JsonIsOutput, Scraping, Written
    <3>. QED  BY <3>1, <3>2, DocStepKept
  <2>2. CASE ~Raise("make function")
    BY <1>5, <2>2, DocStepBlock
  <2>. QED  BY <2>1, <2>2
<1>6. CASE ScrapeBlock2
  BY <1>6, DocStepBlock2
<1>7. CASE ScrapeFunction
  BY <1>7, DocStepFunction
<1>8. CASE ScrapeClass
  BY <1>8, DocStepClass
<1>9. CASE NextLoop
  <2>1. /\ UNCHANGED xmlVars /\ UNCHANGED <<blocks, blocks2, make_funcs, output>>
        /\ todo = <<>>
        /\ \/ pc = "blocks" /\ pc' = "blocks2" /\ todo' = blocks2 /\ json' = json
           \/ pc = "blocks2" /\ pc' = "functions" /\ todo' = OtherFunctions /\ json' = json
           \/ pc = "functions" /\ pc' = "classes" /\ todo' = OtherClasses /\ json' = json
           \/ pc = "classes" /\ pc' = "written" /\ json' = [exists |-> TRUE, items |-> output]
    BY <1>9 DEF NextLoop, Goto, loopVars
  <2>2. /\ IndexClasses' = IndexClasses /\ IndexFunctions' = IndexFunctions
        /\ error' = error
        /\ \A k : Done(k)' <=> Done(k)
        /\ \A key : Known(key)' <=> Known(key)
    BY <2>1 DEF xmlVars, IndexClasses, IndexFunctions, FunctionsOf, Done, Known
  <2>3. Range(todo) = {}
    BY <2>1 DEF Range
  <2>4. /\ \A f : f \in Range(OtherFunctions) <=>
             f \in Range(IndexFunctions) /\ <<f.name>> \notin make_funcs /\ ~IsStd(f.name)
        /\ \A k : k \in Range(OtherClasses) <=>
             /\ k \in Range(IndexClasses) /\ ~IsStd(k.name)
             /\ k.name \notin {b.name : b \in Range(blocks \o blocks2)}
    BY OtherLists DEF Types
  <2>5. \A b : b \in Range(blocks \o blocks2) <=> b \in Range(blocks) \cup Range(blocks2)
    <3>1. blocks \in Seq(Objects) /\ blocks2 \in Seq(Objects)
      BY DEF Types, BlockTypes
    <3>. QED  BY <3>1, RangeOfConcat
  <2>6. LoopsDone'
    <3>1. \A b \in Range(blocks) : Done(b)
      BY <1>0, <2>1, <2>3 DEF LoopsDone, Scraping
    <3>2. pc # "blocks" => \A b \in Range(blocks2) : Done(b)
      BY <1>0, <2>1, <2>3 DEF LoopsDone, Scraping
    <3>3. CASE pc = "blocks"
      <4>1. pc' = "blocks2" /\ todo' = blocks2 /\ blocks2' = blocks2 /\ blocks' = blocks
        BY <2>1, <3>3
      <4>. QED  BY <2>2, <3>1, <4>1 DEF LoopsDone, Scraping, Written
    <3>4. CASE pc = "blocks2"
      <4>1. ASSUME NEW f \in Range(IndexFunctions), ~IsStd(f.name)
            PROVE  Known(FunctionKey(f)) \/ f \in Range(OtherFunctions)
        BY <1>0, <2>4, <4>1 DEF MakeFuncsDone
      <4>2. pc' = "functions" /\ todo' = OtherFunctions /\ blocks2' = blocks2 /\ blocks' = blocks
        BY <2>1, <3>4
      <4>. QED  BY <2>2, <3>1, <3>2, <3>4, <4>1, <4>2 DEF LoopsDone, Scraping, Written
    <3>5. CASE pc = "functions"
      <4>1. ASSUME NEW k \in Range(IndexClasses), ~IsStd(k.name), k.refid \notin error
            PROVE  Done(k) \/ k \in Range(OtherClasses)
        <5>1. CASE k.name \in {b.name : b \in Range(blocks \o blocks2)}
          <6>1. PICK b \in Range(blocks) \cup Range(blocks2) : k.name = b.name
            BY <2>5, <5>1
          <6>2. b \in Range(IndexClasses)
            BY DEF Types, BlockTypes
          <6>3. b = k
            BY <6>1, <6>2, NamesApart
          <6>. QED  BY <3>1, <3>2, <3>5, <6>3
        <5>. QED  BY <2>4, <4>1, <5>1
      <4>2. \A f \in Range(IndexFunctions) : ~IsStd(f.name) => Known(FunctionKey(f))
        BY <1>0, <2>3, <3>5 DEF LoopsDone
      <4>3. pc' = "classes" /\ todo' = OtherClasses /\ blocks2' = blocks2 /\ blocks' = blocks
        BY <2>1, <3>5
      <4>. QED  BY <2>2, <3>1, <3>2, <3>5, <4>1, <4>2, <4>3 DEF LoopsDone, Scraping, Written
    <3>6. CASE pc = "classes"
      <4>1. /\ \A f \in Range(IndexFunctions) : ~IsStd(f.name) => Known(FunctionKey(f))
            /\ \A k \in Range(IndexClasses) : ~IsStd(k.name) /\ k.refid \notin error => Done(k)
        BY <1>0, <2>3, <3>6 DEF LoopsDone
      <4>2. pc' = "written"
        BY <2>1, <3>6
      <4>. QED  BY <2>2, <4>1, <4>2 DEF LoopsDone, Scraping, Written
    <3>. QED  BY <2>1, <3>3, <3>4, <3>5, <3>6
  <2>7. TodoIsOther'
    <3>1. \A f \in Range(OtherFunctions) : <<f.name>> \notin make_funcs
      BY <2>4
    <3>2. \A k \in Range(OtherClasses) : \A b \in Range(blocks) \cup Range(blocks2) :
            k.name # b.name
      BY <2>4, <2>5
    <3>. QED  BY <2>1, <3>1, <3>2 DEF TodoIsOther
  <2>8. JsonIsOutput'
    BY <1>0, <2>1 DEF JsonIsOutput, Written
  <2>9. Scraping
    BY <2>1 DEF Scraping
  <2>10. pc \notin {"index", "find_blocks"} /\ pc' \notin {"index", "find_blocks", "blocks"}
    BY <2>1
  <2>. QED  BY <2>1, <2>6, <2>7, <2>8, <2>9, <2>10, DocStepKept
<1>10. CASE SubStarts \/ Substitute
  <2>1. /\ UNCHANGED xmlVars /\ UNCHANGED <<blocks, blocks2, make_funcs, output, json>>
        /\ pc \in {"written", "sub"} /\ pc' = "sub"
    BY <1>10 DEF SubStarts, Substitute, Goto, loopVars
  <2>2. /\ IndexClasses' = IndexClasses /\ IndexFunctions' = IndexFunctions
        /\ error' = error
        /\ \A k : Done(k)' <=> Done(k)
        /\ \A key : Known(key)' <=> Known(key)
    BY <2>1 DEF xmlVars, IndexClasses, IndexFunctions, FunctionsOf, Done, Known
  <2>3. LoopsDone'
    BY <1>0, <2>1, <2>2 DEF LoopsDone, Scraping, Written
  <2>4. TodoIsOther' /\ JsonIsOutput' /\ Written
    BY <1>0, <2>1 DEF TodoIsOther, JsonIsOutput, Written
  <2>. QED  BY <2>1, <2>3, <2>4, DocStepKept
<1>. QED  BY <1>1, <1>2, <1>3, <1>4, <1>5, <1>6, <1>7, <1>8, <1>9, <1>10 DEF Next

\* so that it holds always.
LEMMA DocInvHolds == Spec => [](Types /\ StopInv /\ DocInv)
<1>1. Init => Types /\ StopInv /\ DocInv
  <2>. SUFFICES ASSUME Init  PROVE Types /\ StopInv /\ DocInv
    OBVIOUS
  <2>1. /\ pc = "index" /\ output = <<>> /\ make_funcs = {} /\ json.exists = FALSE
        /\ exc = "none" /\ blocks = <<>> /\ Range(<<>>) = {}
    BY DEF Init, NoFile, Range
  <2>2. StopInv
    BY <2>1 DEF StopInv, BlocksFit, StopsForAReason
  <2>3. DocInv
    BY <2>1 DEF DocInv, AllParsed, NothingYet, Sources, MakeFuncsDone, LoopsDone,
       TodoIsOther, JsonIsOutput, JoinedNames, Scraping, Written
  <2>. QED  BY <2>2, <2>3, TypesInit
<1>2. Types /\ StopInv /\ DocInv /\ [Next]_vars => (Types /\ StopInv /\ DocInv)'
  BY TypesStep, StopStep, DocStep DEF StopInv
<1>. QED  BY <1>1, <1>2, PTL DEF Spec

\* What is in the JSON file: every class and function that can be documented,
\* and no class that cannot. It is the dictionary as the loops left it, each
\* having done what was on its list.
THEOREM ScrapeDocuments == Spec => []DocumentedWhenWritten
<1>1. Types /\ StopInv /\ DocInv => DocumentedWhenWritten
  <2>. SUFFICES ASSUME Types, DocInv, json.exists  PROVE DocumentedWhenWritten
    BY DEF DocumentedWhenWritten
  <2>1. /\ AllParsed /\ Sources /\ LoopsDone
        /\ json.items = output /\ Written
    BY DEF DocInv, JsonIsOutput
  <2>2. pc # "classes" /\ pc # "functions"
    BY <2>1 DEF Written
  <2>3. ASSUME NEW k \in Range(IndexClasses)
        PROVE  /\ k.kind = "class"
               /\ k.refid \in error <=> files[k.refid].state = "malformed"
    <3>1. k.kind = "class" /\ XmlTypes
      BY IndexFacts DEF Types
    <3>2. k.refid \in parsed
      BY <2>1 DEF AllParsed
    <3>. QED  BY <3>1, <3>2 DEF XmlTypes
  <2>4. ASSUME NEW k \in Range(IndexClasses), k.refid \in error, NEW item \in Range(output)
        PROVE  item.value[1] # k
    <3>1. Source(item)
      BY <2>1 DEF Sources
    <3>. QED  BY <2>3, <2>4, <3>1 DEF Source
  <2>5. ASSUME NEW k \in Range(IndexClasses), ~IsStd(k.name), k.refid \notin error
        PROVE  /\ \E item \in Range(output) : item.key = <<k.name>> /\ item.value[1] = k
               /\ \A f \in Range(FunctionsOf(k)) :
                    \E item \in Range(output) : item.key = <<k.name, f.name>>
    <3>1. Done(k)
      BY <2>1, <2>2, <2>5 DEF LoopsDone
    <3>2. PICK item \in Range(output) : item.key = <<k.name>>
      BY <3>1 DEF Done, Known
    <3>3. item.value[1] = k
      BY <2>1, <3>2 DEF Sources, Source
    <3>. QED  BY <3>1, <3>2, <3>3 DEF Done, Known
  <2>6. ASSUME NEW f \in Range(IndexFunctions), ~IsStd(f.name)
        PROVE  \E item \in Range(output) : item.key = FunctionKey(f)
    BY <2>1, <2>2, <2>6 DEF LoopsDone, Known
  <2>. QED  BY <2>1, <2>3, <2>4, <2>5, <2>6 DEF DocumentedWhenWritten, Documents, FunctionsOf
<1>. QED  BY <1>1, DocInvHolds, PTL

-----------------------------------------------------------------------------
(* Docstrings of blocks.                                                   *)

\* The keys of classes, methods and functions of the index are different.
LEMMA KeysApart ==
  ASSUME Types, NEW f \in Range(IndexFunctions), NEW k \in Range(IndexClasses)
  PROVE  FunctionKey(f) # <<k.name>> /\ \A name : FunctionKey(f) # <<k.name, name>>
BY KeyFacts, NamesApart

\* An update keeps the joined docstrings if it has no plain one for a name
\* that joined ones go by.
LEMMA UpdateKeepsJoined ==
  ASSUME JoinedNames, NEW items, Updated(Items, output, items, output'),
         \A item \in items : Len(item.value) > 1 \/ ~JoinedName(item),
         NEW k \in DOMAIN output, Len(output[k].value) > 1
  PROVE  Len(output'[k].value) > 1
<1>1. /\ output'[k].key = output[k].key
      /\ output'[k] = output[k] \/ output'[k] \in items
  BY DEF Updated
<1>2. JoinedName(output[k])
  BY DEF JoinedNames, Range
<1>3. JoinedName(output'[k])
  BY <1>1, <1>2 DEF JoinedName
<1>4. CASE output'[k] = output[k]
  BY <1>4
<1>5. CASE output'[k] \in items
  BY <1>3, <1>5
<1>. QED  BY <1>1, <1>4, <1>5

\* Joined docstrings stay in the loop over the blocks: methods do not go by
\* their names.
LEMMA JoinedInBlocks ==
  ASSUME Types, BlocksFit, DocInv, ScrapeBlock,
         NEW k \in DOMAIN output, Len(output[k].value) > 1
  PROVE  Len(output'[k].value) > 1
<1>1. CASE Raise("make function")
  <2>1. output' = output
    BY <1>1 DEF Raise, loopVars
  <2>. QED  BY <2>1
<1>2. ASSUME NEW f \in Range(IndexFunctions), NEW d, Joined(d, Head(todo)),
             Updated(Items, output, Entry(Head(todo), d, {}) \cup {Item(FunctionKey(f), d)},
                     output')
      PROVE  Len(output'[k].value) > 1
  <2>1. PICK b : b = Head(todo)
    OBVIOUS
  <2>2. b \in Range(IndexClasses) /\ b.refid \notin error /\ pc = "blocks"
    BY <2>1, TodoTail DEF ScrapeBlock, Types, TodoTypes, BlockTypes, BlocksFit, Loops
  <2>3. d[1] = b /\ Len(d) > 1
    BY <1>2, <2>1 DEF Joined
  <2>. DEFINE items == Entry(b, d, {}) \cup {Item(FunctionKey(f), d)}
  <2>4. ASSUME NEW item \in items, ~(Len(item.value) > 1)  PROVE ~JoinedName(item)
    <3>1. Item(FunctionKey(f), d).value = d
      BY DEF Item
    <3>2. item \in Entry(b, d, {})
      BY <2>3, <2>4, <3>1
    <3>. DEFINE ignored == {}
    <3>3. PICK name : item.key = <<b.name, name>>
      <4>1. b \in Range(IndexClasses) /\ item \in Entry(b, d, ignored)
        BY <2>2, <3>2
      <4>. HIDE DEF ignored
      <4>2. \/ item.value = d
            \/ \E name : item.key = <<b.name, name>>
        BY <2>2, <2>3, <4>1, EntrySources
      <4>. QED  BY <2>3, <2>4, <4>2
    <3>4. \A x, y, z : <<x, y>> # <<z>>
      OBVIOUS
    <3>. QED  BY <2>2, <3>3, <3>4, KeysApart DEF JoinedName
  <2>5. Updated(Items, output, items, output')
    BY <1>2, <2>1
  <2>. HIDE DEF items
  <2>. QED  BY <2>4, <2>5, UpdateKeepsJoined DEF DocInv
<1>. QED  BY <1>1, <1>2, BlockStep

\* And in the loop over the blocks of the other style.
LEMMA JoinedInBlocks2 ==
  ASSUME Types, DocInv, ScrapeBlock2, NEW k \in DOMAIN output, Len(output[k].value) > 1
  PROVE  Len(output'[k].value) > 1
<1>1. PICK b : b = Head(todo)
  OBVIOUS
<1>2. PICK d :
        /\ Joined(d, b)
        /\ \/ output' = output
           \/ Updated(Items, output,
                      Entry(b, d, {"make"}) \cup {Item(<<b.name, "make">>, d)}, output')
  BY <1>1, Block2Step
<1>3. b \in Range(IndexClasses) /\ b.refid \notin error
  BY <1>1, Block2Step DEF Types, BlockTypes, IsBlock2
<1>4. CASE Updated(Items, output,
                   Entry(b, d, {"make"}) \cup {Item(<<b.name, "make">>, d)}, output')
  <2>. DEFINE items == Entry(b, d, {"make"}) \cup {Item(<<b.name, "make">>, d)}
  <2>1. d[1] = b /\ Len(d) > 1
    BY <1>2 DEF Joined
  <2>2. ASSUME NEW item \in items, ~(Len(item.value) > 1)  PROVE ~JoinedName(item)
    <3>1. Item(<<b.name, "make">>, d).value = d
      BY DEF Item
    <3>2. item \in Entry(b, d, {"make"})
      BY <2>1, <2>2, <3>1
    <3>. DEFINE ignored == {"make"}
    <3>3. PICK name : name \notin {"make"} /\ item.key = <<b.name, name>>
      <4>1. item \in Entry(b, d, ignored)
        BY <3>2
      <4>. HIDE DEF ignored
      <4>2. \/ item.value = d
            \/ \E name : name \notin ignored /\ item.key = <<b.name, name>>
        BY <1>3, <2>1, <4>1, EntrySources
      <4>. QED  BY <2>1, <2>2, <4>2 DEF ignored
    <3>4. \A x, y, z, u : <<x, y>> # <<z>> /\ (<<x, y>> = <<z, u>> => y = u)
      OBVIOUS
    <3>. QED  BY <1>3, <3>3, <3>4, KeysApart DEF JoinedName
  <2>3. Updated(Items, output, items, output')
    BY <1>4
  <2>. HIDE DEF items
  <2>. QED  BY <2>2, <2>3, UpdateKeepsJoined DEF DocInv
<1>. QED  BY <1>2, <1>4

\* And in the loop over functions: those that blocks have dealt with are not
\* among them.
LEMMA JoinedInFunctions ==
  ASSUME Types, DocInv, ScrapeFunction, NEW k \in DOMAIN output, Len(output[k].value) > 1
  PROVE  Len(output'[k].value) > 1
<1>1. PICK f : f = Head(todo)
  OBVIOUS
<1>. DEFINE items == {Item(FunctionKey(f), <<f>>)}
<1>2. f \in Range(IndexFunctions) /\ Updated(Items, output, items, output')
  BY <1>1, FunctionStep
<1>3. <<f.name>> \notin make_funcs
  <2>1. pc = "functions" /\ todo # <<>> /\ pc \in Loops
    BY DEF ScrapeFunction, Loops
  <2>. QED  BY <1>1, <2>1, TodoTail DEF DocInv, TodoIsOther
<1>4. ASSUME NEW item \in items  PROVE ~JoinedName(item)
  <2>1. item.key = FunctionKey(f)
    BY DEF Item
  <2>2. ASSUME NEW b \in Range(blocks) \cup Range(blocks2)
        PROVE  FunctionKey(f) # <<b.name>> /\ FunctionKey(f) # <<b.name, "make">>
    <3>1. b \in Range(IndexClasses)
      BY DEF Types, BlockTypes
    <3>. QED  BY <1>2, <3>1, KeysApart
  <2>3. ASSUME NEW g \in Range(IndexFunctions), FunctionKey(f) = FunctionKey(g)
        PROVE  <<g.name>> \notin make_funcs
    <3>1. f.name = g.name
      BY <2>3, KeyFacts
    <3>. QED  BY <1>3, <3>1
  <2>. QED  BY <2>1, <2>2, <2>3 DEF JoinedName
<1>. HIDE DEF items
<1>. QED  BY <1>2, <1>4, UpdateKeepsJoined DEF DocInv

\* And in the loop over classes, likewise.
LEMMA JoinedInClasses ==
  ASSUME Types, DocInv, ScrapeClass, NEW k \in DOMAIN output, Len(output[k].value) > 1
  PROVE  Len(output'[k].value) > 1
<1>1. PICK c : c = Head(todo)
  OBVIOUS
<1>2. /\ c \in Range(IndexClasses)
      /\ \/ output' = output
         \/ c.refid \notin error /\ Updated(Items, output, Entry(c, <<c>>, {}), output')
  BY <1>1, ClassStep
<1>3. \A b \in Range(blocks) \cup Range(blocks2) : c.name # b.name
  <2>1. pc = "classes" /\ todo # <<>> /\ pc \in Loops
    BY DEF ScrapeClass, Loops
  <2>. QED  BY <1>1, <2>1, TodoTail DEF DocInv, TodoIsOther
<1>4. CASE c.refid \notin error /\ Updated(Items, output, Entry(c, <<c>>, {}), output')
  <2>1. ASSUME NEW item \in Entry(c, <<c>>, {})  PROVE ~JoinedName(item)
    <3>1. <<c>>[1] = c
      OBVIOUS
    <3>. DEFINE ignored == {}
    <3>2. item.key = <<c.name>> \/ \E name : item.key = <<c.name, name>>
      <4>1. item \in Entry(c, <<c>>, ignored)
        BY <2>1
      <4>. HIDE DEF ignored
      <4>. QED  BY <1>2, <1>4, <3>1, <4>1, EntrySources
    <3>3. \A x, y, z, u : /\ <<x, y>> # <<z>> /\ (<<x, y>> = <<z, u>> => x = z)
                          /\ (<<x>> = <<z>> => x = z)
      OBVIOUS
    <3>4. ASSUME NEW b \in Range(blocks) \cup Range(blocks2)
          PROVE  item.key # <<b.name>> /\ item.key # <<b.name, "make">>
      BY <1>3, <3>2, <3>3
    <3>5. ASSUME NEW g \in Range(IndexFunctions)  PROVE item.key # FunctionKey(g)
      BY <1>2, <3>2, KeysApart
    <3>. QED  BY <3>4, <3>5 DEF JoinedName
  <2>. QED  BY <1>4, <2>1, UpdateKeepsJoined DEF DocInv
<1>. QED  BY <1>2, <1>4

\* What a block was given is not written to twice: no loop that follows has
\* an item for its names.
THEOREM JoinedDocsSurvive == Spec => BlockDocsSurvive
<1>. DEFINE Kept == \A k \in DOMAIN output :
                      Len(output[k].value) > 1 => Len(output'[k].value) > 1
<1>1. Types /\ StopInv /\ DocInv /\ [Next]_vars => Kept
  <2>. SUFFICES ASSUME Types, BlocksFit, DocInv, [Next]_vars,
                       NEW k \in DOMAIN output, Len(output[k].value) > 1
                PROVE  Len(output'[k].value) > 1
    BY DEF StopInv
  <2>1. CASE output' = output
    BY <2>1
  <2>2. CASE ScrapeBlock
    BY <2>2, JoinedInBlocks
  <2>3. CASE ScrapeBlock2
    BY <2>3, JoinedInBlocks2
  <2>4. CASE ScrapeFunction
    BY <2>4, JoinedInFunctions
  <2>5. CASE ScrapeClass
    BY <2>5, JoinedInClasses
  <2>6. UNCHANGED vars \/ ScrapeIndex \/ FindBlock \/ BlocksFound \/ NextLoop
          \/ SubStarts \/ Substitute => output' = output
    <3>1. UNCHANGED vars => output' = output
      BY DEF vars, pydocVars
    <3>2. ScrapeIndex => output' = output
      BY DEF ScrapeIndex, pydocVars, Raise, loopVars
    <3>3. FindBlock \/ BlocksFound => output' = output
      BY DEF FindBlock, BlocksFound, Raise, loopVars
    <3>4. NextLoop \/ SubStarts \/ Substitute => output' = output
      BY DEF NextLoop, SubStarts, Substitute, loopVars
    <3>. QED  BY <3>1, <3>2, <3>3, <3>4
  <2>. QED  BY <2>1, <2>2, <2>3, <2>4, <2>5, <2>6 DEF Next
<1>2. Spec => [][Kept]_vars
  <2>. HIDE DEF Kept
  <2>. QED  BY <1>1, DocInvHolds, PTL DEF Spec
<1>. QED  BY <1>2 DEF BlockDocsSurvive

-----------------------------------------------------------------------------
(* The templates.                                                          *)

\* Every item is on the list of sub for every template.
LEMMA SubStarting ==
  ASSUME Types, SubInv, SubStarts  PROVE SubInv'
<1>. DEFINE T == [file : DOMAIN Templates, item : Range(json.items)]
            Work(t) == [k \in DOMAIN json.items |->
                          [file |-> t, item |-> json.items[k]]]
            seqs == [t \in DOMAIN Templates |-> Work(t)]
<1>1. /\ pc = "written" /\ pc' = "sub" /\ todo' = FlattenSeq(seqs)
      /\ json' = json /\ text' = text /\ odd' = odd
  BY DEF SubStarts, Goto, subVars
<1>2. DOMAIN Templates = 1 .. Len(Templates) /\ Len(Templates) \in Nat
  BY TemplatesAssumption
<1>3. DOMAIN json.items = 1 .. Len(json.items) /\ Len(json.items) \in Nat
  BY DEF Types, OutputTypes
<1>4. ASSUME NEW t \in DOMAIN Templates
      PROVE  /\ Work(t) \in Seq(T)
             /\ \A item \in Range(json.items) :
                  [file |-> t, item |-> item] \in Range(Work(t))
  <2>1. \A k \in 1 .. Len(json.items) : [file |-> t, item |-> json.items[k]] \in T
    BY <1>3 DEF Range
  <2>2. Work(t) \in Seq(T)
    <3>. HIDE DEF T
    <3>. QED  BY <1>3, <2>1
  <2>3. ASSUME NEW item \in Range(json.items)
        PROVE  [file |-> t, item |-> item] \in Range(Work(t))
    BY DEF Range
  <2>. QED  BY <2>2, <2>3
<1>5. seqs \in Seq(Seq(T)) /\ DOMAIN seqs = DOMAIN Templates
  <2>. HIDE DEF Work, T
  <2>. QED  BY <1>2, <1>4
<1>6. /\ FlattenSeq(seqs) \in Seq(T)
      /\ \A x : x \in Range(FlattenSeq(seqs)) <=>
                 \E t \in DOMAIN seqs : x \in Range(seqs[t])
  <2>. HIDE DEF seqs, T
  <2>. QED  BY <1>5, FlattenRange
<1>7. ASSUME NEW t \in DOMAIN Templates, NEW item \in Range(json.items)
      PROVE  [file |-> t, item |-> item] \in Range(todo')
  <2>1. seqs[t] = Work(t)
    BY <1>7
  <2>2. [file |-> t, item |-> item] \in Range(Work(t))
    BY <1>4
  <2>. HIDE DEF seqs, Work
  <2>. QED  BY <1>1, <1>5, <1>6, <2>1, <2>2
<1>8. todo' \in Seq([file : DOMAIN Templates, item : Range(json'.items)])
  <2>. HIDE DEF seqs
  <2>. QED  BY <1>1, <1>6
<1>9. text' = [t \in DOMAIN Templates |-> [k \in DOMAIN Templates[t] |-> <<>>]]
  BY <1>1 DEF SubInv
<1>10. TextShape'
  BY <1>9 DEF TextShape
<1>11. FilledSoFar'
  <2>1. \A t \in DOMAIN Templates : \A k \in DOMAIN Templates[t] : text'[t][k] = <<>>
    BY <1>9
  <2>2. \A t \in DOMAIN Templates : \A k \in DOMAIN Templates[t] :
          Own(t, k)' \subseteq Range(json.items)
    BY <1>1 DEF Own
  <2>. QED  BY <1>7, <2>1, <2>2 DEF FilledSoFar
<1>. QED  BY <1>1, <1>8, <1>10, <1>11 DEF SubInv

\* A substitution fills the one variable of the name, unless it is filled.
LEMMA Substituting ==
  ASSUME SubInv, Substitute  PROVE SubInv'
<1>. DEFINE T == [file : DOMAIN Templates, item : Range(json.items)]
            matches(t, item) == {k \in DOMAIN Templates[t] :
                                  /\ Templates[t][k] = DocKey(item.key)
                                  /\ ~Has(text[t][k], odd.paren)}
<1>1. /\ pc = "sub" /\ pc' = "sub" /\ todo # <<>> /\ todo' = Tail(todo)
      /\ json' = json /\ odd' = odd
  BY DEF Substitute, Goto
<1>2. todo \in Seq(T) /\ TextShape /\ FilledSoFar
  BY <1>1 DEF SubInv
<1>3. /\ Head(todo) \in T /\ Tail(todo) \in Seq(T)
      /\ \A x \in Range(todo) : x = Head(todo) \/ x \in Range(Tail(todo))
  <2>. HIDE DEF T
  <2>. QED  BY <1>1, <1>2, HeadAndTail
<1>4. PICK t, item : t = Head(todo).file /\ item = Head(todo).item
  OBVIOUS
<1>5. t \in DOMAIN Templates /\ item \in Range(json.items)
      /\ Head(todo) = [file |-> t, item |-> item]
  BY <1>3, <1>4
<1>6. \/ Starts(item.value, odd.digit) /\ text' = text
      \/ ~Starts(item.value, odd.digit) /\ matches(t, item) = {} /\ text' = text
      \/ /\ ~Starts(item.value, odd.digit) /\ matches(t, item) # {}
         /\ text' = [text EXCEPT ![t][Min(matches(t, item))] = item.value]
  BY <1>4 DEF Substitute
<1>7. \A u, k : Own(u, k)' = Own(u, k)
  BY <1>1 DEF Own
<1>8. ASSUME NEW k \in matches(t, item)
      PROVE  matches(t, item) = {k} /\ Min(matches(t, item)) = k
  <2>1. DOMAIN Templates[t] = 1 .. Len(Templates[t])
    BY <1>5, TemplatesAssumption
  <2>2. \A j \in matches(t, item) : j = k
    BY <1>5, TemplatesAssumption
  <2>3. k \in Int /\ k <= k
    BY <2>1
  <2>. HIDE DEF matches
  <2>4. matches(t, item) = {k}
    BY <2>2
  <2>. QED  BY <2>3, <2>4 DEF Min
<1>9. ASSUME NEW k \in DOMAIN Templates[t], item \in Own(t, k), text[t][k] = <<>>
      PROVE  k \in matches(t, item)
  BY <1>9 DEF Own, Has
<1>10. ASSUME NEW u \in DOMAIN Templates, NEW k \in DOMAIN Templates[u]
       PROVE  \/ text'[u][k] = text[u][k] /\ ~(u = t /\ k \in matches(t, item) /\
                                              ~Starts(item.value, odd.digit))
              \/ u = t /\ text'[u][k] = item.value /\ item \in Own(u, k)
  <2>1. CASE u = t /\ k \in matches(t, item) /\ ~Starts(item.value, odd.digit)
    <3>1. text' = [text EXCEPT ![t][k] = item.value]
      BY <1>6, <1>8, <2>1
    <3>2. text'[t][k] = item.value
      BY <1>2, <1>5, <2>1, <3>1 DEF TextShape
    <3>3. item \in Own(t, k)
      BY <1>5, <2>1 DEF Own
    <3>. QED  BY <2>1, <3>2, <3>3
  <2>2. CASE ~(u = t /\ k \in matches(t, item) /\ ~Starts(item.value, odd.digit))
    <3>1. CASE text' = text
      BY <2>2, <3>1
    <3>2. CASE /\ ~Starts(item.value, odd.digit) /\ matches(t, item) # {}
               /\ text' = [text EXCEPT ![t][Min(matches(t, item))] = item.value]
      <4>1. PICK j \in matches(t, item) : text' = [text EXCEPT ![t][j] = item.value]
        BY <1>8, <3>2
      <4>2. u # t \/ k # j
        BY <2>2, <3>2, <4>1
      <4>3. text'[u][k] = text[u][k]
        BY <1>2, <1>5, <4>1, <4>2 DEF TextShape
      <4>. QED  BY <2>2, <4>3
    <3>. QED  BY <1>6, <3>1, <3>2
  <2>. QED  BY <2>1, <2>2
<1>11. TextShape'
  <2>1. \A u \in DOMAIN text : \A j, v : DOMAIN [text EXCEPT ![t][j] = v][u] = DOMAIN text[u]
    BY <1>2, <1>5 DEF TextShape
  <2>2. DOMAIN text' = DOMAIN text /\ \A u \in DOMAIN text : DOMAIN text'[u] = DOMAIN text[u]
    <3>1. CASE text' = text
      BY <3>1
    <3>2. CASE text' = [text EXCEPT ![t][Min(matches(t, item))] = item.value]
      BY <2>1, <3>2
    <3>. QED  BY <1>6, <3>1, <3>2
  <2>. QED  BY <1>2, <2>2 DEF TextShape
<1>. HIDE DEF matches
<1>12. FilledSoFar'
  <2>. SUFFICES ASSUME NEW u \in DOMAIN Templates, NEW k \in DOMAIN Templates[u]
                PROVE  \/ text'[u][k] \in {i.value : i \in Own(u, k)}
                       \/ text'[u][k] = <<>> /\ \A i \in Own(u, k) :
                                [file |-> u, item |-> i] \in Range(todo')
    BY <1>7 DEF FilledSoFar
  <2>1. CASE u = t /\ text'[u][k] = item.value /\ item \in Own(u, k)
    BY <2>1
  <2>2. CASE text'[u][k] = text[u][k] /\ ~(u = t /\ k \in matches(t, item) /\
                                          ~Starts(item.value, odd.digit))
    <3>1. CASE text[u][k] \in {i.value : i \in Own(u, k)}
      BY <2>2, <3>1
    <3>2. CASE text[u][k] = <<>> /\ \A i \in Own(u, k) :
                                      [file |-> u, item |-> i] \in Range(todo)
      <4>1. ASSUME NEW i \in Own(u, k)
            PROVE  [file |-> u, item |-> i] \in Range(Tail(todo))
        <5>1. CASE [file |-> u, item |-> i] = [file |-> t, item |-> item]
          <6>1. u = t /\ i = item
            <7>1. /\ [file |-> u, item |-> i].file = [file |-> t, item |-> item].file
                  /\ [file |-> u, item |-> i].item = [file |-> t, item |-> item].item
              BY <5>1
            <7>. QED  BY <7>1
          <6>2. ~Starts(item.value, odd.digit)
            BY <6>1 DEF Own
          <6>3. k \in matches(t, item)
            BY <1>9, <3>2, <6>1
          <6>. QED  BY <2>2, <6>1, <6>2, <6>3
        <5>2. CASE [file |-> u, item |-> i] # [file |-> t, item |-> item]
          BY <1>3, <1>5, <3>2, <5>2
        <5>. QED  BY <5>1, <5>2
      <4>. QED  BY <1>1, <2>2, <3>2, <4>1
    <3>. QED  BY <1>2, <3>1, <3>2 DEF FilledSoFar
  <2>. QED  BY <1>10, <2>1, <2>2
<1>. QED  BY <1>1, <1>3, <1>11, <1>12 DEF SubInv

\* Every variable of a template that has a docstring is filled with one.
THEOREM SubFillsTemplates == Spec => []TemplatesFilled
<1>1. Init => SubInv
  BY DEF Init, SubInv
<1>2. ASSUME Types, SubInv, [Next]_vars  PROVE SubInv'
  <2>1. CASE SubStarts
    BY <1>2, <2>1, SubStarting
  <2>2. CASE Substitute
    BY <1>2, <2>2, Substituting
  <2>3. CASE UNCHANGED vars
    BY <1>2, <2>3 DEF vars, pydocVars, SubInv, TextShape, FilledSoFar, Own
  <2>4. CASE pc # "sub" /\ pc' # "sub" /\ text' = text
    BY <1>2, <2>4 DEF SubInv
  <2>5. ScrapeIndex => pc # "sub" /\ pc' # "sub" /\ text' = text
    BY DEF ScrapeIndex, pydocVars, Raise, Goto, subVars
  <2>6. FindBlock \/ BlocksFound => pc # "sub" /\ pc' # "sub" /\ text' = text
    BY DEF FindBlock, BlocksFound, Raise, Goto, subVars
  <2>7. ScrapeBlock \/ ScrapeBlock2 => pc # "sub" /\ pc' # "sub" /\ text' = text
    BY DEF ScrapeBlock, ScrapeBlock2, Raise, Goto, subVars
  <2>8. ScrapeFunction \/ ScrapeClass => pc # "sub" /\ pc' # "sub" /\ text' = text
    BY DEF ScrapeFunction, ScrapeClass, Goto, subVars
  <2>9. NextLoop => pc # "sub" /\ pc' # "sub" /\ text' = text
    BY DEF NextLoop, Goto, subVars
  <2>. QED  BY <1>2, <2>1, <2>2, <2>3, <2>4, <2>5, <2>6, <2>7, <2>8, <2>9 DEF Next
<1>3. SubInv => TemplatesFilled
  <2>. SUFFICES ASSUME SubInv, pc = "sub", todo = <<>>,
                       NEW t \in DOMAIN Templates, NEW k \in DOMAIN Templates[t]
                PROVE  IF Own(t, k) = {} THEN text[t][k] = <<>>
                       ELSE text[t][k] \in {item.value : item \in Own(t, k)}
    BY DEF TemplatesFilled, Own
  <2>1. \/ text[t][k] \in {item.value : item \in Own(t, k)}
        \/ text[t][k] = <<>> /\ \A item \in Own(t, k) :
                                  [file |-> t, item |-> item] \in Range(todo)
    BY DEF SubInv, FilledSoFar
  <2>2. Range(todo) = {}
    BY DEF Range
  <2>. QED  BY <2>1, <2>2
<1>. QED  BY <1>1, <1>2, <1>3, TypesHold, PTL DEF Spec

=============================================================================
