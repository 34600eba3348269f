---------------------------- MODULE UpdatePydoc -----------------------------
(***************************************************************************)
(* docs/doxygen/update_pydoc.py: "scrape" walks over the objects of        *)
(* DoxyXml and writes a JSON file of docstrings by name; "sub", a program  *)
(* of its own, puts them into the templates of the Python bindings.        *)
(*                                                                         *)
(* A key of the dictionary is its parts between "::". A docstring is the   *)
(* objects whose descriptions it joins.                                    *)
(***************************************************************************)
EXTENDS DoxyXml

CONSTANTS
  MakeName(_), \* make_name(): the make function of an old style block
  HeaderOf(_), \* the name of a block and ".h"
  IsStd(_),    \* whether a name starts with std::
  DocKey(_),   \* the parts of a key joined by "_"
  Templates,   \* the doc variables of each template, in order
  OddTexts     \* which descriptions start with a digit, and which have a
               \* closing parenthesis: records [digit, paren] of sets of names

\* make_entry() of a function: its definition has the name of the namespace.
FunctionKey(f) == IF f.owner = "" THEN <<f.name>> ELSE <<f.owner, f.name>>

\* The dictionary tells things apart by their names only: no two classes share
\* a name or a make function's, and no function of a header or a namespace has
\* the name of a class, or one for the name of its namespace.
ASSUME NamesAssumption ==
  \A i \in Index :
    LET classes == {k \in Range(i) : k.kind = "class"}
    IN  /\ \A k, l \in classes :
             k.name = l.name \/ MakeName(k.name) = MakeName(l.name) => k = l
        /\ \A f \in Files : \A mem \in {k \in Range(i) : ReadByIndex(k)} :
             \A m \in Range(f[mem.refid].memberdefs) : m.kind = "function" =>
               \A k \in classes : FunctionKey(m)[1] # k.name

\* Templates are lists, and define a variable once, as C++ wants it.
ASSUME TemplatesAssumption ==
  /\ Templates \in Seq(Seq(UNION {Range(Templates[t]) : t \in DOMAIN Templates}))
  /\ \A t \in DOMAIN Templates : \A j, k \in DOMAIN Templates[t] :
       Templates[t][j] = Templates[t][k] => j = k

VARIABLES
  pc,         \* the loop that runs
  todo,       \* what it has still to go through
  blocks, blocks2, \* the lists of blocks
  make_funcs, \* names of make functions that are dealt with
  output,     \* the dictionary, as its items in order
  exc,        \* the exception that ended scrape
  json,       \* the JSON file, if it exists, and its items
  odd,        \* the odd ones among the descriptions
  text,       \* what each doc variable of each template holds
  status      \* the PASS and FAIL of docstring_status

pydocVars == <<pc, todo, blocks, blocks2, make_funcs, output, exc, json,
               odd, text, status>>
loopVars == <<blocks, blocks2, make_funcs, output>>
subVars == <<odd, text, status>>
vars == <<xmlVars, pydocVars>>

NoFile == [exists |-> FALSE, items |-> <<>>]

Init ==
  /\ XmlInit
  /\ pc = "index" /\ todo = <<>>
  /\ blocks = <<>> /\ blocks2 = <<>> /\ make_funcs = {}
  /\ output = <<>> /\ exc = "none" /\ json = NoFile
  /\ odd \in OddTexts
  /\ text = [t \in DOMAIN Templates |-> [k \in DOMAIN Templates[t] |-> <<>>]]
  /\ status = <<>>

-----------------------------------------------------------------------------
Item(key, value) == [key |-> key, value |-> value]

\* Dictionary update: a new key goes to the end, a known one keeps its place.
Put(dict, item) ==
  IF \E k \in DOMAIN dict : dict[k].key = item.key
  THEN [k \in DOMAIN dict |-> IF dict[k].key = item.key THEN item
                              ELSE dict[k]]
  ELSE Append(dict, item)
update(dict, items) ==
  LET with[n \in 0 .. Len(items)] ==
        IF n = 0 THEN dict ELSE Put(with[n - 1], items[n])
  IN  with[Len(items)]

\* make_entry() of a function.
make_entry(f, description) == <<Item(FunctionKey(f), description)>>

\* make_class_entry(): the class and its functions.
make_class_entry(class, description, ignored) ==
  LET all == InCategory(members[class.refid], "function")
      funcs == Select(all, {f \in Range(all) : f.name \notin ignored})
  IN  <<Item(<<class.name>>, description)>> \o
      [k \in DOMAIN funcs |-> Item(<<class.name, funcs[k].name>>,
                                   <<funcs[k]>>)]

IndexFunctions == InCategory(top, "function")
IndexClasses == InCategory(top, "class")

\* make_block_entry(): class, make function, and the file if there is one.
make_block_entry(block, make_func) ==
  LET file == Named(InCategory(top, "file"), HeaderOf(block.name))
      description == <<block, make_func>> \o file
  IN  make_class_entry(block, description, {})
      \o make_entry(make_func, description)

\* make_block2_entry(): the class and its method make.
make_block2_entry(block, make_func) ==
  LET description == <<block, make_func>>
  IN  make_class_entry(block, description, {"make"})
      \o <<Item(<<block.name, "make">>, description)>>

-----------------------------------------------------------------------------
Goto(loop, list) == pc' = loop /\ todo' = list

\* An exception that nothing catches ends the program: no JSON is written.
Raise(e) ==
  /\ exc' = e /\ pc' = "ended"
  /\ UNCHANGED <<xmlVars, todo, loopVars, json, subVars>>

ScrapeIndex ==
  /\ pc = "index"
  /\ \/ /\ IndexCompound
        /\ UNCHANGED pydocVars
     \/ /\ index # <<>> /\ IndexRaises(Head(index))
        /\ Raise("index")
     \/ /\ index = <<>>
        /\ Goto("find_blocks", IndexClasses)
        /\ UNCHANGED <<xmlVars, loopVars, exc, json, subVars>>

\* Block.includes() of a class. The make function may be a friend, or else a
\* function that the index has; has_member() does not expect two.
FindBlock ==
  /\ pc = "find_blocks" /\ todo # <<>>
  /\ LET class == Head(todo)
         friendname == MakeName(class.name)
         Friend == has_member(InCategory(members'[class.refid], "friend"),
                              friendname)
     IN  \/ Raises(class) /\ Raise("class file")
         \/ /\ ~Raises(class) /\ Parse(class)
            /\ UNCHANGED <<index, files, top, blocks2, make_funcs, output,
                           json, subVars>>
            /\ IF class.refid \notin error' /\ ~Friend
                  /\ Duplicate(IndexFunctions, friendname)
               THEN exc' = "Duplicate" /\ pc' = "ended"
                    /\ UNCHANGED <<todo, blocks>>
               ELSE /\ Goto(pc, Tail(todo)) /\ UNCHANGED exc
                    /\ blocks' = IF class.refid \notin error' /\
                                    (Friend \/ has_member(IndexFunctions, friendname))
                                 THEN Append(blocks, class) ELSE blocks

\* Block2.includes(): all classes have parsed.
IsBlock2(class) ==
  /\ class.refid \notin error
  /\ has_member(InCategory(members[class.refid], "function"), "make")
  /\ has_member(InOther(members[class.refid]), "sptr")

BlocksFound ==
  /\ pc = "find_blocks" /\ todo = <<>>
  /\ blocks2' = Select(IndexClasses, {k \in Range(IndexClasses) : IsBlock2(k)})
  /\ Goto("blocks", blocks)
  /\ UNCHANGED <<xmlVars, blocks, make_funcs, output, exc, json, subVars>>

\* One block of the old style.
ScrapeBlock ==
  /\ pc = "blocks" /\ todo # <<>>
  /\ LET block == Head(todo)
         name == MakeName(block.name)
         make_func == Named(IndexFunctions, name)[1]
         fails == \/ ~has_member(IndexFunctions, name)
                  \/ Duplicate(InCategory(top, "file"), HeaderOf(block.name))
     IN  \/ fails /\ Raise("make function")
         \/ /\ ~fails
            /\ make_funcs' = make_funcs \cup {<<name>>}
            /\ output' = IF <<name>> \in make_funcs THEN output
                         ELSE update(output, make_block_entry(block, make_func))
            /\ Goto(pc, Tail(todo))
            /\ UNCHANGED <<xmlVars, blocks, blocks2, exc, json, subVars>>

\* One of the new style.
ScrapeBlock2 ==
  /\ pc = "blocks2" /\ todo # <<>>
  /\ LET block == Head(todo)
         make_func == Named(InCategory(members[block.refid], "function"),
                            "make")[1]
         name == <<block.name, "make">>
     IN  /\ make_funcs' = make_funcs \cup {name}
         /\ output' = IF name \in make_funcs THEN output
                      ELSE update(output, make_block2_entry(block, make_func))
  /\ Goto(pc, Tail(todo))
  /\ UNCHANGED <<xmlVars, blocks, blocks2, exc, json, subVars>>

\* The functions of the index, but for the make functions.
ScrapeFunction ==
  /\ pc = "functions" /\ todo # <<>>
  /\ output' = update(output, make_entry(Head(todo), <<Head(todo)>>))
  /\ Goto(pc, Tail(todo))
  /\ UNCHANGED <<xmlVars, blocks, blocks2, make_funcs, exc, json, subVars>>

\* A mutation: a class that cannot be read ends the loop.
ScrapeClassOrStop ==
  /\ pc = "classes" /\ todo # <<>>
  /\ IF Head(todo).refid \in error
     THEN Goto(pc, <<>>) /\ UNCHANGED output
     ELSE /\ output' = update(output, make_class_entry(Head(todo),
                                                       <<Head(todo)>>, {}))
          /\ Goto(pc, Tail(todo))
  /\ UNCHANGED <<xmlVars, blocks, blocks2, make_funcs, exc, json, subVars>>

\* A mutation: its ParsingError is raised again, as it is for a block.
ScrapeClassOrRaise ==
  /\ pc = "classes" /\ todo # <<>>
  /\ \/ Head(todo).refid \in error /\ Raise("ParsingError")
     \/ /\ Head(todo).refid \notin error
        /\ output' = update(output, make_class_entry(Head(todo),
                                                     <<Head(todo)>>, {}))
        /\ Goto(pc, Tail(todo))
        /\ UNCHANGED <<xmlVars, blocks, blocks2, make_funcs, exc, json,
                       subVars>>

\* The classes that are no blocks. A ParsingError is reported, and the class
\* left out.
ScrapeClass ==
  /\ pc = "classes" /\ todo # <<>>
  /\ output' = IF Head(todo).refid \in error THEN output
               ELSE update(output, make_class_entry(Head(todo),
                                                    <<Head(todo)>>, {}))
  /\ Goto(pc, Tail(todo))
  /\ UNCHANGED <<xmlVars, blocks, blocks2, make_funcs, exc, json, subVars>>

\* A mutation: make functions are taken for functions.
AllFunctions ==
  Select(IndexFunctions, {f \in Range(IndexFunctions) : ~IsStd(f.name)})

\* The lists that follow a loop that is through.
OtherFunctions ==
  Select(IndexFunctions,
         {f \in Range(IndexFunctions) :
            <<f.name>> \notin make_funcs /\ ~IsStd(f.name)})
OtherClasses ==
  Select(IndexClasses,
         {k \in Range(IndexClasses) :
            /\ k.name \notin {b.name : b \in Range(blocks \o blocks2)}
            /\ ~IsStd(k.name)})

NextLoop ==
  /\ todo = <<>>
  /\ \/ pc = "blocks" /\ Goto("blocks2", blocks2) /\ UNCHANGED json
     \/ pc = "blocks2" /\ Goto("functions", OtherFunctions) /\ UNCHANGED json
     \/ pc = "functions" /\ Goto("classes", OtherClasses) /\ UNCHANGED json
     \/ pc = "classes" /\ Goto("written", <<>>) /\ json' = [exists |-> TRUE, items |-> output]
  /\ UNCHANGED <<xmlVars, loopVars, exc, subVars>>

-----------------------------------------------------------------------------
\* The other program: the substitutions it makes, template by template and
\* item by item of the JSON file.
SubStarts ==
  /\ pc = "written" /\ json.exists
  /\ LET Pairs(t) == [k \in DOMAIN json.items |->
                    [file |-> t, item |-> json.items[k]]]
     IN  Goto("sub", FlattenSeq([t \in DOMAIN Templates |-> Pairs(t)]))
  /\ UNCHANGED <<xmlVars, loopVars, exc, json, subVars>>

\* sub_docstring_in_pydoc_h() for a file and an item. A docstring that starts
\* with a digit makes \1 another group, and the exception leaves the file as
\* it was. Otherwise the first variable of the name is given the docstring, if
\* what it has holds no closing parenthesis, where the pattern ends.
Starts(value, set) == value[1].name \in set
Has(value, set) == \E k \in DOMAIN value : value[k].name \in set

\* A mutation: an exception loses what the file has been given.
SubstituteAfresh ==
  /\ pc = "sub" /\ todo # <<>>
  /\ LET t == Head(todo).file
         item == Head(todo).item
         matches == {k \in DOMAIN Templates[t] :
                       /\ Templates[t][k] = DocKey(item.key)
                       /\ ~Has(text[t][k], odd.paren)}
     IN  IF Starts(item.value, odd.digit)
         THEN /\ status' = Append(status, "FAIL")
              /\ text' = [text EXCEPT ![t] = [k \in DOMAIN @ |-> <<>>]]
         ELSE IF matches = {} THEN UNCHANGED <<text, status>>
         ELSE /\ text' = [text EXCEPT ![t][Min(matches)] = item.value]
              /\ status' = Append(status, "PASS")
  /\ Goto(pc, Tail(todo))
  /\ UNCHANGED <<xmlVars, loopVars, exc, json, odd>>

Substitute ==
  /\ pc = "sub" /\ todo # <<>>
  /\ LET t == Head(todo).file
         item == Head(todo).item
         matches == {k \in DOMAIN Templates[t] :
                       /\ Templates[t][k] = DocKey(item.key)
                       /\ ~Has(text[t][k], odd.paren)}
     IN  IF Starts(item.value, odd.digit)
         THEN status' = Append(status, "FAIL") /\ UNCHANGED text
         ELSE IF matches = {} THEN UNCHANGED <<text, status>>
         ELSE /\ text' = [text EXCEPT ![t][Min(matches)] = item.value]
              /\ status' = Append(status, "PASS")
  /\ Goto(pc, Tail(todo))
  /\ UNCHANGED <<xmlVars, loopVars, exc, json, odd>>

Next == \/ ScrapeIndex \/ FindBlock \/ BlocksFound
        \/ ScrapeBlock \/ ScrapeBlock2 \/ ScrapeFunction \/ ScrapeClass
        \/ NextLoop \/ SubStarts \/ Substitute

Spec == Init /\ [][Next]_vars

-----------------------------------------------------------------------------
Documents(item, obj) == item.value[1] = obj

\* When the JSON file is written, nothing is missing in it: every class that
\* could be read has its docstring, and so has each of its functions and each
\* function of a header or a namespace, although blocks, make functions and
\* the rest are taken up by different loops; a class whose file is malformed
\* is left out, and is the only thing that is (get_docstrings_dict()).
DocumentedWhenWritten ==
  json.exists =>
    LET items == Range(json.items)
        Key(k) == \E item \in items : item.key = k
    IN  /\ \A class \in Range(IndexClasses) : ~IsStd(class.name) =>
             IF files[class.refid].state = "malformed"
             THEN ~\E item \in items : Documents(item, class)
             ELSE /\ \E item \in items : /\ item.key = <<class.name>>
                                         /\ Documents(item, class)
                  /\ \A f \in Range(InCategory(members[class.refid],
                                               "function")) :
                       Key(<<class.name, f.name>>)
        /\ \A f \in Range(IndexFunctions) : ~IsStd(f.name) => Key(FunctionKey(f))

\* "Don't want to risk writing to output twice": the docstring that a block
\* was given, joined from the class and its make function, is not replaced by
\* the plain one of a function or a class in the loops that follow.
BlockDocsSurvive ==
  [][\A k \in DOMAIN output :
       Len(output[k].value) > 1 => Len(output'[k].value) > 1]_vars

\* What a scrape can fail over: a file that is missing, a malformed header or
\* namespace, a kind of compound that is not known, two functions or headers
\* where one is expected, a friend that is no function of the index. A class
\* with a malformed file does not stop it, whichever loop comes to it.
StopsForAReason ==
  exc # "none" =>
    \/ index # <<>> /\ \/ Head(index).kind \notin Kinds
                       \/ files[Head(index).refid].state # "good"
    \/ \E class \in Range(IndexClasses) : files[class.refid].state = "missing"
    \/ \E p, q \in DOMAIN top : /\ p # q /\ top[p].name = top[q].name
                                /\ top[p].kind \in {"function", "file"}
                                /\ top[q].kind = top[p].kind
    \/ \E class \in Range(IndexClasses) :
         /\ \E m \in Range(members[class.refid]) :
              m.kind = "friend" /\ m.name = MakeName(class.name)
         /\ \A f \in Range(IndexFunctions) : f.name # MakeName(class.name)

\* When the substitutions are through, a variable of a template is filled if
\* there is a docstring for its name that can be substituted, whatever failed
\* before it and in other files, and what it holds is one for its name.
TemplatesFilled ==
  pc = "sub" /\ todo = <<>> =>
    \A t \in DOMAIN Templates : \A k \in DOMAIN Templates[t] :
      LET own == {item \in Range(json.items) : /\ DocKey(item.key) = Templates[t][k]
                                         /\ ~Starts(item.value, odd.digit)}
      IN  IF own = {} THEN text[t][k] = <<>>
          ELSE text[t][k] \in {item.value : item \in own}

=============================================================================
