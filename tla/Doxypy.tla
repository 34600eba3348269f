------------------------------- MODULE Doxypy -------------------------------
(***************************************************************************)
(* docs/doxygen/other/doxypy.py, the filter through which doxygen reads    *)
(* Python files (FILTER_PATTERNS in docs/doxygen/Doxyfile.in): a finite    *)
(* state machine fed line by line, that moves the docstring of a class or  *)
(* function, as a comment block, before the line that defines it.          *)
(*                                                                         *)
(* A line is its number and the patterns that match it. The buffers hold   *)
(* line numbers; what is written is the line as it is, or inside a comment *)
(* block with the indentation of some line (0: none).                      *)
(***************************************************************************)
EXTENDS Naturals, Sequences

CONSTANT MaxLines  \* bound: lines of the file

ASSUME MaxLinesAssumption == MaxLines \in Nat

VARIABLES
  file,      \* the patterns of the lines read
  state,     \* current_state of the FSM
  output,    \* what is written: output and the stream it is flushed to
  comment,   \* the lines of the docstring being gathered
  defclass,  \* the triggering line, and those that go with it
  indent,    \* the line whose indentation the comment block gets
  ended      \* whether parseFile() has returned

vars == <<file, state, output, comment, defclass, indent, ended>>

-----------------------------------------------------------------------------
\* The patterns that match a line: those of its beginning and those of its
\* end, which do not exclude each other, and two kinds of line that are matched
\* as a whole. The patterns of docstrings exist twice, for ''' (1) and for """
\* (2). A line matched by defclass may go on behind its colon.
Begins == {{}, {"start1"}, {"start2"}, {"hashline"}, {"importline"},
           {"defclass", "multi_start"}, {"multi_start"}}
Ends == {{}, {"end1"}, {"end2"}, {"multi_end"}}

Shapes == {b \cup e : b \in Begins, e \in Ends}
          \cup {{"empty"}, {"single1", "start1", "end1"},
                {"single2", "start2", "end2"}}

T(from, to, condition, callback) ==
  [from |-> from, to |-> to, condition |-> condition, callback |-> callback]

\* The transitions of a docstring found in a state, when it ends in body.
DocstringTransitions(from, inside1, inside2, body) ==
  <<T(from, body, "single1", "appendCommentLine"),
    T(from, body, "single2", "appendCommentLine"),
    T(from, inside1, "start1", "appendCommentLine"),
    T(inside1, body, "end1", "appendCommentLine"),
    T(inside1, inside1, "catchall", "appendCommentLine"),
    T(from, inside2, "start2", "appendCommentLine"),
    T(inside2, body, "end2", "appendCommentLine"),
    T(inside2, inside2, "catchall", "appendCommentLine")>>

Transitions ==
  DocstringTransitions("FILEHEAD", "FILEHEAD_COMMENT_SINGLE",
                       "FILEHEAD_COMMENT_DOUBLE", "FILEHEAD")
  \o <<T("FILEHEAD", "FILEHEAD", "empty", "appendFileheadLine"),
       T("FILEHEAD", "FILEHEAD", "hashline", "appendFileheadLine"),
       T("FILEHEAD", "FILEHEAD", "importline", "appendFileheadLine"),
       T("FILEHEAD", "DEFCLASS", "defclass", "resetCommentSearch"),
       T("FILEHEAD", "DEFCLASS_MULTI", "multi_start", "resetCommentSearch"),
       T("FILEHEAD", "DEFCLASS_BODY", "catchall", "appendFileheadLine")>>
  \o DocstringTransitions("DEFCLASS", "COMMENT_SINGLE", "COMMENT_DOUBLE",
                          "DEFCLASS_BODY")
  \o <<T("DEFCLASS", "DEFCLASS", "empty", "appendDefclassLine"),
       T("DEFCLASS", "DEFCLASS", "defclass", "resetCommentSearch"),
       T("DEFCLASS", "DEFCLASS_MULTI", "multi_start", "resetCommentSearch"),
       T("DEFCLASS", "DEFCLASS_BODY", "catchall", "stopCommentSearch"),
       T("DEFCLASS_BODY", "DEFCLASS", "defclass", "startCommentSearch"),
       T("DEFCLASS_BODY", "DEFCLASS_MULTI", "multi_start",
         "startCommentSearch"),
       T("DEFCLASS_BODY", "DEFCLASS_BODY", "catchall", "appendNormalLine"),
       T("DEFCLASS_MULTI", "DEFCLASS", "multi_end", "appendDefclassLine"),
       T("DEFCLASS_MULTI", "DEFCLASS_MULTI", "catchall",
         "appendDefclassLine")>>

Matches(t, line) == t.condition = "catchall" \/ t.condition \in line

\* makeTransition(): the first transition from the state whose condition
\* holds. Every state has a catchall, so there is one.
TransitionFor(s, line) ==
  Transitions[CHOOSE k \in DOMAIN Transitions :
                /\ Transitions[k].from = s /\ Matches(Transitions[k], line)
                /\ \A j \in 1..(k - 1) : ~ /\ Transitions[j].from = s
                                           /\ Matches(Transitions[j], line)]

-----------------------------------------------------------------------------
AsIs(lines) == [k \in DOMAIN lines |-> [line |-> lines[k], block |-> FALSE,
                                        indent |-> 0]]
\* makeCommentBlock(), but for the line ## it starts with.
CommentBlock(lines) ==
  [k \in DOMAIN lines |-> [line |-> lines[k], block |-> TRUE,
                           indent |-> indent]]

\* A mutation: the comment block is written below the definition.
ClosedBelow(lines) == output \o AsIs(defclass) \o CommentBlock(lines)

\* __closeComment() with a comment buffer.
Closed(lines) == output \o CommentBlock(lines) \o AsIs(defclass)

Init ==
  /\ file = <<>>
  /\ state = "FILEHEAD"
  /\ output = <<>> /\ comment = <<>> /\ defclass = <<>>
  /\ indent = 0
  /\ ended = FALSE

Current == Len(file) + 1

startCommentSearch ==
  /\ defclass' = <<Current>> /\ comment' = <<>> /\ indent' = Current

\* A mutation: the definition before this one is not closed.
resetCommentSearchOnly == startCommentSearch /\ UNCHANGED output

resetCommentSearch ==
  /\ output' = Closed(comment)
  /\ startCommentSearch

stopCommentSearch ==
  /\ output' = Closed(comment) \o AsIs(<<Current>>)
  /\ defclass' = <<>>
  /\ UNCHANGED <<comment, indent>>

appendFileheadLine ==
  /\ output' = Closed(comment) \o AsIs(<<Current>>)
  /\ comment' = <<>>
  /\ UNCHANGED <<defclass, indent>>

\* A mutation: the block is written before its last line is added.
appendCommentLineLate(t) ==
  /\ comment' = Append(comment, Current)
  /\ IF t.to = "DEFCLASS_BODY"
     THEN output' = Closed(comment) /\ defclass' = <<>>
     ELSE UNCHANGED <<output, defclass>>
  /\ UNCHANGED indent

\* The delimiters are cut off the line, and the docstring of a class or
\* function is written out when it ends.
appendCommentLine(t) ==
  /\ comment' = Append(comment, Current)
  /\ IF t.to = "DEFCLASS_BODY"
     THEN output' = Closed(comment') /\ defclass' = <<>>
     ELSE UNCHANGED <<output, defclass>>
  /\ UNCHANGED indent

appendNormalLine ==
  /\ output' = output \o AsIs(<<Current>>)
  /\ UNCHANGED <<comment, defclass, indent>>

appendDefclassLine ==
  /\ defclass' = Append(defclass, Current)
  /\ UNCHANGED <<output, comment, indent>>

\* The callback of the transition that the line takes.
Callback(t) ==
  \/ t.callback = "startCommentSearch" /\ startCommentSearch
                                       /\ UNCHANGED output
  \/ t.callback = "resetCommentSearch" /\ resetCommentSearch
  \/ t.callback = "stopCommentSearch"  /\ stopCommentSearch
  \/ t.callback = "appendFileheadLine" /\ appendFileheadLine
  \/ t.callback = "appendCommentLine"  /\ appendCommentLine(t)
  \/ t.callback = "appendNormalLine"   /\ appendNormalLine
  \/ t.callback = "appendDefclassLine" /\ appendDefclassLine

parseLine(line) ==
  /\ ~ended /\ Len(file) < MaxLines
  /\ LET t == TransitionFor(state, line)
     IN  state' = t.to /\ Callback(t)
  /\ file' = Append(file, line)
  /\ UNCHANGED ended

\* The end of parseFile(): only the state DEFCLASS writes what it holds.
EndOfFile ==
  /\ ~ended /\ ended' = TRUE
  /\ output' = IF state = "DEFCLASS" THEN Closed(comment) ELSE output
  /\ UNCHANGED <<file, state, comment, defclass, indent>>

Next == (\E line \in Shapes : parseLine(line)) \/ EndOfFile

Spec == Init /\ [][Next]_vars

-----------------------------------------------------------------------------
\* What has been gathered and is still to be written. A docstring that was
\* written stays in comment until the next definition.
Pending == IF state = "DEFCLASS_BODY" \/ (ended /\ state = "DEFCLASS")
           THEN <<>> ELSE comment \o defclass

Written == [k \in DOMAIN output |-> output[k].line]
Lines(seq) == {seq[k] : k \in DOMAIN seq}
NoneTwice(seq) == \A p, q \in DOMAIN seq : seq[p] = seq[q] => p = q

\* Every line read is written or waiting to be, and none is both or twice:
\* whatever the FSM takes a line for, no callback drops a buffer it has not
\* closed and none closes a buffer again (closeComment does not empty the
\* comment, and the transitions to DEFCLASS_BODY do not agree on who does).
\* The lines of code stay in order, although docstrings pass them.
EachLineOnce ==
  /\ Lines(Written) \cup Lines(Pending) = 1..Len(file)
  /\ Lines(Written) \cap Lines(Pending) = {}
  /\ NoneTwice(Written) /\ NoneTwice(Pending)
  /\ \A p, q \in DOMAIN output :
       (p < q /\ ~output[p].block /\ ~output[q].block)
       => output[p].line < output[q].line

Defines(line) == "multi_start" \in file[line]

\* The header of the definition of line d goes up to line h: where the filter
\* sees it end, on the first line that ends in a colon.
HeaderEnds(d, h) ==
  /\ Defines(d)
  /\ IF "defclass" \in file[d] THEN h = d
     ELSE /\ d < h /\ "multi_end" \in file[h]
          /\ \A k \in (d + 1)..(h - 1) : "multi_end" \notin file[k]

\* The header that line m begins has not ended before line d.
InHeader(m, d) ==
  /\ m < d /\ Defines(m) /\ "defclass" \notin file[m]
  /\ \A k \in (m + 1)..(d - 1) : "multi_end" \notin file[k]

\* A comment block with the indentation of a definition stands immediately
\* above it. Its docstring is the definition's own: in the file its lines
\* follow the header with nothing but empty lines in between, and they keep
\* their order. (The header ends where the filter sees it end: a colon with a
\* comment behind it does not count, so `def f(a,`, `b):  # c`, `def g():` is
\* one header, and the docstring below it goes above f.) The other blocks come
\* from the head of the file, in order with its other lines, before any
\* definition.
DocstringAtItsDefinition ==
  \A p \in DOMAIN output : output[p].block =>
    LET d == output[p].indent
        line == output[p].line
    IN  IF d = 0
        THEN \A q \in 1..(p - 1) :
               /\ output[q].line < line
               /\ output[q].block \/ ~Defines(output[q].line)
        ELSE /\ \E h \in d..(line - 1) :
                  /\ HeaderEnds(d, h)
                  /\ \A k \in (h + 1)..(line - 1) :
                       \/ file[k] = {"empty"}
                       \/ \E q \in 1..(p - 1) :
                            output[q] = [line |-> k, block |-> TRUE,
                                         indent |-> d]
             /\ \E q \in DOMAIN output :
                  /\ q > p /\ ~output[q].block /\ output[q].line = d
                  /\ \A r \in p..(q - 1) : /\ output[r].block
                                           /\ output[r].indent = d
                                           /\ r > p => output[r].line > line

\* The docstring from line l to line e: opened by one kind of quotes, and
\* closed by the same kind, on that line or on the first one that ends so.
Docstring(l, e, single, start, end) ==
  IF single \in file[l] THEN e = l
  ELSE /\ start \in file[l] /\ end \in file[e] /\ l < e
       /\ \A k \in (l + 1)..(e - 1) : end \notin file[k]

\* No docstring is missed: when a definition, of one line or of several, was
\* written as code, and the next line after its header that is not empty opens
\* a docstring that was closed, all of the docstring stands in its comment
\* block, closing line included. Left out are only the definitions in whose
\* place the header of an earlier one was still open, which the filter takes
\* for lines of that header.
DocstringsAreFound ==
  \A p \in DOMAIN output :
    LET d == output[p].line
    IN  (/\ ~output[p].block /\ Defines(d)
         /\ \A q \in DOMAIN output :
              ~output[q].block => ~InHeader(output[q].line, d))
        => \A h, l, e \in d..Len(file) :
             (/\ HeaderEnds(d, h) /\ h < l
              /\ \A k \in (h + 1)..(l - 1) : file[k] = {"empty"}
              /\ \/ Docstring(l, e, "single1", "start1", "end1")
                 \/ Docstring(l, e, "single2", "start2", "end2"))
             => \A k \in l..e :
                  \E q \in 1..(p - 1) :
                    output[q] = [line |-> k, block |-> TRUE, indent |-> d]

=============================================================================
