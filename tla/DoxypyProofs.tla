---------------------------- MODULE DoxypyProofs ----------------------------
(***************************************************************************)
(* For files of any length: doxypy.py writes every line once and the code  *)
(* in its order, puts each docstring above the definition whose header it  *)
(* follows, and misses none.                                               *)
(*                                                                         *)
(* First what the table of transitions takes from each state (the first    *)
(* row that fits, by the shapes of lines), so that every step of parseLine *)
(* is one of seven kinds (Callbacks). Then what a closed buffer adds to    *)
(* the output (Closes). Then, one kind of step after the other, the parts  *)
(* of the inductive invariant: what the buffers hold in each state, that   *)
(* no line is lost or written twice, the order of the code, the place of   *)
(* the blocks, and that the code that is out has its docstring above it.   *)
(***************************************************************************)
EXTENDS Doxypy, SequenceTheorems, WellFoundedInduction, TLAPS

-----------------------------------------------------------------------------
(* The table of transitions.                                               *)

\* The patterns of which no line matches both, and those that come with others.
LEMMA ShapeFacts ==
  ASSUME NEW line \in Shapes
  PROVE  /\ "empty" \in line => line = {"empty"}
         /\ "single1" \in line => "start1" \in line
         /\ "single2" \in line => "start2" \in line
         /\ ~ ("start1" \in line /\ "start2" \in line)
         /\ "defclass" \in line => "multi_start" \in line
         /\ "multi_start" \in line =>
              line \cap {"single1", "start1", "single2", "start2", "empty",
                         "hashline", "importline"} = {}
<1>1. CASE line \in {{"empty"}, {"single1", "start1", "end1"}, {"single2", "start2", "end2"}}
  BY <1>1
<1>2. CASE \E b \in Begins, e \in Ends : line = b \cup e
  <2>1. PICK b \in Begins, e \in Ends : line = b \cup e
    BY <1>2
  <2>2. /\ e \cap {"empty", "single1", "single2", "start1", "start2", "defclass",
                   "multi_start", "hashline", "importline"} = {}
    BY DEF Ends
  <2>3. /\ b \cap {"empty", "single1", "single2"} = {}
        /\ ~ ("start1" \in b /\ "start2" \in b)
        /\ "defclass" \in b => "multi_start" \in b
        /\ "multi_start" \in b =>
             b \cap {"start1", "start2", "hashline", "importline"} = {}
    BY DEF Begins
  <2>. QED  BY <2>1, <2>2, <2>3
<1>. QED
  BY <1>1, <1>2 DEF Shapes

\* The rows of a docstring, one by one.
LEMMA DocRows ==
  ASSUME NEW from, NEW in1, NEW in2, NEW body,
         NEW d, d = DocstringTransitions(from, in1, in2, body)
  PROVE  /\ DOMAIN d = 1..8 /\ Len(d) = 8
         /\ d[1] = T(from, body, "single1", "appendCommentLine")
         /\ d[2] = T(from, body, "single2", "appendCommentLine")
         /\ d[3] = T(from, in1, "start1", "appendCommentLine")
         /\ d[4] = T(in1, body, "end1", "appendCommentLine")
         /\ d[5] = T(in1, in1, "catchall", "appendCommentLine")
         /\ d[6] = T(from, in2, "start2", "appendCommentLine")
         /\ d[7] = T(in2, body, "end2", "appendCommentLine")
         /\ d[8] = T(in2, in2, "catchall", "appendCommentLine")
BY DEF DocstringTransitions

\* The four parts of the table.
HeadDocstrings ==
  DocstringTransitions("FILEHEAD", "FILEHEAD_COMMENT_SINGLE",
                       "FILEHEAD_COMMENT_DOUBLE", "FILEHEAD")
HeadRows ==
  <<T("FILEHEAD", "FILEHEAD", "empty", "appendFileheadLine"),
    T("FILEHEAD", "FILEHEAD", "hashline", "appendFileheadLine"),
    T("FILEHEAD", "FILEHEAD", "importline", "appendFileheadLine"),
    T("FILEHEAD", "DEFCLASS", "defclass", "resetCommentSearch"),
    T("FILEHEAD", "DEFCLASS_MULTI", "multi_start", "resetCommentSearch"),
    T("FILEHEAD", "DEFCLASS_BODY", "catchall", "appendFileheadLine")>>
BodyDocstrings ==
  DocstringTransitions("DEFCLASS", "COMMENT_SINGLE", "COMMENT_DOUBLE",
                       "DEFCLASS_BODY")
CodeRows ==
  <<T("DEFCLASS", "DEFCLASS", "empty", "appendDefclassLine"),
    T("DEFCLASS", "DEFCLASS", "defclass", "resetCommentSearch"),
    T("DEFCLASS", "DEFCLASS_MULTI", "multi_start", "resetCommentSearch"),
    T("DEFCLASS", "DEFCLASS_BODY", "catchall", "stopCommentSearch"),
    T("DEFCLASS_BODY", "DEFCLASS", "defclass", "startCommentSearch"),
    T("DEFCLASS_BODY", "DEFCLASS_MULTI", "multi_start", "startCommentSearch"),
    T("DEFCLASS_BODY", "DEFCLASS_BODY", "catchall", "appendNormalLine"),
    T("DEFCLASS_MULTI", "DEFCLASS", "multi_end", "appendDefclassLine"),
    T("DEFCLASS_MULTI", "DEFCLASS_MULTI", "catchall", "appendDefclassLine")>>

\* The items of two sequences one after the other.
LEMMA Concat ==
  ASSUME NEW S, NEW s \in Seq(S), NEW t \in Seq(S)
  PROVE  /\ s \o t \in Seq(S) /\ Len(s \o t) = Len(s) + Len(t)
         /\ \A k \in 1..Len(s) : (s \o t)[k] = s[k]
         /\ \A k \in 1..Len(t) : (s \o t)[Len(s) + k] = t[k]
<1>1. s \o t \in Seq(S) /\ Len(s \o t) = Len(s) + Len(t)
  BY ConcatProperties
<1>2. ASSUME NEW i \in 1..(Len(s) + Len(t))
      PROVE (s \o t)[i] = IF i <= Len(s) THEN s[i] ELSE t[i - Len(s)]
  BY ConcatProperties
<1>3. ASSUME NEW k \in 1..Len(s)  PROVE (s \o t)[k] = s[k]
  BY <1>2
<1>4. ASSUME NEW k \in 1..Len(t)  PROVE (s \o t)[Len(s) + k] = t[k]
  <2>1. /\ Len(s) + k \in 1..(Len(s) + Len(t)) /\ ~ (Len(s) + k <= Len(s))
        /\ (Len(s) + k) - Len(s) = k
    OBVIOUS
  <2>. QED  BY <2>1, <1>2
<1>. QED
  BY <1>1, <1>3, <1>4

\* s is a, b, c and d, one after the other.
InTurn(s, a, b, c, d) ==
  /\ DOMAIN s = 1..(Len(a) + Len(b) + Len(c) + Len(d))
  /\ \A k \in 1..Len(a) : s[k] = a[k]
  /\ \A k \in 1..Len(b) : s[Len(a) + k] = b[k]
  /\ \A k \in 1..Len(c) : s[Len(a) + Len(b) + k] = c[k]
  /\ \A k \in 1..Len(d) : s[Len(a) + Len(b) + Len(c) + k] = d[k]

\* The items of four sequences one after the other.
LEMMA Four ==
  ASSUME NEW S, NEW a \in Seq(S), NEW b \in Seq(S), NEW c \in Seq(S), NEW d \in Seq(S)
  PROVE  InTurn(a \o b \o c \o d, a, b, c, d)
<1> DEFINE ab == a \o b  abc == ab \o c  s == abc \o d
<1>0. ab \in Seq(S)
  BY Concat
<1>1. /\ Len(ab) = Len(a) + Len(b)
      /\ \A k \in 1..Len(a) : ab[k] = a[k]
      /\ \A k \in 1..Len(b) : ab[Len(a) + k] = b[k]
  BY Concat
<1> HIDE DEF ab
<1>20. abc \in Seq(S)
  BY <1>0, Concat
<1>2. /\ Len(abc) = Len(ab) + Len(c)
      /\ \A k \in 1..Len(ab) : abc[k] = ab[k]
      /\ \A k \in 1..Len(c) : abc[Len(ab) + k] = c[k]
  BY <1>0, Concat
<1> HIDE DEF abc
<1>3. /\ s \in Seq(S) /\ Len(s) = Len(abc) + Len(d)
      /\ \A k \in 1..Len(abc) : s[k] = abc[k]
      /\ \A k \in 1..Len(d) : s[Len(abc) + k] = d[k]
  BY <1>20, Concat
<1> HIDE DEF s
<1>4. Len(a) \in Nat /\ Len(b) \in Nat /\ Len(c) \in Nat /\ Len(d) \in Nat
  OBVIOUS
<1>5. ASSUME NEW k \in 1..Len(a)  PROVE s[k] = a[k]
  <2>1. k \in 1..Len(ab) /\ k \in 1..Len(abc)
    BY <1>1, <1>2, <1>4
  <2>. QED  BY <1>1, <1>2, <1>3, <2>1
<1>6. ASSUME NEW k \in 1..Len(b)  PROVE s[Len(a) + k] = b[k]
  <2>1. Len(a) + k \in 1..Len(ab) /\ Len(a) + k \in 1..Len(abc)
    BY <1>1, <1>2, <1>4
  <2>. QED  BY <1>1, <1>2, <1>3, <2>1
<1>7. ASSUME NEW k \in 1..Len(c)  PROVE s[Len(a) + Len(b) + k] = c[k]
  <2>1. Len(ab) + k \in 1..Len(abc)
    BY <1>1, <1>2, <1>4
  <2>. QED  BY <1>1, <1>2, <1>3, <2>1
<1>. QED
  BY <1>1, <1>2, <1>3, <1>4, <1>5, <1>6, <1>7 DEF s, abc, ab, InTurn

\* The rows of a docstring are eight, as a function.
LEMMA DocLen ==
  ASSUME NEW from, NEW in1, NEW in2, NEW body
  PROVE  LET d == DocstringTransitions(from, in1, in2, body)
         IN  d = [k \in 1..8 |-> d[k]]
BY DEF DocstringTransitions

\* The table is its four parts, one after the other.
LEMMA Table ==
  /\ DOMAIN Transitions = 1..31
  /\ \A k \in 1..8 : Transitions[k] = HeadDocstrings[k]
  /\ \A k \in 1..6 : Transitions[8 + k] = HeadRows[k]
  /\ \A k \in 1..8 : Transitions[14 + k] = BodyDocstrings[k]
  /\ \A k \in 1..9 : Transitions[22 + k] = CodeRows[k]
<1> DEFINE S == {HeadDocstrings[k] : k \in 1..8} \cup {HeadRows[k] : k \in 1..6}
                \cup {BodyDocstrings[k] : k \in 1..8} \cup {CodeRows[k] : k \in 1..9}
<1>1. /\ HeadDocstrings = [k \in 1..8 |-> HeadDocstrings[k]] /\ BodyDocstrings = [k \in 1..8 |-> BodyDocstrings[k]]
  BY DocLen DEF HeadDocstrings, BodyDocstrings
<1>2. HeadRows = [k \in 1..6 |-> HeadRows[k]]
  BY DEF HeadRows
<1>3. CodeRows = [k \in 1..9 |-> CodeRows[k]]
  BY DEF CodeRows
<1>4. HeadDocstrings \in Seq(S) /\ BodyDocstrings \in Seq(S) /\ HeadRows \in Seq(S) /\ CodeRows \in Seq(S)
  <2>1. HeadDocstrings \in [1..8 -> S] /\ BodyDocstrings \in [1..8 -> S]
    BY <1>1
  <2>2. HeadRows \in [1..6 -> S] /\ CodeRows \in [1..9 -> S]
    BY <1>2, <1>3
  <2> HIDE DEF S
  <2>3. \A n \in Nat : \A f : f \in [1..n -> S] => f \in Seq(S)
    BY IsASeq
  <2>. QED  BY <2>1, <2>2, <2>3
<1>6. Len(HeadDocstrings) = 8 /\ Len(BodyDocstrings) = 8 /\ Len(HeadRows) = 6 /\ Len(CodeRows) = 9
  BY DocRows DEF HeadRows, CodeRows, HeadDocstrings, BodyDocstrings
<1>7. Transitions = HeadDocstrings \o HeadRows \o BodyDocstrings \o CodeRows
  BY DEF Transitions, HeadRows, CodeRows, HeadDocstrings, BodyDocstrings
<1> HIDE DEF S
<1>8. InTurn(Transitions, HeadDocstrings, HeadRows, BodyDocstrings, CodeRows)
  BY <1>4, <1>7, Four
<1>. QED
  BY <1>6, <1>8 DEF InTurn

\* The table, row by row.
LEMMA Rows ==
  /\ Transitions[1] = T("FILEHEAD", "FILEHEAD", "single1", "appendCommentLine")
  /\ Transitions[2] = T("FILEHEAD", "FILEHEAD", "single2", "appendCommentLine")
  /\ Transitions[3] = T("FILEHEAD", "FILEHEAD_COMMENT_SINGLE", "start1", "appendCommentLine")
  /\ Transitions[4] = T("FILEHEAD_COMMENT_SINGLE", "FILEHEAD", "end1", "appendCommentLine")
  /\ Transitions[5] = T("FILEHEAD_COMMENT_SINGLE", "FILEHEAD_COMMENT_SINGLE", "catchall", "appendCommentLine")
  /\ Transitions[6] = T("FILEHEAD", "FILEHEAD_COMMENT_DOUBLE", "start2", "appendCommentLine")
  /\ Transitions[7] = T("FILEHEAD_COMMENT_DOUBLE", "FILEHEAD", "end2", "appendCommentLine")
  /\ Transitions[8] = T("FILEHEAD_COMMENT_DOUBLE", "FILEHEAD_COMMENT_DOUBLE", "catchall", "appendCommentLine")
  /\ Transitions[9] = T("FILEHEAD", "FILEHEAD", "empty", "appendFileheadLine")
  /\ Transitions[10] = T("FILEHEAD", "FILEHEAD", "hashline", "appendFileheadLine")
  /\ Transitions[11] = T("FILEHEAD", "FILEHEAD", "importline", "appendFileheadLine")
  /\ Transitions[12] = T("FILEHEAD", "DEFCLASS", "defclass", "resetCommentSearch")
  /\ Transitions[13] = T("FILEHEAD", "DEFCLASS_MULTI", "multi_start", "resetCommentSearch")
  /\ Transitions[14] = T("FILEHEAD", "DEFCLASS_BODY", "catchall", "appendFileheadLine")
  /\ Transitions[15] = T("DEFCLASS", "DEFCLASS_BODY", "single1", "appendCommentLine")
  /\ Transitions[16] = T("DEFCLASS", "DEFCLASS_BODY", "single2", "appendCommentLine")
  /\ Transitions[17] = T("DEFCLASS", "COMMENT_SINGLE", "start1", "appendCommentLine")
  /\ Transitions[18] = T("COMMENT_SINGLE", "DEFCLASS_BODY", "end1", "appendCommentLine")
  /\ Transitions[19] = T("COMMENT_SINGLE", "COMMENT_SINGLE", "catchall", "appendCommentLine")
  /\ Transitions[20] = T("DEFCLASS", "COMMENT_DOUBLE", "start2", "appendCommentLine")
  /\ Transitions[21] = T("COMMENT_DOUBLE", "DEFCLASS_BODY", "end2", "appendCommentLine")
  /\ Transitions[22] = T("COMMENT_DOUBLE", "COMMENT_DOUBLE", "catchall", "appendCommentLine")
  /\ Transitions[23] = T("DEFCLASS", "DEFCLASS", "empty", "appendDefclassLine")
  /\ Transitions[24] = T("DEFCLASS", "DEFCLASS", "defclass", "resetCommentSearch")
  /\ Transitions[25] = T("DEFCLASS", "DEFCLASS_MULTI", "multi_start", "resetCommentSearch")
  /\ Transitions[26] = T("DEFCLASS", "DEFCLASS_BODY", "catchall", "stopCommentSearch")
  /\ Transitions[27] = T("DEFCLASS_BODY", "DEFCLASS", "defclass", "startCommentSearch")
  /\ Transitions[28] = T("DEFCLASS_BODY", "DEFCLASS_MULTI", "multi_start", "startCommentSearch")
  /\ Transitions[29] = T("DEFCLASS_BODY", "DEFCLASS_BODY", "catchall", "appendNormalLine")
  /\ Transitions[30] = T("DEFCLASS_MULTI", "DEFCLASS", "multi_end", "appendDefclassLine")
  /\ Transitions[31] = T("DEFCLASS_MULTI", "DEFCLASS_MULTI", "catchall", "appendDefclassLine")
<1>1. /\ Transitions[1] = HeadDocstrings[1]
      /\ Transitions[2] = HeadDocstrings[2]
      /\ Transitions[3] = HeadDocstrings[3]
      /\ Transitions[4] = HeadDocstrings[4]
      /\ Transitions[5] = HeadDocstrings[5]
      /\ Transitions[6] = HeadDocstrings[6]
      /\ Transitions[7] = HeadDocstrings[7]
      /\ Transitions[8] = HeadDocstrings[8]
  <2>1. /\ 1 \in 1..8 /\ 0 + 1 = 1
        /\ 2 \in 1..8 /\ 0 + 2 = 2
        /\ 3 \in 1..8 /\ 0 + 3 = 3
        /\ 4 \in 1..8 /\ 0 + 4 = 4
        /\ 5 \in 1..8 /\ 0 + 5 = 5
        /\ 6 \in 1..8 /\ 0 + 6 = 6
        /\ 7 \in 1..8 /\ 0 + 7 = 7
        /\ 8 \in 1..8 /\ 0 + 8 = 8
    OBVIOUS
  <2>. QED  BY <2>1, Table
<1>2. /\ Transitions[9] = HeadRows[1]
      /\ Transitions[10] = HeadRows[2]
      /\ Transitions[11] = HeadRows[3]
      /\ Transitions[12] = HeadRows[4]
      /\ Transitions[13] = HeadRows[5]
      /\ Transitions[14] = HeadRows[6]
  <2>1. /\ 1 \in 1..6 /\ 8 + 1 = 9
        /\ 2 \in 1..6 /\ 8 + 2 = 10
        /\ 3 \in 1..6 /\ 8 + 3 = 11
        /\ 4 \in 1..6 /\ 8 + 4 = 12
        /\ 5 \in 1..6 /\ 8 + 5 = 13
        /\ 6 \in 1..6 /\ 8 + 6 = 14
    OBVIOUS
  <2>. QED  BY <2>1, Table
<1>3. /\ Transitions[15] = BodyDocstrings[1]
      /\ Transitions[16] = BodyDocstrings[2]
      /\ Transitions[17] = BodyDocstrings[3]
      /\ Transitions[18] = BodyDocstrings[4]
      /\ Transitions[19] = BodyDocstrings[5]
      /\ Transitions[20] = BodyDocstrings[6]
      /\ Transitions[21] = BodyDocstrings[7]
      /\ Transitions[22] = BodyDocstrings[8]
  <2>1. /\ 1 \in 1..8 /\ 14 + 1 = 15
        /\ 2 \in 1..8 /\ 14 + 2 = 16
        /\ 3 \in 1..8 /\ 14 + 3 = 17
        /\ 4 \in 1..8 /\ 14 + 4 = 18
        /\ 5 \in 1..8 /\ 14 + 5 = 19
        /\ 6 \in 1..8 /\ 14 + 6 = 20
        /\ 7 \in 1..8 /\ 14 + 7 = 21
        /\ 8 \in 1..8 /\ 14 + 8 = 22
    OBVIOUS
  <2>. QED  BY <2>1, Table
<1>4. /\ Transitions[23] = CodeRows[1]
      /\ Transitions[24] = CodeRows[2]
      /\ Transitions[25] = CodeRows[3]
      /\ Transitions[26] = CodeRows[4]
      /\ Transitions[27] = CodeRows[5]
      /\ Transitions[28] = CodeRows[6]
      /\ Transitions[29] = CodeRows[7]
      /\ Transitions[30] = CodeRows[8]
      /\ Transitions[31] = CodeRows[9]
  <2>1. /\ 1 \in 1..9 /\ 22 + 1 = 23
        /\ 2 \in 1..9 /\ 22 + 2 = 24
        /\ 3 \in 1..9 /\ 22 + 3 = 25
        /\ 4 \in 1..9 /\ 22 + 4 = 26
        /\ 5 \in 1..9 /\ 22 + 5 = 27
        /\ 6 \in 1..9 /\ 22 + 6 = 28
        /\ 7 \in 1..9 /\ 22 + 7 = 29
        /\ 8 \in 1..9 /\ 22 + 8 = 30
        /\ 9 \in 1..9 /\ 22 + 9 = 31
    OBVIOUS
  <2>. QED  BY <2>1, Table
<1>. QED
  BY <1>1, <1>2, <1>3, <1>4, DocRows DEF HeadDocstrings, BodyDocstrings, HeadRows, CodeRows

\* Where some row fits the line, TransitionFor takes the first that does.
LEMMA Taken ==
  ASSUME NEW s, NEW line, NEW c \in 1..31,
         Transitions[c].from = s, Matches(Transitions[c], line)
  PROVE  \E k \in 1..31 :
           /\ TransitionFor(s, line) = Transitions[k]
           /\ Transitions[k].from = s /\ Matches(Transitions[k], line)
           /\ \A j \in 1..(k - 1) : ~ /\ Transitions[j].from = s
                                      /\ Matches(Transitions[j], line)
<1> DEFINE Fits(k) == Transitions[k].from = s /\ Matches(Transitions[k], line)
           K == {k \in 1..31 : Fits(k)}
<1>1. K \subseteq Nat /\ K # {}
  OBVIOUS
<1>2. PICK k \in K : \A j \in K : ~ (j < k)
  <2>1. PICK k \in K : \A y \in K : <<y, k>> \notin OpToRel(<, Nat)
    BY <1>1, NatLessThanWellFounded, WFMin, Zenon
  <2>. QED  BY <1>1, <2>1 DEF OpToRel
<1>3. k \in 1..31 /\ Fits(k)
  OBVIOUS
<1>4. \A j \in 1..(k - 1) : ~ Fits(j)
  BY <1>2, <1>3
<1>5. DOMAIN Transitions = 1..31
  BY Table
<1> DEFINE P(i) == Fits(i) /\ \A j \in 1..(i - 1) : ~ Fits(j)
           i == CHOOSE i \in DOMAIN Transitions : P(i)
<1>6. i \in 1..31 /\ P(i)
  <2>1. \E x \in DOMAIN Transitions : P(x)
    BY <1>3, <1>4, <1>5
  <2> HIDE DEF P
  <2>2. i \in DOMAIN Transitions /\ P(i)
    BY <2>1
  <2>. QED  BY <2>2, <1>5
<1>7. TransitionFor(s, line) = Transitions[i]
  BY DEF TransitionFor
<1>. QED  BY <1>6, <1>7

\* A row is one of the thirty-one.
LEMMA AllRows ==
  ASSUME NEW k \in 1..31
  PROVE  \/ k = 1 \/ k = 2 \/ k = 3 \/ k = 4 \/ k = 5 \/ k = 6 \/ k = 7 \/ k = 8
         \/ k = 9 \/ k = 10 \/ k = 11 \/ k = 12 \/ k = 13 \/ k = 14 \/ k = 15 \/ k = 16
         \/ k = 17 \/ k = 18 \/ k = 19 \/ k = 20 \/ k = 21 \/ k = 22 \/ k = 23 \/ k = 24
         \/ k = 25 \/ k = 26 \/ k = 27 \/ k = 28 \/ k = 29 \/ k = 30 \/ k = 31
OBVIOUS

\* What the first row that fits is, from each state.
LEMMA FromFilehead ==
  ASSUME NEW line \in Shapes, NEW t, t = TransitionFor("FILEHEAD", line)
  PROVE   \/ /\ t.to = "FILEHEAD" /\ t.callback = "appendCommentLine"
          \/ /\ t.to \in {"FILEHEAD_COMMENT_SINGLE", "FILEHEAD_COMMENT_DOUBLE"}
             /\ t.callback = "appendCommentLine"
          \/ /\ t.to = "FILEHEAD" /\ t.callback = "appendFileheadLine"
             /\ "multi_start" \notin line /\ "defclass" \notin line
          \/ /\ t.to = "DEFCLASS" /\ t.callback = "resetCommentSearch"
             /\ "defclass" \in line
          \/ /\ t.to = "DEFCLASS_MULTI" /\ t.callback = "resetCommentSearch"
             /\ "multi_start" \in line /\ "defclass" \notin line
          \/ /\ t.to = "DEFCLASS_BODY" /\ t.callback = "appendFileheadLine"
             /\ "multi_start" \notin line /\ "defclass" \notin line
<1>1. PICK k \in 1..31 :
           /\ t = Transitions[k]
           /\ Transitions[k].from = "FILEHEAD" /\ Matches(Transitions[k], line)
           /\ \A j \in 1..(k - 1) : ~ /\ Transitions[j].from = "FILEHEAD"
                                      /\ Matches(Transitions[j], line)
  <2>1. /\ 14 \in 1..31 /\ Transitions[14].from = "FILEHEAD"
        /\ Matches(Transitions[14], line)
    BY Rows DEF T, Matches
  <2>. QED  BY <2>1, Taken
<1>2. k \in {1, 2, 3, 6, 9, 10, 11, 12, 13, 14}
  BY <1>1, AllRows, Rows DEF T
<1>3. CASE k = 1
  BY <1>1, <1>3, Rows DEF T, Matches
<1>4. CASE k = 2
  <2>1. /\ ~ Matches(Transitions[1], line)
    <3>1. /\ 1 \in 1..(k - 1)
      BY <1>4
    <3>. QED  BY <3>1, <1>1, Rows DEF T
  <2>. QED  BY <2>1, <1>1, <1>4, Rows DEF T, Matches
<1>5. CASE k = 3
  <2>1. /\ ~ Matches(Transitions[1], line)
        /\ ~ Matches(Transitions[2], line)
    <3>1. /\ 1 \in 1..(k - 1)
          /\ 2 \in 1..(k - 1)
      BY <1>5
    <3>. QED  BY <3>1, <1>1, Rows DEF T
  <2>. QED  BY <2>1, <1>1, <1>5, Rows DEF T, Matches
<1>6. CASE k = 6
  <2>1. /\ ~ Matches(Transitions[1], line)
        /\ ~ Matches(Transitions[2], line)
        /\ ~ Matches(Transitions[3], line)
    <3>1. /\ 1 \in 1..(k - 1)
          /\ 2 \in 1..(k - 1)
          /\ 3 \in 1..(k - 1)
      BY <1>6
    <3>. QED  BY <3>1, <1>1, Rows DEF T
  <2>. QED  BY <2>1, <1>1, <1>6, Rows DEF T, Matches
<1>7. CASE k = 9
  <2>1. /\ ~ Matches(Transitions[1], line)
        /\ ~ Matches(Transitions[2], line)
        /\ ~ Matches(Transitions[3], line)
        /\ ~ Matches(Transitions[6], line)
    <3>1. /\ 1 \in 1..(k - 1)
          /\ 2 \in 1..(k - 1)
          /\ 3 \in 1..(k - 1)
          /\ 6 \in 1..(k - 1)
      BY <1>7
    <3>. QED  BY <3>1, <1>1, Rows DEF T
  <2>. QED  BY <2>1, <1>1, <1>7, Rows, ShapeFacts DEF T, Matches
<1>8. CASE k = 10
  <2>1. /\ ~ Matches(Transitions[1], line)
        /\ ~ Matches(Transitions[2], line)
        /\ ~ Matches(Transitions[3], line)
        /\ ~ Matches(Transitions[6], line)
        /\ ~ Matches(Transitions[9], line)
    <3>1. /\ 1 \in 1..(k - 1)
          /\ 2 \in 1..(k - 1)
          /\ 3 \in 1..(k - 1)
          /\ 6 \in 1..(k - 1)
          /\ 9 \in 1..(k - 1)
      BY <1>8
    <3>. QED  BY <3>1, <1>1, Rows DEF T
  <2>. QED  BY <2>1, <1>1, <1>8, Rows, ShapeFacts DEF T, Matches
<1>9. CASE k = 11
  <2>1. /\ ~ Matches(Transitions[1], line)
        /\ ~ Matches(Transitions[2], line)
        /\ ~ Matches(Transitions[3], line)
        /\ ~ Matches(Transitions[6], line)
        /\ ~ Matches(Transitions[9], line)
        /\ ~ Matches(Transitions[10], line)
    <3>1. /\ 1 \in 1..(k - 1)
          /\ 2 \in 1..(k - 1)
          /\ 3 \in 1..(k - 1)
          /\ 6 \in 1..(k - 1)
          /\ 9 \in 1..(k - 1)
          /\ 10 \in 1..(k - 1)
      BY <1>9
    <3>. QED  BY <3>1, <1>1, Rows DEF T
  <2>. QED  BY <2>1, <1>1, <1>9, Rows, ShapeFacts DEF T, Matches
<1>10. CASE k = 12
  <2>1. /\ ~ Matches(Transitions[1], line)
        /\ ~ Matches(Transitions[2], line)
        /\ ~ Matches(Transitions[3], line)
        /\ ~ Matches(Transitions[6], line)
        /\ ~ Matches(Transitions[9], line)
        /\ ~ Matches(Transitions[10], line)
        /\ ~ Matches(Transitions[11], line)
    <3>1. /\ 1 \in 1..(k - 1)
          /\ 2 \in 1..(k - 1)
          /\ 3 \in 1..(k - 1)
          /\ 6 \in 1..(k - 1)
          /\ 9 \in 1..(k - 1)
          /\ 10 \in 1..(k - 1)
          /\ 11 \in 1..(k - 1)
      BY <1>10
    <3>. QED  BY <3>1, <1>1, Rows DEF T
  <2>. QED  BY <2>1, <1>1, <1>10, Rows DEF T, Matches
<1>11. CASE k = 13
  <2>1. /\ ~ Matches(Transitions[1], line)
        /\ ~ Matches(Transitions[2], line)
        /\ ~ Matches(Transitions[3], line)
        /\ ~ Matches(Transitions[6], line)
        /\ ~ Matches(Transitions[9], line)
        /\ ~ Matches(Transitions[10], line)
        /\ ~ Matches(Transitions[11], line)
        /\ ~ Matches(Transitions[12], line)
    <3>1. /\ 1 \in 1..(k - 1)
          /\ 2 \in 1..(k - 1)
          /\ 3 \in 1..(k - 1)
          /\ 6 \in 1..(k - 1)
          /\ 9 \in 1..(k - 1)
          /\ 10 \in 1..(k - 1)
          /\ 11 \in 1..(k - 1)
          /\ 12 \in 1..(k - 1)
      BY <1>11
    <3>. QED  BY <3>1, <1>1, Rows DEF T
  <2>. QED  BY <2>1, <1>1, <1>11, Rows DEF T, Matches
<1>12. CASE k = 14
  <2>1. /\ ~ Matches(Transitions[1], line)
        /\ ~ Matches(Transitions[2], line)
        /\ ~ Matches(Transitions[3], line)
        /\ ~ Matches(Transitions[6], line)
        /\ ~ Matches(Transitions[9], line)
        /\ ~ Matches(Transitions[10], line)
        /\ ~ Matches(Transitions[11], line)
        /\ ~ Matches(Transitions[12], line)
        /\ ~ Matches(Transitions[13], line)
    <3>1. /\ 1 \in 1..(k - 1)
          /\ 2 \in 1..(k - 1)
          /\ 3 \in 1..(k - 1)
          /\ 6 \in 1..(k - 1)
          /\ 9 \in 1..(k - 1)
          /\ 10 \in 1..(k - 1)
          /\ 11 \in 1..(k - 1)
          /\ 12 \in 1..(k - 1)
          /\ 13 \in 1..(k - 1)
      BY <1>12
    <3>. QED  BY <3>1, <1>1, Rows DEF T
  <2>. QED  BY <2>1, <1>1, <1>12, Rows DEF T, Matches
<1>. QED
  BY <1>2, <1>3, <1>4, <1>5, <1>6, <1>7, <1>8, <1>9, <1>10, <1>11, <1>12

\* In a docstring of the file in single quotes: on, or out of it.
LEMMA FromFileheadSingle ==
  ASSUME NEW line \in Shapes, NEW t, t = TransitionFor("FILEHEAD_COMMENT_SINGLE", line)
  PROVE   /\ t.callback = "appendCommentLine"
          /\ t.to \in {"FILEHEAD", "FILEHEAD_COMMENT_SINGLE"}
<1>1. PICK k \in 1..31 :
           /\ t = Transitions[k]
           /\ Transitions[k].from = "FILEHEAD_COMMENT_SINGLE" /\ Matches(Transitions[k], line)
           /\ \A j \in 1..(k - 1) : ~ /\ Transitions[j].from = "FILEHEAD_COMMENT_SINGLE"
                                      /\ Matches(Transitions[j], line)
  <2>1. /\ 5 \in 1..31 /\ Transitions[5].from = "FILEHEAD_COMMENT_SINGLE"
        /\ Matches(Transitions[5], line)
    BY Rows DEF T, Matches
  <2>. QED  BY <2>1, Taken
<1>2. k \in {4, 5}
  BY <1>1, AllRows, Rows DEF T
<1>3. CASE k = 4
  BY <1>1, <1>3, Rows DEF T, Matches
<1>4. CASE k = 5
  <2>1. /\ ~ Matches(Transitions[4], line)
    <3>1. /\ 4 \in 1..(k - 1)
      BY <1>4
    <3>. QED  BY <3>1, <1>1, Rows DEF T
  <2>. QED  BY <2>1, <1>1, <1>4, Rows DEF T, Matches
<1>. QED
  BY <1>2, <1>3, <1>4

\* The same in double quotes.
LEMMA FromFileheadDouble ==
  ASSUME NEW line \in Shapes, NEW t, t = TransitionFor("FILEHEAD_COMMENT_DOUBLE", line)
  PROVE   /\ t.callback = "appendCommentLine"
          /\ t.to \in {"FILEHEAD", "FILEHEAD_COMMENT_DOUBLE"}
<1>1. PICK k \in 1..31 :
           /\ t = Transitions[k]
           /\ Transitions[k].from = "FILEHEAD_COMMENT_DOUBLE" /\ Matches(Transitions[k], line)
           /\ \A j \in 1..(k - 1) : ~ /\ Transitions[j].from = "FILEHEAD_COMMENT_DOUBLE"
                                      /\ Matches(Transitions[j], line)
  <2>1. /\ 8 \in 1..31 /\ Transitions[8].from = "FILEHEAD_COMMENT_DOUBLE"
        /\ Matches(Transitions[8], line)
    BY Rows DEF T, Matches
  <2>. QED  BY <2>1, Taken
<1>2. k \in {7, 8}
  BY <1>1, AllRows, Rows DEF T
<1>3. CASE k = 7
  BY <1>1, <1>3, Rows DEF T, Matches
<1>4. CASE k = 8
  <2>1. /\ ~ Matches(Transitions[7], line)
    <3>1. /\ 7 \in 1..(k - 1)
      BY <1>4
    <3>. QED  BY <3>1, <1>1, Rows DEF T
  <2>. QED  BY <2>1, <1>1, <1>4, Rows DEF T, Matches
<1>. QED
  BY <1>2, <1>3, <1>4

\* After the header of a definition: its docstring, more header, or the body.
LEMMA FromDefclass ==
  ASSUME NEW line \in Shapes, NEW t, t = TransitionFor("DEFCLASS", line)
  PROVE   \/ /\ t.to = "DEFCLASS_BODY" /\ t.callback = "appendCommentLine"
             /\ "single1" \in line \/ "single2" \in line
          \/ /\ t.to = "COMMENT_SINGLE" /\ t.callback = "appendCommentLine"
             /\ "start1" \in line /\ "single1" \notin line
          \/ /\ t.to = "COMMENT_DOUBLE" /\ t.callback = "appendCommentLine"
             /\ "start2" \in line /\ "single2" \notin line
          \/ /\ t.to = "DEFCLASS" /\ t.callback = "appendDefclassLine"
             /\ line = {"empty"}
          \/ /\ t.to = "DEFCLASS" /\ t.callback = "resetCommentSearch"
             /\ "defclass" \in line
          \/ /\ t.to = "DEFCLASS_MULTI" /\ t.callback = "resetCommentSearch"
             /\ "multi_start" \in line /\ "defclass" \notin line
          \/ /\ t.to = "DEFCLASS_BODY" /\ t.callback = "stopCommentSearch"
             /\ line \cap {"single1", "start1", "single2", "start2", "empty",
                         "defclass", "multi_start"} = {}
<1>1. PICK k \in 1..31 :
           /\ t = Transitions[k]
           /\ Transitions[k].from = "DEFCLASS" /\ Matches(Transitions[k], line)
           /\ \A j \in 1..(k - 1) : ~ /\ Transitions[j].from = "DEFCLASS"
                                      /\ Matches(Transitions[j], line)
  <2>1. /\ 26 \in 1..31 /\ Transitions[26].from = "DEFCLASS"
        /\ Matches(Transitions[26], line)
    BY Rows DEF T, Matches
  <2>. QED  BY <2>1, Taken
<1>2. k \in {15, 16, 17, 20, 23, 24, 25, 26}
  BY <1>1, AllRows, Rows DEF T
<1>3. CASE k = 15
  BY <1>1, <1>3, Rows DEF T, Matches
<1>4. CASE k = 16
  <2>1. /\ ~ Matches(Transitions[15], line)
    <3>1. /\ 15 \in 1..(k - 1)
      BY <1>4
    <3>. QED  BY <3>1, <1>1, Rows DEF T
  <2>. QED  BY <2>1, <1>1, <1>4, Rows DEF T, Matches
<1>5. CASE k = 17
  <2>1. /\ ~ Matches(Transitions[15], line)
        /\ ~ Matches(Transitions[16], line)
    <3>1. /\ 15 \in 1..(k - 1)
          /\ 16 \in 1..(k - 1)
      BY <1>5
    <3>. QED  BY <3>1, <1>1, Rows DEF T
  <2>. QED  BY <2>1, <1>1, <1>5, Rows DEF T, Matches
<1>6. CASE k = 20
  <2>1. /\ ~ Matches(Transitions[15], line)
        /\ ~ Matches(Transitions[16], line)
        /\ ~ Matches(Transitions[17], line)
    <3>1. /\ 15 \in 1..(k - 1)
          /\ 16 \in 1..(k - 1)
          /\ 17 \in 1..(k - 1)
      BY <1>6
    <3>. QED  BY <3>1, <1>1, Rows DEF T
  <2>. QED  BY <2>1, <1>1, <1>6, Rows DEF T, Matches
<1>7. CASE k = 23
  <2>1. /\ ~ Matches(Transitions[15], line)
        /\ ~ Matches(Transitions[16], line)
        /\ ~ Matches(Transitions[17], line)
        /\ ~ Matches(Transitions[20], line)
    <3>1. /\ 15 \in 1..(k - 1)
          /\ 16 \in 1..(k - 1)
          /\ 17 \in 1..(k - 1)
          /\ 20 \in 1..(k - 1)
      BY <1>7
    <3>. QED  BY <3>1, <1>1, Rows DEF T
  <2>. QED  BY <2>1, <1>1, <1>7, Rows, ShapeFacts DEF T, Matches
<1>8. CASE k = 24
  <2>1. /\ ~ Matches(Transitions[15], line)
        /\ ~ Matches(Transitions[16], line)
        /\ ~ Matches(Transitions[17], line)
        /\ ~ Matches(Transitions[20], line)
        /\ ~ Matches(Transitions[23], line)
    <3>1. /\ 15 \in 1..(k - 1)
          /\ 16 \in 1..(k - 1)
          /\ 17 \in 1..(k - 1)
          /\ 20 \in 1..(k - 1)
          /\ 23 \in 1..(k - 1)
      BY <1>8
    <3>. QED  BY <3>1, <1>1, Rows DEF T
  <2>. QED  BY <2>1, <1>1, <1>8, Rows, ShapeFacts DEF T, Matches
<1>9. CASE k = 25
  <2>1. /\ ~ Matches(Transitions[15], line)
        /\ ~ Matches(Transitions[16], line)
        /\ ~ Matches(Transitions[17], line)
        /\ ~ Matches(Transitions[20], line)
        /\ ~ Matches(Transitions[23], line)
        /\ ~ Matches(Transitions[24], line)
    <3>1. /\ 15 \in 1..(k - 1)
          /\ 16 \in 1..(k - 1)
          /\ 17 \in 1..(k - 1)
          /\ 20 \in 1..(k - 1)
          /\ 23 \in 1..(k - 1)
          /\ 24 \in 1..(k - 1)
      BY <1>9
    <3>. QED  BY <3>1, <1>1, Rows DEF T
  <2>. QED  BY <2>1, <1>1, <1>9, Rows, ShapeFacts DEF T, Matches
<1>10. CASE k = 26
  <2>1. /\ ~ Matches(Transitions[15], line)
        /\ ~ Matches(Transitions[16], line)
        /\ ~ Matches(Transitions[17], line)
        /\ ~ Matches(Transitions[20], line)
        /\ ~ Matches(Transitions[23], line)
        /\ ~ Matches(Transitions[24], line)
        /\ ~ Matches(Transitions[25], line)
    <3>1. /\ 15 \in 1..(k - 1)
          /\ 16 \in 1..(k - 1)
          /\ 17 \in 1..(k - 1)
          /\ 20 \in 1..(k - 1)
          /\ 23 \in 1..(k - 1)
          /\ 24 \in 1..(k - 1)
          /\ 25 \in 1..(k - 1)
      BY <1>10
    <3>. QED  BY <3>1, <1>1, Rows DEF T
  <2>. QED  BY <2>1, <1>1, <1>10, Rows DEF T, Matches
<1>. QED
  BY <1>2, <1>3, <1>4, <1>5, <1>6, <1>7, <1>8, <1>9, <1>10

\* In a docstring of a definition in single quotes: on, or out of it.
LEMMA FromSingle ==
  ASSUME NEW line \in Shapes, NEW t, t = TransitionFor("COMMENT_SINGLE", line)
  PROVE   /\ t.callback = "appendCommentLine"
          /\ t.to = IF "end1" \in line THEN "DEFCLASS_BODY" ELSE "COMMENT_SINGLE"
<1>1. PICK k \in 1..31 :
           /\ t = Transitions[k]
           /\ Transitions[k].from = "COMMENT_SINGLE" /\ Matches(Transitions[k], line)
           /\ \A j \in 1..(k - 1) : ~ /\ Transitions[j].from = "COMMENT_SINGLE"
                                      /\ Matches(Transitions[j], line)
  <2>1. /\ 19 \in 1..31 /\ Transitions[19].from = "COMMENT_SINGLE"
        /\ Matches(Transitions[19], line)
    BY Rows DEF T, Matches
  <2>. QED  BY <2>1, Taken
<1>2. k \in {18, 19}
  BY <1>1, AllRows, Rows DEF T
<1>3. CASE k = 18
  BY <1>1, <1>3, Rows DEF T, Matches
<1>4. CASE k = 19
  <2>1. /\ ~ Matches(Transitions[18], line)
    <3>1. /\ 18 \in 1..(k - 1)
      BY <1>4
    <3>. QED  BY <3>1, <1>1, Rows DEF T
  <2>. QED  BY <2>1, <1>1, <1>4, Rows DEF T, Matches
<1>. QED
  BY <1>2, <1>3, <1>4

\* The same in double quotes.
LEMMA FromDouble ==
  ASSUME NEW line \in Shapes, NEW t, t = TransitionFor("COMMENT_DOUBLE", line)
  PROVE   /\ t.callback = "appendCommentLine"
          /\ t.to = IF "end2" \in line THEN "DEFCLASS_BODY" ELSE "COMMENT_DOUBLE"
<1>1. PICK k \in 1..31 :
           /\ t = Transitions[k]
           /\ Transitions[k].from = "COMMENT_DOUBLE" /\ Matches(Transitions[k], line)
           /\ \A j \in 1..(k - 1) : ~ /\ Transitions[j].from = "COMMENT_DOUBLE"
                                      /\ Matches(Transitions[j], line)
  <2>1. /\ 22 \in 1..31 /\ Transitions[22].from = "COMMENT_DOUBLE"
        /\ Matches(Transitions[22], line)
    BY Rows DEF T, Matches
  <2>. QED  BY <2>1, Taken
<1>2. k \in {21, 22}
  BY <1>1, AllRows, Rows DEF T
<1>3. CASE k = 21
  BY <1>1, <1>3, Rows DEF T, Matches
<1>4. CASE k = 22
  <2>1. /\ ~ Matches(Transitions[21], line)
    <3>1. /\ 21 \in 1..(k - 1)
      BY <1>4
    <3>. QED  BY <3>1, <1>1, Rows DEF T
  <2>. QED  BY <2>1, <1>1, <1>4, Rows DEF T, Matches
<1>. QED
  BY <1>2, <1>3, <1>4

\* In the body of a definition: the next header, or more of the body.
LEMMA FromBody ==
  ASSUME NEW line \in Shapes, NEW t, t = TransitionFor("DEFCLASS_BODY", line)
  PROVE   \/ /\ t.to = "DEFCLASS" /\ t.callback = "startCommentSearch"
             /\ "defclass" \in line
          \/ /\ t.to = "DEFCLASS_MULTI" /\ t.callback = "startCommentSearch"
             /\ "multi_start" \in line /\ "defclass" \notin line
          \/ /\ t.to = "DEFCLASS_BODY" /\ t.callback = "appendNormalLine"
             /\ "multi_start" \notin line /\ "defclass" \notin line
<1>1. PICK k \in 1..31 :
           /\ t = Transitions[k]
           /\ Transitions[k].from = "DEFCLASS_BODY" /\ Matches(Transitions[k], line)
           /\ \A j \in 1..(k - 1) : ~ /\ Transitions[j].from = "DEFCLASS_BODY"
                                      /\ Matches(Transitions[j], line)
  <2>1. /\ 29 \in 1..31 /\ Transitions[29].from = "DEFCLASS_BODY"
        /\ Matches(Transitions[29], line)
    BY Rows DEF T, Matches
  <2>. QED  BY <2>1, Taken
<1>2. k \in {27, 28, 29}
  BY <1>1, AllRows, Rows DEF T
<1>3. CASE k = 27
  BY <1>1, <1>3, Rows DEF T, Matches
<1>4. CASE k = 28
  <2>1. /\ ~ Matches(Transitions[27], line)
    <3>1. /\ 27 \in 1..(k - 1)
      BY <1>4
    <3>. QED  BY <3>1, <1>1, Rows DEF T
  <2>. QED  BY <2>1, <1>1, <1>4, Rows DEF T, Matches
<1>5. CASE k = 29
  <2>1. /\ ~ Matches(Transitions[27], line)
        /\ ~ Matches(Transitions[28], line)
    <3>1. /\ 27 \in 1..(k - 1)
          /\ 28 \in 1..(k - 1)
      BY <1>5
    <3>. QED  BY <3>1, <1>1, Rows DEF T
  <2>. QED  BY <2>1, <1>1, <1>5, Rows DEF T, Matches
<1>. QED
  BY <1>2, <1>3, <1>4, <1>5

\* In a header of several lines: its end, or more of it.
LEMMA FromMulti ==
  ASSUME NEW line \in Shapes, NEW t, t = TransitionFor("DEFCLASS_MULTI", line)
  PROVE   /\ t.callback = "appendDefclassLine"
          /\ t.to = IF "multi_end" \in line THEN "DEFCLASS" ELSE "DEFCLASS_MULTI"
<1>1. PICK k \in 1..31 :
           /\ t = Transitions[k]
           /\ Transitions[k].from = "DEFCLASS_MULTI" /\ Matches(Transitions[k], line)
           /\ \A j \in 1..(k - 1) : ~ /\ Transitions[j].from = "DEFCLASS_MULTI"
                                      /\ Matches(Transitions[j], line)
  <2>1. /\ 31 \in 1..31 /\ Transitions[31].from = "DEFCLASS_MULTI"
        /\ Matches(Transitions[31], line)
    BY Rows DEF T, Matches
  <2>. QED  BY <2>1, Taken
<1>2. k \in {30, 31}
  BY <1>1, AllRows, Rows DEF T
<1>3. CASE k = 30
  BY <1>1, <1>3, Rows DEF T, Matches
<1>4. CASE k = 31
  <2>1. /\ ~ Matches(Transitions[30], line)
    <3>1. /\ 30 \in 1..(k - 1)
      BY <1>4
    <3>. QED  BY <3>1, <1>1, Rows DEF T
  <2>. QED  BY <2>1, <1>1, <1>4, Rows DEF T, Matches
<1>. QED
  BY <1>2, <1>3, <1>4

-----------------------------------------------------------------------------
(* The inductive invariant.                                                *)

\* The states by what waits in them.
HeadStates == {"FILEHEAD", "FILEHEAD_COMMENT_SINGLE", "FILEHEAD_COMMENT_DOUBLE"}
HeaderStates == {"DEFCLASS", "DEFCLASS_MULTI"}
DocstringStates == {"COMMENT_SINGLE", "COMMENT_DOUBLE"}

\* An entry of the output.
Entry == [line : Nat, block : BOOLEAN, indent : Nat]

\* The types of the variables.
DoxypyTypes ==
  /\ file \in Seq(Shapes)
  /\ state \in HeadStates \cup HeaderStates \cup DocstringStates \cup {"DEFCLASS_BODY"}
  /\ output \in Seq(Entry)
  /\ comment \in Seq(Nat) /\ defclass \in Seq(Nat)
  /\ indent \in Nat /\ ended \in BOOLEAN

\* The numbers increase.
Increasing(seq) == \A p, q \in DOMAIN seq : p < q => seq[p] < seq[q]

\* A definition waits with the lines after it in the states between it and its
\* body, its docstring after it; there is none in the head of the file, nor in a
\* body.
Buffers ==
  /\ state \in HeadStates => defclass = <<>> /\ indent = 0
  /\ state = "DEFCLASS_BODY" => defclass = <<>>
  /\ state \in HeaderStates => comment = <<>>
  /\ state \in HeaderStates \cup DocstringStates =>
       /\ defclass # <<>> /\ indent = defclass[1]
       /\ indent \in 1..Len(file) /\ Defines(indent)
       /\ \A k \in DOMAIN comment : indent < comment[k]
  /\ Increasing(comment) /\ Increasing(defclass)

\* No callback has lost a line that waits, and none has closed one again.
AllOut == state = "DEFCLASS_BODY" \/ (ended /\ state = "DEFCLASS")
LinesOnce ==
  /\ NoneTwice(Written)
  /\ AllOut => Lines(Written) = 1..Len(file)
  /\ ~AllOut =>
       /\ Lines(Written) \cup Lines(comment) \cup Lines(defclass) = 1..Len(file)
       /\ Lines(Written) \cap Lines(comment) = {}
       /\ Lines(Written) \cap Lines(defclass) = {}
       /\ Lines(comment) \cap Lines(defclass) = {}

\* The lines of code that are out precede those that wait.
CodeFirst ==
  ~ended => \A p \in DOMAIN output, k \in DOMAIN defclass :
              ~output[p].block => output[p].line < defclass[k]

\* In the head of the file what is out precedes the docstring, and is none of the
\* lines that define something.
HeadFirst ==
  state \in HeadStates =>
    \A p \in DOMAIN output :
      /\ \A k \in DOMAIN comment : output[p].line < comment[k]
      /\ ~output[p].block => ~Defines(output[p].line)

\* Line h of f ends the header that line d begins, as HeaderEnds has it.
HeaderOf(f, d, h) ==
  /\ "multi_start" \in f[d]
  /\ IF "defclass" \in f[d] THEN h = d
     ELSE /\ d < h /\ "multi_end" \in f[h]
          /\ \A k \in (d + 1)..(h - 1) : "multi_end" \notin f[k]

\* The header that line m begins is open at line d, as InHeader has it.
OpenAt(f, m, d) ==
  /\ m < d /\ "multi_start" \in f[m] /\ "defclass" \notin f[m]
  /\ \A k \in (m + 1)..(d - 1) : "multi_end" \notin f[k]

\* Line d is one of a header that is out.
Held(o, f, d) == \E q \in DOMAIN o : ~o[q].block /\ OpenAt(f, o[q].line, d)

\* Only empty lines between d and l.
EmptyBetween(f, d, l) == \A k \in (d + 1)..(l - 1) : f[k] = {"empty"}

Quotes == {<<"single1", "start1", "end1">>, <<"single2", "start2", "end2">>}

\* The docstring from l to e, in the quotes q.
DocstringOf(f, l, e, q) ==
  IF q[1] \in f[l] THEN e = l
  ELSE /\ q[2] \in f[l] /\ q[3] \in f[e] /\ l < e
       /\ \A k \in (l + 1)..(e - 1) : q[3] \notin f[k]

\* The lines from l to e are in the block of line d before place p of o.
InBlock(o, p, d, l, e) ==
  \A k \in l..e : \E q \in 1..(p - 1) :
    o[q] = [line |-> k, block |-> TRUE, indent |-> d]

\* After the header of definition d a line came that is not empty, and is either
\* no start of a docstring or the first line of one that is out.
Settled(o, f, p, d) ==
  \E h \in d..Len(f), l \in 1..Len(f) :
    /\ HeaderOf(f, d, h) /\ h < l /\ EmptyBetween(f, h, l) /\ f[l] # {"empty"}
    /\ \/ f[l] \cap {"single1", "start1", "single2", "start2"} = {}
       \/ \E e \in l..Len(f) :
            /\ \E q \in Quotes : DocstringOf(f, l, e, q)
            /\ InBlock(o, p, d, l, e)

\* The header of d has ended, and only empty lines came after it.
Alone(f, d) ==
  \E h \in d..Len(f) : HeaderOf(f, d, h) /\ EmptyBetween(f, h, Len(f) + 1)

\* Code that is out has its docstring, unless only empty lines were left, or it is
\* in the header of other code that is out.
CodeSettled ==
  \A p \in DOMAIN output :
    LET d == output[p].line
    IN  ~output[p].block /\ Defines(d) =>
          \/ Held(output, file, d)
          \/ Settled(output, file, p, d)
          \/ ended /\ Alone(file, d)

\* The docstring c began in the first line after line h that is not empty, and
\* goes up to the last line read.
Gathering(f, h, c, q) ==
  /\ c # <<>> /\ c[1] + Len(c) = Len(f) + 1 /\ h < c[1]
  /\ \A k \in DOMAIN c : c[k] = c[1] + (k - 1)
  /\ EmptyBetween(f, h, c[1])
  /\ q[2] \in f[c[1]] /\ q[1] \notin f[c[1]]
  /\ \A k \in (c[1] + 1)..Len(f) : q[3] \notin f[k]

\* The docstring of the definition that waits is being gathered.
Gathered(q) ==
  \E h \in indent..Len(file) :
    HeaderOf(file, indent, h) /\ Gathering(file, h, comment, q)

\* What is known of the definition that waits.
HeaderSettled ==
  /\ state \in HeaderStates \cup DocstringStates =>
       \A k \in DOMAIN defclass :
         k > 1 /\ Defines(defclass[k]) => OpenAt(file, indent, defclass[k])
  /\ state = "DEFCLASS_MULTI" => OpenAt(file, indent, Len(file) + 1)
  /\ state = "DEFCLASS" => Alone(file, indent)
  /\ state = "COMMENT_SINGLE" => Gathered(<<"single1", "start1", "end1">>)
  /\ state = "COMMENT_DOUBLE" => Gathered(<<"single2", "start2", "end2">>)

\* The docstring that entry p of o is of follows the header of its definition.
BelowHeader(o, f, p) ==
  \E h \in (o[p].indent)..(o[p].line - 1) :
    /\ HeaderOf(f, o[p].indent, h)
    /\ \A k \in (h + 1)..(o[p].line - 1) :
         \/ f[k] = {"empty"}
         \/ \E q \in 1..(p - 1) :
              o[q] = [line |-> k, block |-> TRUE, indent |-> o[p].indent]

\* Every docstring of a definition that is out does so.
BlocksBelow(o, f) ==
  \A p \in DOMAIN o : o[p].block /\ o[p].indent # 0 => BelowHeader(o, f, p)

-----------------------------------------------------------------------------
(* What a closed buffer adds to the output.                                *)

\* CommentBlock with the indentation of line i, and both buffers closed.
Block(lines, i) ==
  [k \in DOMAIN lines |-> [line |-> lines[k], block |-> TRUE, indent |-> i]]
Close(o, a, i, b) == o \o Block(a, i) \o AsIs(b)

\* A block is entries, and so is code.
LEMMA BlockIsEntries ==
  ASSUME NEW a \in Seq(Nat), NEW i \in Nat
  PROVE  /\ Block(a, i) \in Seq(Entry) /\ Len(Block(a, i)) = Len(a)
         /\ \A k \in 1..Len(a) : Block(a, i)[k] = [line |-> a[k], block |-> TRUE, indent |-> i]
<1> DEFINE l == Len(a)  g == Block(a, i)
<1>1. l \in Nat /\ DOMAIN a = 1..l /\ \A k \in 1..l : a[k] \in Nat
  OBVIOUS
<1>2. g = [k \in 1..l |-> [line |-> a[k], block |-> TRUE, indent |-> i]]
  BY <1>1 DEF Block
<1> HIDE DEF g, l
<1>3. g \in [1..l -> Entry]
  BY <1>1, <1>2 DEF Entry
<1>4. g \in Seq(Entry) /\ Len(g) = l
  BY <1>1, <1>3, SeqDef
<1>. QED
  BY <1>2, <1>4 DEF g, l

\* Code is written as it was read.
LEMMA AsIsEntries ==
  ASSUME NEW b \in Seq(Nat)
  PROVE  /\ AsIs(b) \in Seq(Entry) /\ Len(AsIs(b)) = Len(b)
         /\ \A k \in 1..Len(b) : AsIs(b)[k] = [line |-> b[k], block |-> FALSE, indent |-> 0]
<1> DEFINE l == Len(b)  g == AsIs(b)
<1>1. l \in Nat /\ DOMAIN b = 1..l /\ \A k \in 1..l : b[k] \in Nat
  OBVIOUS
<1>2. g = [k \in 1..l |-> [line |-> b[k], block |-> FALSE, indent |-> 0]]
  BY <1>1 DEF AsIs
<1> HIDE DEF g, l
<1>3. g \in [1..l -> Entry]
  BY <1>1, <1>2 DEF Entry
<1>4. g \in Seq(Entry) /\ Len(g) = l
  BY <1>1, <1>3, SeqDef
<1>. QED
  BY <1>2, <1>4 DEF g, l

\* Every place of the output is one of before, one of the comment, or one of the code.
LEMMA Places ==
  ASSUME NEW o \in Seq(Entry), NEW a \in Seq(Nat), NEW b \in Seq(Nat),
         NEW p \in 1..(Len(o) + Len(a) + Len(b))
  PROVE  \/ p \in 1..Len(o)
         \/ \E k \in 1..Len(a) : p = Len(o) + k
         \/ \E k \in 1..Len(b) : p = Len(o) + Len(a) + k
<1> DEFINE l == Len(o)  m == Len(a)  n == Len(b)
<1>1. l \in Nat /\ m \in Nat /\ n \in Nat /\ p \in 1..(l + m + n)
  OBVIOUS
<1> HIDE DEF l, m, n
<1>2. p \in 1..l \/ p - l \in 1..m \/ p - (l + m) \in 1..n
  BY <1>1
<1>3. p = l + (p - l) /\ p = l + m + (p - (l + m))
  BY <1>1
<1>. QED
  BY <1>2, <1>3 DEF l, m, n

\* r is o with the comment a, indented as line i, and the code b at its end.
Closes(r, o, a, i, b) ==
  /\ r \in Seq(Entry)
  /\ \A p \in DOMAIN o : p \in DOMAIN r /\ r[p] = o[p]
  /\ \A k \in DOMAIN a :
       /\ Len(o) + k \in DOMAIN r
       /\ r[Len(o) + k] = [line |-> a[k], block |-> TRUE, indent |-> i]
  /\ \A k \in DOMAIN b :
       /\ Len(o) + Len(a) + k \in DOMAIN r
       /\ r[Len(o) + Len(a) + k] = [line |-> b[k], block |-> FALSE, indent |-> 0]
  /\ \A p \in DOMAIN r :
       \/ p \in DOMAIN o
       \/ \E k \in DOMAIN a : p = Len(o) + k
       \/ \E k \in DOMAIN b : p = Len(o) + Len(a) + k

\* The closed buffers follow what was out, the comment first.
LEMMA Closing ==
  ASSUME NEW o \in Seq(Entry), NEW a \in Seq(Nat), NEW i \in Nat, NEW b \in Seq(Nat)
  PROVE  Closes(Close(o, a, i, b), o, a, i, b)
<1> DEFINE x == Block(a, i)  y == AsIs(b)  ox == o \o x  r == ox \o y
<1>1. x \in Seq(Entry) /\ y \in Seq(Entry)
  BY BlockIsEntries, AsIsEntries
<1>2. /\ Len(x) = Len(a) /\ Len(y) = Len(b)
      /\ \A k \in 1..Len(a) : x[k] = [line |-> a[k], block |-> TRUE, indent |-> i]
      /\ \A k \in 1..Len(b) : y[k] = [line |-> b[k], block |-> FALSE, indent |-> 0]
  BY BlockIsEntries, AsIsEntries
<1> HIDE DEF x, y
<1>3. ox \in Seq(Entry)
  BY <1>1, Concat
<1>4. /\ Len(ox) = Len(o) + Len(x)
      /\ \A k \in 1..Len(o) : ox[k] = o[k]
      /\ \A k \in 1..Len(x) : ox[Len(o) + k] = x[k]
  BY <1>1, Concat
<1> HIDE DEF ox
<1>5. /\ r \in Seq(Entry) /\ Len(r) = Len(ox) + Len(y)
      /\ \A k \in 1..Len(ox) : r[k] = ox[k]
      /\ \A k \in 1..Len(y) : r[Len(ox) + k] = y[k]
  BY <1>1, <1>3, Concat
<1> HIDE DEF r
<1>6. Len(o) \in Nat /\ Len(a) \in Nat /\ Len(b) \in Nat
  OBVIOUS
<1>7. ASSUME NEW p \in 1..Len(o)  PROVE r[p] = o[p]
  <2>1. p \in 1..Len(ox)
    BY <1>2, <1>4, <1>6
  <2>. QED  BY <1>4, <1>5, <2>1
<1>8. ASSUME NEW k \in 1..Len(a)
      PROVE r[Len(o) + k] = [line |-> a[k], block |-> TRUE, indent |-> i]
  <2>1. Len(o) + k \in 1..Len(ox)
    BY <1>2, <1>4, <1>6
  <2>. QED  BY <1>2, <1>4, <1>5, <2>1
<1>9. ASSUME NEW k \in 1..Len(b)
      PROVE r[Len(o) + Len(a) + k] = [line |-> b[k], block |-> FALSE, indent |-> 0]
  BY <1>2, <1>4, <1>5
<1>10. r = Close(o, a, i, b)
  BY DEF r, ox, x, y, Close
<1>11. DOMAIN r = 1..(Len(o) + Len(a) + Len(b))
  BY <1>2, <1>4, <1>5
<1>12. ASSUME NEW p \in DOMAIN r
       PROVE  \/ p \in 1..Len(o)
              \/ \E k \in 1..Len(a) : p = Len(o) + k
              \/ \E k \in 1..Len(b) : p = Len(o) + Len(a) + k
  <2>1. p \in 1..(Len(o) + Len(a) + Len(b))
    BY <1>11
  <2>. QED  BY <2>1, Places
<1>13. /\ \A p \in 1..Len(o) : p \in DOMAIN r
       /\ \A k \in 1..Len(a) : Len(o) + k \in DOMAIN r
       /\ \A k \in 1..Len(b) : Len(o) + Len(a) + k \in DOMAIN r
  BY <1>6, <1>11
<1>14. r \in Seq(Entry)
  BY <1>5
<1>15. DOMAIN o = 1..Len(o) /\ DOMAIN a = 1..Len(a) /\ DOMAIN b = 1..Len(b)
  OBVIOUS
<1>16. Closes(r, o, a, i, b)
  BY <1>7, <1>8, <1>9, <1>12, <1>13, <1>14, <1>15, Zenon DEF Closes
<1>. QED
  BY <1>10, <1>16

\* The same by the parts of an entry.
LEMMA ClosedEntries ==
  ASSUME NEW o \in Seq(Entry), NEW a \in Seq(Nat), NEW i \in Nat, NEW b \in Seq(Nat),
         NEW r, Closes(r, o, a, i, b)
  PROVE  /\ \A k \in DOMAIN a : LET e == r[Len(o) + k] IN e.line = a[k] /\ e.block /\ e.indent = i
         /\ \A k \in DOMAIN b : LET e == r[Len(o) + Len(a) + k] IN e.line = b[k] /\ ~e.block
<1>1. ASSUME NEW k \in DOMAIN a
      PROVE  LET e == r[Len(o) + k] IN e.line = a[k] /\ e.block /\ e.indent = i
  <2>1. r[Len(o) + k] = [line |-> a[k], block |-> TRUE, indent |-> i]
    BY DEF Closes
  <2>. QED  BY <2>1
<1>2. ASSUME NEW k \in DOMAIN b
      PROVE  LET e == r[Len(o) + Len(a) + k] IN e.line = b[k] /\ ~e.block
  <2>1. r[Len(o) + Len(a) + k] = [line |-> b[k], block |-> FALSE, indent |-> 0]
    BY DEF Closes
  <2>. QED  BY <2>1
<1>. QED
  BY <1>1, <1>2

\* Code lines that are closed one after the other are closed together.
LEMMA ClosingOneMore ==
  ASSUME NEW o \in Seq(Entry), NEW a \in Seq(Nat), NEW i \in Nat, NEW b \in Seq(Nat), NEW c \in Nat
  PROVE  Close(o, a, i, b) \o AsIs(<<c>>) = Close(o, a, i, Append(b, c))
<1>1. <<c>> \in Seq(Nat) /\ Append(b, c) \in Seq(Nat)
  OBVIOUS
<1>2. AsIs(b) \o AsIs(<<c>>) = AsIs(Append(b, c))
  <2> DEFINE x == AsIs(b)  y == AsIs(<<c>>)  z == AsIs(Append(b, c))  xy == x \o y
             bc == Append(b, c)
  <2>1. /\ x \in Seq(Entry) /\ Len(x) = Len(b)
        /\ \A k \in 1..Len(b) : x[k] = [line |-> b[k], block |-> FALSE, indent |-> 0]
    BY AsIsEntries
  <2>2. y \in Seq(Entry) /\ Len(y) = 1 /\ y[1] = [line |-> c, block |-> FALSE, indent |-> 0]
    <3>1. Len(<<c>>) = 1 /\ <<c>>[1] = c
      OBVIOUS
    <3>2. y \in Seq(Entry) /\ Len(y) = Len(<<c>>)
      BY <1>1, AsIsEntries
    <3>3. \A k \in 1..Len(<<c>>) : y[k] = [line |-> <<c>>[k], block |-> FALSE, indent |-> 0]
      BY <1>1, AsIsEntries
    <3> HIDE DEF y
    <3>4. 1 \in 1..Len(<<c>>)
      BY <3>1
    <3>. QED  BY <3>1, <3>2, <3>3, <3>4
  <2>3. /\ z \in Seq(Entry) /\ Len(z) = Len(bc)
        /\ \A k \in 1..Len(bc) : z[k] = [line |-> bc[k], block |-> FALSE, indent |-> 0]
    BY <1>1, AsIsEntries
  <2> HIDE DEF x, y, z
  <2>4. xy \in Seq(Entry)
    BY <2>1, <2>2, Concat
  <2>5. /\ Len(xy) = Len(x) + Len(y)
        /\ \A k \in 1..Len(x) : xy[k] = x[k]
        /\ \A k \in 1..Len(y) : xy[Len(x) + k] = y[k]
    <3>1. x \in Seq(Entry) /\ y \in Seq(Entry)
      BY <2>1, <2>2
    <3>. QED  BY <3>1, Concat
  <2> HIDE DEF xy
  <2>6. /\ Len(bc) = Len(b) + 1 /\ bc[Len(b) + 1] = c /\ Len(b) \in Nat
        /\ \A k \in 1..Len(b) : bc[k] = b[k]
    OBVIOUS
  <2> HIDE DEF bc
  <2>7. ASSUME NEW k \in 1..(Len(b) + 1)  PROVE xy[k] = z[k]
    <3>1. k \in 1..Len(b) \/ k = Len(b) + 1
      BY <2>6
    <3>2. CASE k \in 1..Len(b)
      <4>1. k \in 1..Len(x) /\ k \in 1..Len(bc)
        BY <3>2, <2>1, <2>6
      <4>. QED  BY <3>2, <4>1, <2>1, <2>3, <2>5, <2>6
    <3>3. CASE k = Len(b) + 1
      <4>1. 1 \in 1..Len(y) /\ k \in 1..Len(bc) /\ k = Len(x) + 1
        BY <3>3, <2>1, <2>2, <2>6
      <4>. QED  BY <3>3, <4>1, <2>2, <2>3, <2>5, <2>6
    <3>. QED  BY <3>1, <3>2, <3>3
  <2>8. Len(xy) = Len(b) + 1 /\ Len(z) = Len(b) + 1
    BY <2>1, <2>2, <2>3, <2>5, <2>6
  <2>9. xy = z
    BY <2>3, <2>4, <2>7, <2>8, SeqEqual
  <2>. QED  BY <2>9 DEF xy, x, y, z, bc
<1>3. /\ AsIs(b) \in Seq(Entry) /\ AsIs(<<c>>) \in Seq(Entry)
      /\ o \o Block(a, i) \in Seq(Entry)
  BY <1>1, AsIsEntries, BlockIsEntries, Concat
<1>4. ((o \o Block(a, i)) \o AsIs(b)) \o AsIs(<<c>>) = (o \o Block(a, i)) \o (AsIs(b) \o AsIs(<<c>>))
  <2> DEFINE x == o \o Block(a, i)  y == AsIs(b)  z == AsIs(<<c>>)
  <2>1. x \in Seq(Entry) /\ y \in Seq(Entry) /\ z \in Seq(Entry)
    BY <1>3
  <2> HIDE DEF x, y, z
  <2>2. (x \o y) \o z = x \o (y \o z)
    BY <2>1, ConcatAssociative, SMTT(40)
  <2>. QED  BY <2>2 DEF x, y, z
<1>. QED
  BY <1>2, <1>4 DEF Close

\* A line of code that is written alone.
LEMMA ClosingOne ==
  ASSUME NEW o \in Seq(Entry), NEW c \in Nat
  PROVE  o \o AsIs(<<c>>) = Close(o, <<>>, 0, <<c>>)
<1>1. Block(<<>>, 0) = <<>>
  BY DEF Block
<1>2. o \o <<>> = o
  BY ConcatEmptySeq
<1>. QED
  BY <1>1, <1>2 DEF Close

-----------------------------------------------------------------------------
(* What a line can do: the callbacks by what becomes of the buffers.       *)

\* Every step of parseLine reads the line.
Reads(line) ==
  line \in Shapes /\ ~ended /\ ended' = ended /\ file' = Append(file, line)

\* A line of a docstring that goes on.
Gathers(line) ==
  /\ Reads(line)
  /\ comment' = Append(comment, Current) /\ UNCHANGED <<output, defclass, indent>>
  /\ \/ state \in HeadStates /\ state' \in HeadStates
     \/ /\ state = "DEFCLASS" /\ state' = "COMMENT_SINGLE"
        /\ "start1" \in line /\ "single1" \notin line
     \/ /\ state = "DEFCLASS" /\ state' = "COMMENT_DOUBLE"
        /\ "start2" \in line /\ "single2" \notin line
     \/ state = "COMMENT_SINGLE" /\ state' = state /\ "end1" \notin line
     \/ state = "COMMENT_DOUBLE" /\ state' = state /\ "end2" \notin line

\* The last line of the docstring of a definition.
Finishes(line) ==
  /\ Reads(line)
  /\ comment' = Append(comment, Current) /\ UNCHANGED indent
  /\ output' = Close(output, Append(comment, Current), indent, defclass)
  /\ defclass' = <<>> /\ state' = "DEFCLASS_BODY"
  /\ \/ state = "DEFCLASS" /\ ("single1" \in line \/ "single2" \in line)
     \/ state = "COMMENT_SINGLE" /\ "end1" \in line
     \/ state = "COMMENT_DOUBLE" /\ "end2" \in line

\* A line of the head of the file, or the first of its code.
HeadLine(line) ==
  /\ Reads(line)
  /\ state = "FILEHEAD" /\ state' \in {"FILEHEAD", "DEFCLASS_BODY"}
  /\ output' = Close(output, comment, indent, <<Current>>)
  /\ comment' = <<>> /\ UNCHANGED <<defclass, indent>>
  /\ "multi_start" \notin line /\ "defclass" \notin line

\* The body of a definition begins without a docstring.
Stops(line) ==
  /\ Reads(line)
  /\ state = "DEFCLASS" /\ state' = "DEFCLASS_BODY"
  /\ output' = Close(output, comment, indent, Append(defclass, Current))
  /\ defclass' = <<>> /\ UNCHANGED <<comment, indent>>
  /\ line \cap {"single1", "start1", "single2", "start2", "empty", "defclass",
                "multi_start"} = {}

\* The line that begins a definition; one that waits is closed.
Opens(line) ==
  /\ Reads(line)
  /\ \/ state \in {"FILEHEAD", "DEFCLASS"} /\ output' = Close(output, comment, indent, defclass)
     \/ state = "DEFCLASS_BODY" /\ output' = output
  /\ comment' = <<>> /\ defclass' = <<Current>> /\ indent' = Current
  /\ \/ state' = "DEFCLASS" /\ "defclass" \in line
     \/ /\ state' = "DEFCLASS_MULTI"
        /\ "multi_start" \in line /\ "defclass" \notin line

\* A line of a body.
BodyLine(line) ==
  /\ Reads(line)
  /\ state = "DEFCLASS_BODY" /\ state' = state
  /\ output' = Close(output, <<>>, 0, <<Current>>)
  /\ UNCHANGED <<comment, defclass, indent>>
  /\ "multi_start" \notin line /\ "defclass" \notin line

\* A further line of a header, or an empty one after it.
HeaderLine(line) ==
  /\ Reads(line)
  /\ state \in HeaderStates /\ state' \in HeaderStates
  /\ defclass' = Append(defclass, Current) /\ UNCHANGED <<output, comment, indent>>
  /\ state = "DEFCLASS" => state' = "DEFCLASS" /\ line = {"empty"}
  /\ state = "DEFCLASS_MULTI" =>
       state' = IF "multi_end" \in line THEN "DEFCLASS" ELSE "DEFCLASS_MULTI"

\* __closeComment() closes the two buffers.
LEMMA CloseComment == \A c : Closed(c) = Close(output, c, indent, defclass)
BY DEF Closed, Close, CommentBlock, Block

\* Every line does one of these, whatever the state.
LEMMA Callbacks ==
  ASSUME DoxypyTypes, Buffers, NEW line \in Shapes, parseLine(line)
  PROVE  \/ Gathers(line) \/ Finishes(line) \/ HeadLine(line) \/ Stops(line)
         \/ Opens(line) \/ BodyLine(line) \/ HeaderLine(line)
<1> DEFINE t == TransitionFor(state, line)
<1>1. Reads(line) /\ state' = t.to /\ Callback(t)
  BY DEF parseLine, Reads
<1>2. /\ output \in Seq(Entry) /\ comment \in Seq(Nat) /\ defclass \in Seq(Nat)
      /\ indent \in Nat /\ Current \in Nat
  BY DEF DoxypyTypes, Current
<1>3. Closed(comment) \o AsIs(<<Current>>) = Close(output, comment, indent, Append(defclass, Current))
  BY <1>2, CloseComment, ClosingOneMore
<1>4. output \o AsIs(<<Current>>) = Close(output, <<>>, 0, <<Current>>)
  BY <1>2, ClosingOne
<1> HIDE DEF t
<1>5. CASE state = "FILEHEAD"
  <2>0. t = TransitionFor("FILEHEAD", line)
    BY <1>5 DEF t
  <2>1. defclass = <<>> /\ Append(defclass, Current) = <<Current>>
    BY <1>5 DEF Buffers, HeadStates
  <2>2. CASE t.to \in HeadStates /\ t.callback = "appendCommentLine"
    <3>1. Gathers(line)
      BY <1>1, <1>5, <2>2 DEF Callback, appendCommentLine, Gathers, HeadStates
    <3>. QED  BY <3>1
  <2>3. CASE /\ t.to \in {"FILEHEAD", "DEFCLASS_BODY"} /\ t.callback = "appendFileheadLine"
             /\ "multi_start" \notin line /\ "defclass" \notin line
    <3>1. HeadLine(line)
      BY <1>1, <1>3, <1>5, <2>1, <2>3 DEF Callback, appendFileheadLine, HeadLine
    <3>. QED  BY <3>1
  <2>4. CASE /\ t.callback = "resetCommentSearch"
             /\ \/ t.to = "DEFCLASS" /\ "defclass" \in line
                \/ /\ t.to = "DEFCLASS_MULTI"
                   /\ "multi_start" \in line /\ "defclass" \notin line
    <3>1. Opens(line)
      BY <1>1, <1>5, <2>4, CloseComment DEF Callback, resetCommentSearch, startCommentSearch, Opens
    <3>. QED  BY <3>1
  <2>. QED  BY <2>0, <2>2, <2>3, <2>4, FromFilehead DEF HeadStates
<1>6. CASE state \in {"FILEHEAD_COMMENT_SINGLE", "FILEHEAD_COMMENT_DOUBLE"}
  <2>1. t.to \in HeadStates /\ t.callback = "appendCommentLine"
    BY <1>6, FromFileheadSingle, FromFileheadDouble DEF t, HeadStates
  <2>2. Gathers(line)
    BY <1>1, <1>6, <2>1 DEF Callback, appendCommentLine, Gathers, HeadStates
  <2>. QED  BY <2>2
<1>7. CASE state = "DEFCLASS"
  <2>0. t = TransitionFor("DEFCLASS", line)
    BY <1>7 DEF t
  <2>1. CASE /\ t.to = "DEFCLASS_BODY" /\ t.callback = "appendCommentLine"
             /\ "single1" \in line \/ "single2" \in line
    <3>1. Finishes(line)
      BY <1>1, <1>7, <2>1, CloseComment DEF Callback, appendCommentLine, Finishes
    <3>. QED  BY <3>1
  <2>2. CASE /\ t.callback = "appendCommentLine"
             /\ \/ t.to = "COMMENT_SINGLE" /\ "start1" \in line /\ "single1" \notin line
                \/ t.to = "COMMENT_DOUBLE" /\ "start2" \in line /\ "single2" \notin line
    <3>1. Gathers(line)
      BY <1>1, <1>7, <2>2 DEF Callback, appendCommentLine, Gathers
    <3>. QED  BY <3>1
  <2>3. CASE t.to = "DEFCLASS" /\ t.callback = "appendDefclassLine" /\ line = {"empty"}
    <3>1. HeaderLine(line)
      BY <1>1, <1>7, <2>3 DEF Callback, appendDefclassLine, HeaderLine, HeaderStates
    <3>. QED  BY <3>1
  <2>4. CASE /\ t.callback = "resetCommentSearch"
             /\ \/ t.to = "DEFCLASS" /\ "defclass" \in line
                \/ /\ t.to = "DEFCLASS_MULTI"
                   /\ "multi_start" \in line /\ "defclass" \notin line
    <3>1. Opens(line)
      BY <1>1, <1>7, <2>4, CloseComment DEF Callback, resetCommentSearch, startCommentSearch, Opens
    <3>. QED  BY <3>1
  <2>5. CASE /\ t.to = "DEFCLASS_BODY" /\ t.callback = "stopCommentSearch"
             /\ line \cap {"single1", "start1", "single2", "start2", "empty",
                           "defclass", "multi_start"} = {}
    <3>1. Stops(line)
      BY <1>1, <1>3, <1>7, <2>5 DEF Callback, stopCommentSearch, Stops
    <3>. QED  BY <3>1
  <2>. QED  BY <2>0, <2>1, <2>2, <2>3, <2>4, <2>5, FromDefclass
<1>8. CASE state = "COMMENT_SINGLE"
  <2>1. /\ t.callback = "appendCommentLine"
        /\ t.to = IF "end1" \in line THEN "DEFCLASS_BODY" ELSE "COMMENT_SINGLE"
    BY <1>8, FromSingle DEF t
  <2>2. CASE "end1" \in line
    BY <1>1, <1>8, <2>1, <2>2, CloseComment DEF Callback, appendCommentLine, Finishes
  <2>3. CASE "end1" \notin line
    BY <1>1, <1>8, <2>1, <2>3 DEF Callback, appendCommentLine, Gathers
  <2>. QED  BY <2>2, <2>3
<1>9. CASE state = "COMMENT_DOUBLE"
  <2>1. /\ t.callback = "appendCommentLine"
        /\ t.to = IF "end2" \in line THEN "DEFCLASS_BODY" ELSE "COMMENT_DOUBLE"
    BY <1>9, FromDouble DEF t
  <2>2. CASE "end2" \in line
    BY <1>1, <1>9, <2>1, <2>2, CloseComment DEF Callback, appendCommentLine, Finishes
  <2>3. CASE "end2" \notin line
    BY <1>1, <1>9, <2>1, <2>3 DEF Callback, appendCommentLine, Gathers
  <2>. QED  BY <2>2, <2>3
<1>10. CASE state = "DEFCLASS_BODY"
  <2>0. t = TransitionFor("DEFCLASS_BODY", line)
    BY <1>10 DEF t
  <2>1. CASE /\ t.callback = "startCommentSearch"
             /\ \/ t.to = "DEFCLASS" /\ "defclass" \in line
                \/ /\ t.to = "DEFCLASS_MULTI"
                   /\ "multi_start" \in line /\ "defclass" \notin line
    <3>1. Opens(line)
      BY <1>1, <1>10, <2>1 DEF Callback, startCommentSearch, Opens
    <3>. QED  BY <3>1
  <2>2. CASE /\ t.to = "DEFCLASS_BODY" /\ t.callback = "appendNormalLine"
             /\ "multi_start" \notin line /\ "defclass" \notin line
    <3>1. BodyLine(line)
      BY <1>1, <1>4, <1>10, <2>2 DEF Callback, appendNormalLine, BodyLine
    <3>. QED  BY <3>1
  <2>. QED  BY <2>0, <2>1, <2>2, FromBody
<1>11. CASE state = "DEFCLASS_MULTI"
  <2>1. /\ t.callback = "appendDefclassLine"
        /\ t.to = IF "multi_end" \in line THEN "DEFCLASS" ELSE "DEFCLASS_MULTI"
    BY <1>11, FromMulti DEF t
  <2>2. HeaderLine(line)
    BY <1>1, <1>11, <2>1 DEF Callback, appendDefclassLine, HeaderLine, HeaderStates
  <2>. QED  BY <2>2
<1>. QED
  BY <1>5, <1>6, <1>7, <1>8, <1>9, <1>10, <1>11
  DEF DoxypyTypes, HeadStates, HeaderStates, DocstringStates

-----------------------------------------------------------------------------
(* Each line once.                                                         *)

\* The lines that o holds, in the order they are written.
OutOf(o) == [k \in DOMAIN o |-> o[k].line]

\* Closing adds the lines of the buffers, and each of them once.
LEMMA ClosingLines ==
  ASSUME NEW o \in Seq(Entry), NEW a \in Seq(Nat), NEW i \in Nat, NEW b \in Seq(Nat),
         NEW r, Closes(r, o, a, i, b)
  PROVE  Lines(OutOf(r)) = Lines(OutOf(o)) \cup Lines(a) \cup Lines(b)
<1>2. \A s : Lines(OutOf(s)) = {s[p].line : p \in DOMAIN s}
  BY DEF Lines, OutOf
<1>3. ASSUME NEW p \in DOMAIN r
      PROVE  r[p].line \in Lines(OutOf(o)) \cup Lines(a) \cup Lines(b)
  <2>1. ASSUME p \in DOMAIN o  PROVE r[p].line \in Lines(OutOf(o))
    BY <1>2, <2>1 DEF Closes
  <2>2. ASSUME NEW k \in DOMAIN a, p = Len(o) + k  PROVE r[p].line \in Lines(a)
    BY <2>2, ClosedEntries DEF Lines
  <2>3. ASSUME NEW k \in DOMAIN b, p = Len(o) + Len(a) + k  PROVE r[p].line \in Lines(b)
    BY <2>3, ClosedEntries DEF Lines
  <2>. QED  BY <2>1, <2>2, <2>3 DEF Closes
<1>4. ASSUME NEW p \in DOMAIN o  PROVE o[p].line \in Lines(OutOf(r))
  BY <1>2 DEF Closes
<1>5. ASSUME NEW k \in DOMAIN a  PROVE a[k] \in Lines(OutOf(r))
  <2>1. Len(o) + k \in DOMAIN r
    BY DEF Closes
  <2>2. r[Len(o) + k].line = a[k]
    BY ClosedEntries
  <2>. QED  BY <1>2, <2>1, <2>2
<1>6. ASSUME NEW k \in DOMAIN b  PROVE b[k] \in Lines(OutOf(r))
  <2>1. Len(o) + Len(a) + k \in DOMAIN r
    BY DEF Closes
  <2>2. r[Len(o) + Len(a) + k].line = b[k]
    BY ClosedEntries
  <2>. QED  BY <1>2, <2>1, <2>2
<1>7. Lines(a) \subseteq Lines(OutOf(r)) /\ Lines(b) \subseteq Lines(OutOf(r))
  BY <1>5, <1>6 DEF Lines
<1>8. Lines(OutOf(o)) \subseteq Lines(OutOf(r))
  BY <1>2, <1>4
<1>9. Lines(OutOf(r)) \subseteq Lines(OutOf(o)) \cup Lines(a) \cup Lines(b)
  BY <1>2, <1>3
<1>. QED
  BY <1>7, <1>8, <1>9

\* A sequence that increases has no line twice.
LEMMA IncreasingOnce ==
  ASSUME NEW s \in Seq(Nat), Increasing(s), NEW p \in DOMAIN s, NEW q \in DOMAIN s, s[p] = s[q]
  PROVE  p = q
<1>1. p \in Nat /\ q \in Nat /\ s[p] \in Nat /\ s[q] \in Nat
  OBVIOUS
<1>2. ~ (p < q) /\ ~ (q < p)
  BY <1>1 DEF Increasing
<1>. QED
  BY <1>1, <1>2

\* Closing a buffer writes no line twice.
LEMMA ClosingOnce ==
  ASSUME NEW o \in Seq(Entry), NEW a \in Seq(Nat), NEW i \in Nat, NEW b \in Seq(Nat),
         NEW r, Closes(r, o, a, i, b),
         NoneTwice(OutOf(o)), Increasing(a), Increasing(b),
         Lines(OutOf(o)) \cap Lines(a) = {}, Lines(OutOf(o)) \cap Lines(b) = {},
         Lines(a) \cap Lines(b) = {}
  PROVE  NoneTwice(OutOf(r))
<1> DEFINE Old(p)     == p \in DOMAIN o /\ r[p].line = o[p].line
           Com(p, k)  == k \in DOMAIN a /\ p = Len(o) + k /\ r[p].line = a[k]
           Cod(p, k)  == k \in DOMAIN b /\ p = Len(o) + Len(a) + k /\ r[p].line = b[k]
<1>3. ASSUME NEW p \in DOMAIN r  PROVE Old(p) \/ (\E k : Com(p, k)) \/ (\E k : Cod(p, k))
  <2>1. ASSUME p \in DOMAIN o  PROVE Old(p)
    BY <2>1 DEF Closes
  <2>2. ASSUME NEW k \in DOMAIN a, p = Len(o) + k  PROVE Com(p, k)
    <3>1. r[Len(o) + k].line = a[k]
      BY ClosedEntries
    <3>. QED  BY <2>2, <3>1
  <2>3. ASSUME NEW k \in DOMAIN b, p = Len(o) + Len(a) + k  PROVE Cod(p, k)
    BY <2>3, ClosedEntries
  <2> HIDE DEF Old, Com, Cod
  <2>. QED  BY <2>1, <2>2, <2>3 DEF Closes
<1>4. ASSUME NEW p, Old(p)  PROVE r[p].line \in Lines(OutOf(o))
  BY <1>4 DEF Lines, OutOf
<1>5. ASSUME NEW p, NEW k, Com(p, k)  PROVE r[p].line \in Lines(a)
  BY <1>5 DEF Lines
<1>6. ASSUME NEW p, NEW k, Cod(p, k)  PROVE r[p].line \in Lines(b)
  BY <1>6 DEF Lines
<1>7. ASSUME NEW p, NEW q, Old(p), Old(q), r[p].line = r[q].line  PROVE p = q
  BY <1>7 DEF NoneTwice, OutOf
<1>8. ASSUME NEW p, NEW q, NEW j, NEW k, Com(p, j), Com(q, k), r[p].line = r[q].line
      PROVE  p = q
  <2>1. j \in DOMAIN a /\ k \in DOMAIN a /\ a[j] = a[k]
    BY <1>8
  <2>. QED  BY <1>8, <2>1, IncreasingOnce
<1>9. ASSUME NEW p, NEW q, NEW j, NEW k, Cod(p, j), Cod(q, k), r[p].line = r[q].line
      PROVE  p = q
  <2>1. j \in DOMAIN b /\ k \in DOMAIN b /\ b[j] = b[k]
    BY <1>9
  <2>. QED  BY <1>9, <2>1, IncreasingOnce
<1> HIDE DEF Old, Com, Cod
<1>10. ASSUME NEW p \in DOMAIN r, NEW q \in DOMAIN r, r[p].line = r[q].line  PROVE p = q
  <2>1. CASE Old(p)
    BY <1>3, <1>4, <1>5, <1>6, <1>7, <1>10, <2>1
  <2>2. ASSUME NEW k, Com(p, k)  PROVE p = q
    BY <1>3, <1>4, <1>5, <1>6, <1>8, <1>10, <2>2
  <2>3. ASSUME NEW k, Cod(p, k)  PROVE p = q
    BY <1>3, <1>4, <1>5, <1>6, <1>9, <1>10, <2>3
  <2>. QED  BY <1>3, <2>1, <2>2, <2>3
<1>. QED
  BY <1>10 DEF NoneTwice, OutOf

\* A further line in a buffer, and a buffer with one line or none.
LEMMA AppendLines ==
  ASSUME NEW s \in Seq(Nat), NEW c \in Nat
  PROVE  /\ Append(s, c) \in Seq(Nat)
         /\ Lines(Append(s, c)) = Lines(s) \cup {c}
         /\ Increasing(s) /\ (\A x \in Lines(s) : x < c) => Increasing(Append(s, c))
<1> DEFINE t == Append(s, c)  l == Len(s)
<1>1. /\ t \in Seq(Nat) /\ l \in Nat /\ Len(t) = l + 1 /\ t[l + 1] = c
      /\ \A k \in 1..l : t[k] = s[k] /\ s[k] \in Nat
  OBVIOUS
<1>2. DOMAIN t = 1..(l + 1) /\ DOMAIN s = 1..l
  BY <1>1
<1> HIDE DEF t, l
<1>3. 1..(l + 1) = (1..l) \cup {l + 1}
  BY <1>1
<1>4. Lines(t) = Lines(s) \cup {c}
  BY <1>1, <1>2, <1>3 DEF Lines
<1>5. ASSUME Increasing(s), \A x \in Lines(s) : x < c, NEW p \in DOMAIN t, NEW q \in DOMAIN t, p < q
      PROVE  t[p] < t[q]
  <2>1. p \in 1..l
    BY <1>1, <1>2, <1>5
  <2>2. CASE q \in 1..l
    BY <1>1, <1>2, <1>5, <2>1, <2>2 DEF Increasing
  <2>3. CASE q = l + 1
    BY <1>1, <1>2, <1>5, <2>1, <2>3 DEF Lines
  <2>. QED  BY <1>2, <1>3, <2>2, <2>3
<1>6. Increasing(s) /\ (\A x \in Lines(s) : x < c) => Increasing(t)
  BY <1>5 DEF Increasing
<1>. QED
  BY <1>1, <1>4, <1>6 DEF t

\* Buffers of no line and of one.
LEMMA FewLines ==
  ASSUME NEW c \in Nat
  PROVE  /\ <<>> \in Seq(Nat) /\ Lines(<<>>) = {} /\ Increasing(<<>>)
         /\ <<c>> \in Seq(Nat) /\ Lines(<<c>>) = {c} /\ Increasing(<<c>>)
<1>1. <<>> \in Seq(Nat) /\ Lines(<<>>) = {} /\ Increasing(<<>>)
  BY EmptySeq DEF Lines, Increasing
<1>2. <<c>> \in Seq(Nat) /\ DOMAIN <<c>> = {1} /\ <<c>>[1] = c
  OBVIOUS
<1>. QED
  BY <1>1, <1>2 DEF Lines, Increasing

-----------------------------------------------------------------------------
(* The types, the buffers and the lines in every step.                     *)

\* The numbers of the lines.
LEMMA Numbers ==
  ASSUME DoxypyTypes, NEW line \in Shapes, Reads(line)
  PROVE  /\ Len(file) \in Nat /\ Current \in Nat /\ Current = Len(file) + 1 /\ Current > 0
         /\ file' \in Seq(Shapes) /\ Len(file') = Current /\ file'[Current] = line
         /\ \A k \in 1..Len(file) : file'[k] = file[k] /\ k \in 1..Len(file') /\ k < Current
         /\ 1..Len(file') = 1..Len(file) \cup {Current} /\ Current \notin 1..Len(file)
BY DEF DoxypyTypes, Reads, Current

\* The steps keep the types, the buffers and the lines.
LEMMA StepTypes ==
  ASSUME DoxypyTypes, Buffers, NEW line \in Shapes, parseLine(line)
  PROVE  DoxypyTypes'
<1>1. Reads(line)
  BY DEF parseLine, Reads
<1>2. /\ Current \in Nat /\ file' \in Seq(Shapes) /\ ended' \in BOOLEAN
      /\ output \in Seq(Entry) /\ comment \in Seq(Nat) /\ defclass \in Seq(Nat)
      /\ indent \in Nat
  BY <1>1, Numbers DEF DoxypyTypes, Reads
<1>3. \A s \in Seq(Nat) : Append(s, Current) \in Seq(Nat)
  BY <1>2, AppendLines
<1>4. <<>> \in Seq(Nat) /\ <<Current>> \in Seq(Nat)
  BY <1>2, FewLines
<1>5. \A o \in Seq(Entry), a \in Seq(Nat), i \in Nat, b \in Seq(Nat) : Close(o, a, i, b) \in Seq(Entry)
  BY Closing DEF Closes
<1>6. CASE Gathers(line)
  BY <1>2, <1>3, <1>6 DEF Gathers, DoxypyTypes, DocstringStates
<1>7. CASE Finishes(line)
  BY <1>2, <1>3, <1>4, <1>5, <1>7 DEF Finishes, DoxypyTypes
<1>8. CASE HeadLine(line)
  BY <1>2, <1>4, <1>5, <1>8 DEF HeadLine, DoxypyTypes, HeadStates
<1>9. CASE Stops(line)
  BY <1>2, <1>3, <1>4, <1>5, <1>9 DEF Stops, DoxypyTypes
<1>10. CASE Opens(line)
  <2>1. output' \in Seq(Entry)
    BY <1>2, <1>5, <1>10 DEF Opens
  <2>2. /\ comment' \in Seq(Nat) /\ defclass' \in Seq(Nat) /\ indent' \in Nat
        /\ state' \in HeaderStates
    BY <1>2, <1>4, <1>10 DEF Opens, HeaderStates
  <2>. QED  BY <1>2, <2>1, <2>2 DEF DoxypyTypes
<1>11. CASE BodyLine(line)
  BY <1>2, <1>4, <1>5, <1>11 DEF BodyLine, DoxypyTypes
<1>12. CASE HeaderLine(line)
  BY <1>2, <1>3, <1>12 DEF HeaderLine, DoxypyTypes
<1>. QED
  BY <1>6, <1>7, <1>8, <1>9, <1>10, <1>11, <1>12, Callbacks

\* What waits has been read.
LEMMA WaitingRead ==
  ASSUME DoxypyTypes, LinesOnce, ~ended, state # "DEFCLASS_BODY"
  PROVE  /\ Lines(comment) \subseteq 1..Len(file) /\ Lines(defclass) \subseteq 1..Len(file)
         /\ Lines(Written) \subseteq 1..Len(file)
BY DEF LinesOnce, AllOut

\* parseLine() keeps what the buffers hold in each state.
LEMMA StepBuffers ==
  ASSUME DoxypyTypes, Buffers, LinesOnce, NEW line \in Shapes, parseLine(line)
  PROVE  Buffers'
<1>1. Reads(line)
  BY DEF parseLine, Reads
<1>2. /\ Len(file) \in Nat /\ Current \in Nat /\ Current = Len(file) + 1 /\ Current > 0
      /\ Len(file') = Current /\ file'[Current] = line
      /\ \A k \in 1..Len(file) : file'[k] = file[k] /\ k \in 1..Len(file') /\ k < Current
      /\ comment \in Seq(Nat) /\ defclass \in Seq(Nat) /\ indent \in Nat /\ ~ended
  BY <1>1, Numbers DEF DoxypyTypes, Reads
<1>3. state # "DEFCLASS_BODY" => /\ \A x \in Lines(comment) : x < Current
                                 /\ \A x \in Lines(defclass) : x < Current
  BY <1>2, WaitingRead
<1>4. Increasing(comment) /\ Increasing(defclass)
  BY DEF Buffers
<1>5. /\ state # "DEFCLASS_BODY" => /\ Increasing(Append(comment, Current))
                                    /\ Increasing(Append(defclass, Current))
      /\ Increasing(<<>>) /\ Increasing(<<Current>>)
  BY <1>2, <1>3, <1>4, AppendLines, FewLines
<1>6. indent \in 1..Len(file) /\ Defines(indent) => indent \in 1..Len(file') /\ "multi_start" \in file'[indent]
  BY <1>2 DEF Defines
<1>7. CASE Gathers(line)
  <2>1. /\ comment' = Append(comment, Current) /\ defclass' = defclass /\ indent' = indent
        /\ state # "DEFCLASS_BODY" /\ state' \notin HeaderStates /\ state' # "DEFCLASS_BODY"
        /\ state' \in HeadStates <=> state \in HeadStates
        /\ state' \notin HeadStates => state \in HeaderStates \cup DocstringStates
    BY <1>7 DEF Gathers, HeadStates, HeaderStates, DocstringStates
  <2>2. \A k \in DOMAIN comment' : comment'[k] \in Lines(comment) \cup {Current}
    BY <1>2, <2>1, AppendLines DEF Lines
  <2>3. ASSUME state' \notin HeadStates
        PROVE  /\ defclass' # <<>> /\ indent' = defclass'[1]
               /\ indent' \in 1..Len(file') /\ "multi_start" \in file'[indent']
               /\ \A k \in DOMAIN comment' : indent' < comment'[k]
    BY <1>2, <1>6, <2>1, <2>2, <2>3 DEF Buffers, Lines
  <2>. QED  BY <1>4, <1>5, <2>1, <2>3 DEF Buffers, Defines, HeadStates, HeaderStates, DocstringStates
<1>8. CASE Finishes(line)
  <2>1. /\ comment' = Append(comment, Current) /\ defclass' = <<>> /\ state' = "DEFCLASS_BODY"
        /\ state # "DEFCLASS_BODY"
    BY <1>8 DEF Finishes
  <2>. QED  BY <1>5, <2>1 DEF Buffers, HeadStates, HeaderStates, DocstringStates
<1>9. CASE HeadLine(line)
  <2>1. /\ comment' = <<>> /\ defclass' = defclass /\ indent' = indent
        /\ state \in HeadStates /\ state' \in {"FILEHEAD", "DEFCLASS_BODY"}
    BY <1>9 DEF HeadLine, HeadStates
  <2>. QED  BY <1>4, <1>5, <2>1 DEF Buffers, HeadStates, HeaderStates, DocstringStates
<1>10. CASE Stops(line)
  <2>1. comment' = comment /\ defclass' = <<>> /\ state' = "DEFCLASS_BODY"
    BY <1>10 DEF Stops
  <2>. QED  BY <1>4, <1>5, <2>1 DEF Buffers, HeadStates, HeaderStates, DocstringStates
<1>11. CASE Opens(line)
  <2>1. /\ comment' = <<>> /\ defclass' = <<Current>> /\ indent' = Current
        /\ state' \in HeaderStates
    BY <1>11 DEF Opens, HeaderStates
  <2>2. "multi_start" \in line
    BY <1>11, ShapeFacts DEF Opens
  <2>3. /\ indent' \in 1..Len(file') /\ "multi_start" \in file'[indent']
        /\ defclass' # <<>> /\ indent' = defclass'[1]
    BY <1>2, <2>1, <2>2
  <2>. QED  BY <1>5, <2>1, <2>3 DEF Buffers, Defines, HeadStates, HeaderStates, DocstringStates
<1>12. CASE BodyLine(line)
  <2>1. comment' = comment /\ defclass' = defclass /\ state' = state /\ state = "DEFCLASS_BODY"
    BY <1>12 DEF BodyLine
  <2>. QED  BY <1>4, <2>1 DEF Buffers, HeadStates, HeaderStates, DocstringStates
<1>13. CASE HeaderLine(line)
  <2>1. /\ comment' = comment /\ defclass' = Append(defclass, Current) /\ indent' = indent
        /\ state \in HeaderStates /\ state' \in HeaderStates /\ state # "DEFCLASS_BODY"
    BY <1>13 DEF HeaderLine, HeaderStates
  <2>2. defclass # <<>> /\ indent = defclass[1] /\ indent \in 1..Len(file) /\ Defines(indent) /\ comment = <<>>
    BY <2>1 DEF Buffers
  <2>3. defclass' # <<>> /\ defclass'[1] = defclass[1]
    BY <1>2, <2>1, <2>2
  <2>. QED  BY <1>4, <1>5, <1>6, <2>1, <2>2, <2>3 DEF Buffers, Defines, HeadStates, HeaderStates, DocstringStates
<1>. QED
  BY <1>7, <1>8, <1>9, <1>10, <1>11, <1>12, <1>13, Callbacks

\* parseLine() loses no line and writes none twice.
LEMMA StepLines ==
  ASSUME DoxypyTypes, Buffers, LinesOnce, NEW line \in Shapes, parseLine(line)
  PROVE  LinesOnce'
<1> DEFINE W == Lines(Written)  C == Lines(comment)  D == Lines(defclass)  N == 1..Len(file)
<1>1. Reads(line)
  BY DEF parseLine, Reads
<1>2. /\ Current \in Nat /\ 1..Len(file') = N \cup {Current} /\ Current \notin N
      /\ output \in Seq(Entry) /\ comment \in Seq(Nat) /\ defclass \in Seq(Nat)
      /\ indent \in Nat /\ 0 \in Nat /\ ~ended /\ ~ended'
  BY <1>1, Numbers DEF DoxypyTypes, Reads
<1>3. Increasing(comment) /\ Increasing(defclass)
  BY DEF Buffers
<1>4. /\ \A s \in Seq(Nat) : /\ Append(s, Current) \in Seq(Nat)
                             /\ Lines(Append(s, Current)) = Lines(s) \cup {Current}
      /\ <<>> \in Seq(Nat) /\ Lines(<<>>) = {} /\ Increasing(<<>>)
      /\ <<Current>> \in Seq(Nat) /\ Lines(<<Current>>) = {Current} /\ Increasing(<<Current>>)
  BY <1>2, AppendLines, FewLines
<1>5. state # "DEFCLASS_BODY" => /\ Increasing(Append(comment, Current))
                                 /\ Increasing(Append(defclass, Current))
  BY <1>2, <1>3, AppendLines, WaitingRead, Numbers, <1>1
<1>6. ASSUME NEW a \in Seq(Nat), NEW i \in Nat, NEW b \in Seq(Nat), output' = Close(output, a, i, b),
             Increasing(a), Increasing(b),
             W \cap Lines(a) = {}, W \cap Lines(b) = {}, Lines(a) \cap Lines(b) = {}
      PROVE  NoneTwice(Written)' /\ Lines(Written)' = W \cup Lines(a) \cup Lines(b)
  <2>1. Closes(output', output, a, i, b)
    BY <1>2, <1>6, Closing
  <2>2. Written = OutOf(output) /\ Written' = OutOf(output') /\ NoneTwice(Written)
    BY DEF Written, OutOf, LinesOnce
  <2>3. Lines(OutOf(output')) = Lines(OutOf(output)) \cup Lines(a) \cup Lines(b)
    BY <1>2, <2>1, ClosingLines
  <2>4. NoneTwice(OutOf(output'))
    BY <1>2, <1>6, <2>1, <2>2, ClosingOnce
  <2>. QED  BY <2>2, <2>3, <2>4
<1>7. ASSUME output' = output  PROVE NoneTwice(Written)' /\ Lines(Written)' = W
  BY <1>7 DEF Written, LinesOnce
<1>8. /\ state = "DEFCLASS_BODY" => W = N
      /\ state # "DEFCLASS_BODY" => /\ W \cup C \cup D = N
                                    /\ W \cap C = {} /\ W \cap D = {} /\ C \cap D = {}
  BY <1>2 DEF LinesOnce, AllOut
<1>9. AllOut' <=> state' = "DEFCLASS_BODY"
  BY <1>2 DEF AllOut
<1> HIDE DEF W, C, D, N
<1>10. SUFFICES /\ NoneTwice(Written)'
                /\ state' = "DEFCLASS_BODY" => Lines(Written)' = N \cup {Current}
                /\ state' # "DEFCLASS_BODY" =>
                     /\ Lines(Written)' \cup Lines(comment') \cup Lines(defclass') = N \cup {Current}
                     /\ Lines(Written)' \cap Lines(comment') = {}
                     /\ Lines(Written)' \cap Lines(defclass') = {}
                     /\ Lines(comment') \cap Lines(defclass') = {}
  BY <1>2, <1>9 DEF LinesOnce
<1>11. CASE Gathers(line)
  <2>1. /\ comment' = Append(comment, Current) /\ defclass' = defclass /\ output' = output
        /\ state # "DEFCLASS_BODY" /\ state' # "DEFCLASS_BODY"
    BY <1>11 DEF Gathers, HeadStates
  <2>2. Lines(comment') = C \cup {Current} /\ Lines(defclass') = D
    BY <1>2, <1>4, <2>1 DEF C, D
  <2>. QED  BY <1>2, <1>7, <1>8, <2>1, <2>2
<1>12. CASE Finishes(line)
  <2>1. /\ output' = Close(output, Append(comment, Current), indent, defclass)
        /\ state # "DEFCLASS_BODY" /\ state' = "DEFCLASS_BODY"
    BY <1>12 DEF Finishes
  <2>2. Append(comment, Current) \in Seq(Nat) /\ Lines(Append(comment, Current)) = C \cup {Current}
    BY <1>2, <1>4 DEF C
  <2>3. W \cap (C \cup {Current}) = {} /\ W \cap D = {} /\ (C \cup {Current}) \cap D = {}
    BY <1>2, <1>8, <2>1
  <2>4. NoneTwice(Written)' /\ Lines(Written)' = W \cup (C \cup {Current}) \cup D
    BY <1>2, <1>3, <1>5, <1>6, <2>1, <2>2, <2>3 DEF D
  <2>. QED  BY <1>8, <2>1, <2>4
<1>13. CASE HeadLine(line)
  <2>1. /\ output' = Close(output, comment, indent, <<Current>>)
        /\ comment' = <<>> /\ defclass' = defclass /\ state # "DEFCLASS_BODY"
        /\ defclass = <<>>
    BY <1>13 DEF HeadLine, Buffers, HeadStates
  <2>2. D = {} /\ Lines(comment') = {} /\ Lines(defclass') = {}
    BY <1>4, <2>1 DEF D
  <2>3. W \cap C = {} /\ W \cap {Current} = {} /\ C \cap {Current} = {}
    BY <1>2, <1>8, <2>1
  <2>4. /\ W \cap Lines(comment) = {} /\ W \cap Lines(<<Current>>) = {}
        /\ Lines(comment) \cap Lines(<<Current>>) = {}
    BY <1>4, <2>3 DEF C
  <2>5. NoneTwice(Written)' /\ Lines(Written)' = W \cup Lines(comment) \cup Lines(<<Current>>)
    BY <1>2, <1>3, <1>4, <1>6, <2>1, <2>4
  <2>6. Lines(Written)' = W \cup C \cup {Current}
    BY <1>4, <2>5 DEF C
  <2>. QED  BY <1>8, <2>1, <2>2, <2>5, <2>6
<1>14. CASE Stops(line)
  <2>1. /\ output' = Close(output, comment, indent, Append(defclass, Current))
        /\ state # "DEFCLASS_BODY" /\ state' = "DEFCLASS_BODY"
    BY <1>14 DEF Stops
  <2>2. Append(defclass, Current) \in Seq(Nat) /\ Lines(Append(defclass, Current)) = D \cup {Current}
    BY <1>2, <1>4 DEF D
  <2>3. W \cap C = {} /\ W \cap (D \cup {Current}) = {} /\ C \cap (D \cup {Current}) = {}
    BY <1>2, <1>8, <2>1
  <2> DEFINE b == Append(defclass, Current)
  <2>4. W \cap Lines(comment) = {} /\ W \cap Lines(b) = {} /\ Lines(comment) \cap Lines(b) = {}
    BY <2>2, <2>3 DEF C
  <2>5. b \in Seq(Nat) /\ Increasing(b) /\ output' = Close(output, comment, indent, b)
    BY <1>5, <2>1, <2>2
  <2> HIDE DEF b
  <2>6. NoneTwice(Written)' /\ Lines(Written)' = W \cup Lines(comment) \cup Lines(b)
    BY <1>2, <1>3, <1>6, <2>4, <2>5
  <2>7. Lines(Written)' = W \cup C \cup (D \cup {Current})
    BY <2>2, <2>6 DEF C, b
  <2>. QED  BY <1>8, <2>1, <2>6, <2>7
<1>15. CASE Opens(line)
  <2>1. comment' = <<>> /\ defclass' = <<Current>> /\ state' # "DEFCLASS_BODY"
    BY <1>15 DEF Opens
  <2>2. Lines(comment') = {} /\ Lines(defclass') = {Current}
    BY <1>4, <2>1
  <2>3. NoneTwice(Written)' /\ Lines(Written)' = N
    <3>1. CASE state # "DEFCLASS_BODY" /\ output' = Close(output, comment, indent, defclass)
      <4>1. NoneTwice(Written)' /\ Lines(Written)' = W \cup C \cup D
        BY <1>2, <1>3, <1>6, <1>8, <3>1 DEF C, D
      <4>. QED  BY <1>8, <3>1, <4>1
    <3>2. CASE state = "DEFCLASS_BODY" /\ output' = output
      BY <1>7, <1>8, <3>2
    <3>. QED  BY <1>15, <3>1, <3>2 DEF Opens
  <2>. QED  BY <1>2, <2>1, <2>2, <2>3
<1>16. CASE BodyLine(line)
  <2>1. /\ output' = Close(output, <<>>, 0, <<Current>>)
        /\ state = "DEFCLASS_BODY" /\ state' = "DEFCLASS_BODY"
    BY <1>16 DEF BodyLine
  <2>2. W \cap {} = {} /\ W \cap {Current} = {} /\ {} \cap {Current} = {}
    BY <1>2, <1>8, <2>1
  <2>3. NoneTwice(Written)' /\ Lines(Written)' = W \cup {} \cup {Current}
    <3>1. PICK a, b \in Seq(Nat) : a = <<>> /\ b = <<Current>>
      BY <1>4
    <3>2. Lines(a) = {} /\ Increasing(a) /\ Lines(b) = {Current} /\ Increasing(b)
      BY <1>4, <3>1
    <3>3. output' = Close(output, a, 0, b)
      BY <2>1, <3>1
    <3>4. NoneTwice(Written)' /\ Lines(Written)' = W \cup Lines(a) \cup Lines(b)
      BY <1>2, <1>6, <2>2, <3>2, <3>3
    <3>. QED  BY <3>2, <3>4
  <2>. QED  BY <1>8, <2>1, <2>3
<1>17. CASE HeaderLine(line)
  <2>1. /\ comment' = comment /\ defclass' = Append(defclass, Current) /\ output' = output
        /\ state # "DEFCLASS_BODY" /\ state' # "DEFCLASS_BODY"
    BY <1>17 DEF HeaderLine, HeaderStates
  <2>2. Lines(comment') = C /\ Lines(defclass') = D \cup {Current}
    BY <1>2, <1>4, <2>1 DEF C, D
  <2>. QED  BY <1>2, <1>7, <1>8, <2>1, <2>2
<1>. QED
  BY <1>11, <1>12, <1>13, <1>14, <1>15, <1>16, <1>17, Callbacks

-----------------------------------------------------------------------------
(* The order of the code, and the place of the blocks.                     *)

\* The lines of code are in order.
Ordered(o) ==
  \A p, q \in DOMAIN o : p < q /\ ~o[p].block /\ ~o[q].block => o[p].line < o[q].line

\* The block that entry p of o is in stands where DocstringAtItsDefinition says.
BlockAt(o, f, p) ==
  LET d == o[p].indent
      line == o[p].line
  IN  IF d = 0
      THEN \A q \in 1..(p - 1) :
             o[q].line < line /\ (o[q].block \/ "multi_start" \notin f[o[q].line])
      ELSE /\ d < line /\ "multi_start" \in f[d]
           /\ \E q \in DOMAIN o :
                /\ q > p /\ ~o[q].block /\ o[q].line = d
                /\ \A r \in p..(q - 1) : /\ o[r].block
                                         /\ o[r].indent = d
                                         /\ r > p => o[r].line > line

\* Every block that is out stands so.
BlocksAt(o, f) == \A p \in DOMAIN o : o[p].block => BlockAt(o, f, p)

\* Code that is closed after the code before it keeps the order.
LEMMA ClosingOrdered ==
  ASSUME NEW o \in Seq(Entry), NEW a \in Seq(Nat), NEW i \in Nat, NEW b \in Seq(Nat),
         NEW r, Closes(r, o, a, i, b), Ordered(o), Increasing(b),
         \A p \in DOMAIN o, k \in DOMAIN b : ~o[p].block => o[p].line < b[k]
  PROVE  Ordered(r)
<1> DEFINE Cod(p, k)  == k \in DOMAIN b /\ p = Len(o) + Len(a) + k /\ r[p].line = b[k]
<1>1. ASSUME NEW p \in DOMAIN r, ~r[p].block  PROVE p \in DOMAIN o \/ \E k : Cod(p, k)
  <2>1. ASSUME NEW k \in DOMAIN a, p = Len(o) + k  PROVE FALSE
    BY <1>1, <2>1, ClosedEntries
  <2>2. ASSUME NEW k \in DOMAIN b, p = Len(o) + Len(a) + k  PROVE Cod(p, k)
    BY <2>2, ClosedEntries
  <2> HIDE DEF Cod
  <2>. QED  BY <2>1, <2>2 DEF Closes
<1>2. /\ Len(o) \in Nat /\ Len(a) \in Nat /\ DOMAIN o = 1..Len(o)
      /\ DOMAIN b \subseteq Nat /\ \A k \in DOMAIN b : k > 0
  OBVIOUS
<1>3. ASSUME NEW p \in DOMAIN r, NEW q \in DOMAIN r, p < q, ~r[p].block, ~r[q].block
      PROVE  r[p].line < r[q].line
  <2>1. CASE p \in DOMAIN o /\ q \in DOMAIN o
    BY <1>3, <2>1 DEF Closes, Ordered
  <2>2. ASSUME p \in DOMAIN o, NEW k, Cod(q, k)  PROVE r[p].line < r[q].line
    BY <1>3, <2>2 DEF Closes
  <2>3. ASSUME q \in DOMAIN o, NEW k, Cod(p, k)  PROVE FALSE
    BY <1>2, <1>3, <2>3
  <2>4. ASSUME NEW k, NEW l, Cod(p, k), Cod(q, l)  PROVE r[p].line < r[q].line
    <3>1. k < l /\ k \in DOMAIN b /\ l \in DOMAIN b
      BY <1>2, <1>3, <2>4
    <3>. QED  BY <3>1, <2>4 DEF Increasing
  <2> HIDE DEF Cod
  <2>. QED  BY <1>1, <1>3, <2>1, <2>2, <2>3, <2>4
<1>. QED
  BY <1>3 DEF Ordered

\* A block that is out stays where it stands.
LEMMA BlockStays ==
  ASSUME NEW o \in Seq(Entry), NEW r \in Seq(Entry), NEW f, NEW g, NEW p \in DOMAIN o, BlockAt(o, f, p),
         \A q \in DOMAIN o : q \in DOMAIN r /\ r[q] = o[q],
         \A q \in DOMAIN o : g[o[q].line] = f[o[q].line]
  PROVE  BlockAt(r, g, p)
<1>1. DOMAIN o = 1..Len(o) /\ Len(o) \in Nat /\ p \in Nat
  OBVIOUS
<1>2. CASE o[p].indent = 0
  <2>1. ASSUME NEW q \in 1..(p - 1)
        PROVE  r[q].line < r[p].line /\ (r[q].block \/ "multi_start" \notin g[r[q].line])
    <3>1. q \in DOMAIN o
      BY <1>1
    <3>. QED  BY <1>2, <3>1 DEF BlockAt
  <2>. QED  BY <1>2, <2>1 DEF BlockAt
<1>3. CASE o[p].indent # 0
  <2> DEFINE d == o[p].indent  line == o[p].line
  <2>1. PICK q \in DOMAIN o :
          /\ q > p /\ ~o[q].block /\ o[q].line = d
          /\ \A k \in p..(q - 1) : /\ o[k].block /\ o[k].indent = d
                                   /\ k > p => o[k].line > line
    BY <1>3 DEF BlockAt
  <2>2. d < line /\ "multi_start" \in f[d]
    BY <1>3 DEF BlockAt
  <2>3. g[d] = f[d] /\ r[p].indent = d /\ r[p].line = line
    BY <2>1
  <2>4. q \in DOMAIN r /\ q > p /\ ~r[q].block /\ r[q].line = d
    BY <2>1
  <2>5. ASSUME NEW k \in p..(q - 1)
        PROVE  r[k].block /\ r[k].indent = d /\ (k > p => r[k].line > line)
    <3>1. k \in DOMAIN o
      BY <1>1
    <3>. QED  BY <2>1, <3>1
  <2> HIDE DEF d, line
  <2>6. d # 0
    BY <1>3 DEF d
  <2>. QED  BY <2>2, <2>3, <2>4, <2>5, <2>6 DEF BlockAt
<1>. QED
  BY <1>2, <1>3

\* The docstring of the head of the file comes after what is out.
LEMMA HeadBlock ==
  ASSUME NEW o \in Seq(Entry), NEW a \in Seq(Nat), NEW b \in Seq(Nat),
         NEW r, Closes(r, o, a, 0, b), NEW g, Increasing(a),
         \A q \in DOMAIN o : /\ \A k \in DOMAIN a : o[q].line < a[k]
                             /\ o[q].block \/ "multi_start" \notin g[o[q].line],
         NEW k \in DOMAIN a
  PROVE  BlockAt(r, g, Len(o) + k)
<1> DEFINE p == Len(o) + k
<1>1. /\ Len(o) \in Nat /\ Len(a) \in Nat /\ DOMAIN o = 1..Len(o) /\ DOMAIN a = 1..Len(a)
      /\ k \in Nat
  OBVIOUS
<1>2. r[p].line = a[k] /\ r[p].indent = 0
  BY ClosedEntries
<1>3. ASSUME NEW q \in 1..(p - 1)
      PROVE  r[q].line < a[k] /\ (r[q].block \/ "multi_start" \notin g[r[q].line])
  <2>1. CASE q \in DOMAIN o
    BY <2>1 DEF Closes
  <2>2. CASE q \notin DOMAIN o
    <3> DEFINE j == q - Len(o)
    <3>1. j \in DOMAIN a /\ j < k /\ q = Len(o) + j
      BY <1>1, <2>2
    <3> HIDE DEF j
    <3>2. r[q].line = a[j] /\ r[q].block
      BY <3>1, ClosedEntries
    <3>. QED  BY <3>1, <3>2 DEF Increasing
  <2>. QED  BY <2>1, <2>2
<1>. QED
  BY <1>2, <1>3 DEF BlockAt

\* The docstring of a definition comes immediately before it.
LEMMA HeaderBlock ==
  ASSUME NEW o \in Seq(Entry), NEW a \in Seq(Nat), NEW i \in Nat, NEW b \in Seq(Nat),
         NEW r, Closes(r, o, a, i, b), NEW g, Increasing(a), i # 0,
         b # <<>>, b[1] = i, "multi_start" \in g[i], \A j \in DOMAIN a : i < a[j],
         NEW k \in DOMAIN a
  PROVE  BlockAt(r, g, Len(o) + k)
<1> DEFINE p == Len(o) + k  q == Len(o) + Len(a) + 1
<1>1. /\ Len(o) \in Nat /\ Len(a) \in Nat /\ DOMAIN o = 1..Len(o) /\ DOMAIN a = 1..Len(a)
      /\ k \in 1..Len(a) /\ 1 \in DOMAIN b
  OBVIOUS
<1>2. r[p].line = a[k] /\ r[p].indent = i
  BY ClosedEntries
<1>3. q \in DOMAIN r
  BY <1>1 DEF Closes
<1>4. ~r[q].block /\ r[q].line = i
  BY <1>1, ClosedEntries
<1>5. ASSUME NEW s \in p..(q - 1)
      PROVE  r[s].block /\ r[s].indent = i /\ (s > p => r[s].line > a[k])
  <2> DEFINE j == s - Len(o)
  <2>1. j \in DOMAIN a /\ (s > p => k < j) /\ s = Len(o) + j
    BY <1>1
  <2> HIDE DEF j
  <2>2. r[s].line = a[j] /\ r[s].block /\ r[s].indent = i
    BY <2>1, ClosedEntries
  <2>3. a[j] \in Nat /\ a[k] \in Nat
    BY <2>1
  <2>. QED  BY <2>1, <2>2, <2>3 DEF Increasing
<1>6. q > p
  BY <1>1
<1> HIDE DEF p, q
<1>7. BlockAt(r, g, p)
  BY <1>2, <1>3, <1>4, <1>5, <1>6 DEF BlockAt
<1>. QED
  BY <1>7 DEF p

\* What is out has been read.
LEMMA OutRead ==
  ASSUME DoxypyTypes, LinesOnce
  PROVE  \A p \in DOMAIN output : output[p].line \in 1..Len(file)
<1>1. \A p \in DOMAIN output : output[p].line \in Lines(Written)
  BY DEF Lines, Written
<1>. QED
  BY <1>1 DEF LinesOnce

\* The steps keep the order of the code.
LEMMA StepCode ==
  ASSUME DoxypyTypes, Buffers, LinesOnce, CodeFirst, Ordered(output),
         NEW line \in Shapes, parseLine(line)
  PROVE  CodeFirst' /\ Ordered(output')
<1>1. Reads(line)
  BY DEF parseLine, Reads
<1>2. /\ Len(file) \in Nat /\ Current \in Nat /\ \A k \in 1..Len(file) : k < Current
      /\ output \in Seq(Entry) /\ comment \in Seq(Nat) /\ defclass \in Seq(Nat)
      /\ indent \in Nat /\ 0 \in Nat /\ ~ended
  BY <1>1, Numbers DEF DoxypyTypes, Reads
<1>3. \A p \in DOMAIN output : output[p].line < Current
  BY <1>2, OutRead
<1>4. \A p \in DOMAIN output, k \in DOMAIN defclass : ~output[p].block => output[p].line < defclass[k]
  BY <1>2 DEF CodeFirst
<1>5. ASSUME NEW a \in Seq(Nat), NEW i \in Nat, NEW b \in Seq(Nat), output' = Close(output, a, i, b),
             Increasing(b), \A k \in DOMAIN b : b[k] = Current \/ b[k] \in Lines(defclass)
      PROVE  Ordered(output')
  <2>1. Closes(output', output, a, i, b)
    BY <1>2, <1>5, Closing
  <2>2. \A p \in DOMAIN output, k \in DOMAIN b : ~output[p].block => output[p].line < b[k]
    BY <1>3, <1>4, <1>5 DEF Lines
  <2>. QED  BY <1>2, <1>5, <2>1, <2>2, ClosingOrdered
<1>6. /\ Increasing(defclass) /\ \A k \in DOMAIN defclass : defclass[k] \in Lines(defclass)
      /\ <<>> \in Seq(Nat) /\ <<Current>> \in Seq(Nat) /\ Increasing(<<Current>>)
      /\ Append(comment, Current) \in Seq(Nat) /\ Append(defclass, Current) \in Seq(Nat)
      /\ \A k \in DOMAIN <<Current>> : <<Current>>[k] = Current
  BY <1>2, FewLines, AppendLines DEF Buffers, Lines
<1>7. \A k \in DOMAIN Append(defclass, Current) :
        Append(defclass, Current)[k] = Current \/ Append(defclass, Current)[k] \in Lines(defclass)
  BY <1>2, AppendLines DEF Lines
<1>8. state # "DEFCLASS_BODY" => Increasing(Append(defclass, Current))
  BY <1>2, <1>6, AppendLines, WaitingRead
<1>9. ASSUME output' = output  PROVE Ordered(output')
  BY <1>9
<1>10. CASE Gathers(line)
  <2>1. defclass' = defclass /\ output' = output
    BY <1>10 DEF Gathers
  <2>. QED  BY <1>4, <1>9, <2>1 DEF CodeFirst
<1>11. CASE Finishes(line)
  <2>1. defclass' = <<>> /\ output' = Close(output, Append(comment, Current), indent, defclass)
    BY <1>11 DEF Finishes
  <2>2. Ordered(output')
    BY <1>2, <1>5, <1>6, <2>1
  <2>. QED  BY <2>1, <2>2 DEF CodeFirst
<1>12. CASE HeadLine(line)
  <2>1. defclass' = <<>> /\ output' = Close(output, comment, indent, <<Current>>)
    BY <1>12 DEF HeadLine, Buffers, HeadStates
  <2>2. Ordered(output')
    BY <1>2, <1>5, <1>6, <2>1
  <2>. QED  BY <2>1, <2>2 DEF CodeFirst
<1>13. CASE Stops(line)
  <2>1. /\ defclass' = <<>> /\ output' = Close(output, comment, indent, Append(defclass, Current))
        /\ state # "DEFCLASS_BODY"
    BY <1>13 DEF Stops
  <2> DEFINE b == Append(defclass, Current)
  <2>2. b \in Seq(Nat) /\ Increasing(b) /\ \A k \in DOMAIN b : b[k] = Current \/ b[k] \in Lines(defclass)
    BY <1>6, <1>7, <1>8, <2>1
  <2>3. output' = Close(output, comment, indent, b)
    BY <2>1
  <2> HIDE DEF b
  <2>4. Ordered(output')
    BY <1>2, <1>5, <2>2, <2>3
  <2>. QED  BY <2>1, <2>4 DEF CodeFirst
<1>14. CASE Opens(line)
  <2>1. defclass' = <<Current>>
    BY <1>14 DEF Opens
  <2>2. CASE output' = Close(output, comment, indent, defclass)
    <3>1. Ordered(output')
      BY <1>2, <1>5, <1>6, <2>2
    <3>2. Closes(output', output, comment, indent, defclass)
      BY <1>2, <2>2, Closing
    <3>3. state # "DEFCLASS_BODY" => \A k \in DOMAIN defclass : defclass[k] < Current
      BY <1>2, <1>6, WaitingRead
    <3>4. ASSUME NEW p \in DOMAIN output', ~output'[p].block, state # "DEFCLASS_BODY"
          PROVE  output'[p].line < Current
      <4>1. ASSUME p \in DOMAIN output  PROVE output'[p].line < Current
        BY <1>3, <3>2, <4>1 DEF Closes
      <4>2. ASSUME NEW k \in DOMAIN comment, p = Len(output) + k  PROVE FALSE
        BY <1>2, <3>2, <3>4, <4>2, ClosedEntries
      <4>3. ASSUME NEW k \in DOMAIN defclass, p = Len(output) + Len(comment) + k
            PROVE  output'[p].line < Current
        BY <1>2, <3>2, <3>3, <3>4, <4>3, ClosedEntries
      <4>. QED  BY <3>2, <4>1, <4>2, <4>3 DEF Closes
    <3>5. CASE state # "DEFCLASS_BODY"
      <4>1. \A p \in DOMAIN output', k \in DOMAIN defclass' :
              ~output'[p].block => output'[p].line < defclass'[k]
        BY <1>6, <2>1, <3>4, <3>5
      <4>. QED  BY <3>1, <4>1 DEF CodeFirst
    <3>6. CASE state = "DEFCLASS_BODY"
      <4>1. output' = output
        BY <1>14, <3>6 DEF Opens
      <4>2. \A p \in DOMAIN output', k \in DOMAIN defclass' :
              ~output'[p].block => output'[p].line < defclass'[k]
        BY <1>3, <1>6, <2>1, <4>1
      <4>. QED  BY <3>1, <4>2 DEF CodeFirst
    <3>. QED  BY <3>5, <3>6
  <2>3. CASE output' = output
    <3>1. \A p \in DOMAIN output', k \in DOMAIN defclass' :
            ~output'[p].block => output'[p].line < defclass'[k]
      BY <1>3, <1>6, <2>1, <2>3
    <3>. QED  BY <1>9, <2>3, <3>1 DEF CodeFirst
  <2>. QED  BY <1>14, <2>2, <2>3 DEF Opens
<1>15. CASE BodyLine(line)
  <2>1. defclass' = <<>> /\ output' = Close(output, <<>>, 0, <<Current>>)
    BY <1>15 DEF BodyLine, Buffers
  <2>2. Ordered(output')
    BY <1>2, <1>5, <1>6, <2>1
  <2>. QED  BY <2>1, <2>2 DEF CodeFirst
<1>16. CASE HeaderLine(line)
  <2>1. defclass' = Append(defclass, Current) /\ output' = output
    BY <1>16 DEF HeaderLine
  <2>2. \A p \in DOMAIN output, k \in DOMAIN defclass' : ~output[p].block => output[p].line < defclass'[k]
    BY <1>3, <1>4, <1>7, <2>1 DEF Lines
  <2>. QED  BY <1>9, <2>1, <2>2 DEF CodeFirst
<1>. QED
  BY <1>10, <1>11, <1>12, <1>13, <1>14, <1>15, <1>16, Callbacks

\* The steps put the blocks in their place.
LEMMA StepBlocks ==
  ASSUME DoxypyTypes, Buffers, LinesOnce, HeadFirst, BlocksAt(output, file),
         NEW line \in Shapes, parseLine(line)
  PROVE  HeadFirst' /\ BlocksAt(output', file')
<1>1. Reads(line)
  BY DEF parseLine, Reads
<1>2. /\ Len(file) \in Nat /\ Current \in Nat /\ file'[Current] = line
      /\ \A k \in 1..Len(file) : k < Current /\ file'[k] = file[k]
      /\ output \in Seq(Entry) /\ comment \in Seq(Nat) /\ defclass \in Seq(Nat)
      /\ indent \in Nat /\ 0 \in Nat /\ ~ended
  BY <1>1, Numbers DEF DoxypyTypes, Reads
<1>3. \A p \in DOMAIN output : output[p].line < Current /\ file'[output[p].line] = file[output[p].line]
  BY <1>2, OutRead
<1>4. /\ <<>> \in Seq(Nat) /\ <<Current>> \in Seq(Nat) /\ DOMAIN <<>> = {}
      /\ Append(comment, Current) \in Seq(Nat) /\ Append(defclass, Current) \in Seq(Nat)
  BY <1>2, FewLines, AppendLines
<1>5. /\ Increasing(comment)
      /\ state # "DEFCLASS_BODY" => Increasing(Append(comment, Current))
  BY <1>2, AppendLines, WaitingRead DEF Buffers
<1>6. ASSUME output' = output  PROVE BlocksAt(output', file')
  <2>1. ASSUME NEW p \in DOMAIN output, output[p].block  PROVE BlockAt(output, file', p)
    BY <1>2, <1>3, <2>1, BlockStays DEF BlocksAt
  <2>. QED  BY <1>6, <2>1 DEF BlocksAt
<1>7. ASSUME NEW a \in Seq(Nat), NEW i \in Nat, NEW b \in Seq(Nat), output' = Close(output, a, i, b),
             \A k \in DOMAIN a : BlockAt(output', file', Len(output) + k)
      PROVE  BlocksAt(output', file')
  <2>1. Closes(output', output, a, i, b)
    BY <1>2, <1>7, Closing
  <2>2. ASSUME NEW p \in DOMAIN output, output[p].block  PROVE BlockAt(output', file', p)
    <3>1. BlockAt(output, file, p)
      BY <2>2 DEF BlocksAt
    <3>2. output' \in Seq(Entry) /\ \A q \in DOMAIN output : q \in DOMAIN output' /\ output'[q] = output[q]
      BY <2>1 DEF Closes
    <3>3. \A q \in DOMAIN output : file'[output[q].line] = file[output[q].line]
      BY <1>3
    <3>4. output \in Seq(Entry) /\ p \in DOMAIN output
      BY <1>2
    <3>. QED  BY <3>1, <3>2, <3>3, <3>4, BlockStays, SMTT(40)
  <2>3. ASSUME NEW k \in DOMAIN b  PROVE ~output'[Len(output) + Len(a) + k].block
    BY <1>2, <2>1, ClosedEntries
  <2>4. ASSUME NEW p \in DOMAIN output', output'[p].block  PROVE BlockAt(output', file', p)
    BY <1>7, <2>1, <2>2, <2>3, <2>4 DEF Closes
  <2>. QED  BY <2>4 DEF BlocksAt
<1>8. ASSUME NEW b \in Seq(Nat), state \in HeadStates, output' = Close(output, comment, indent, b)
      PROVE  BlocksAt(output', file')
  <2>1. indent = 0 /\ Closes(output', output, comment, 0, b)
    BY <1>2, <1>8, Closing DEF Buffers
  <2>2. \A q \in DOMAIN output : /\ \A k \in DOMAIN comment : output[q].line < comment[k]
                                 /\ output[q].block \/ "multi_start" \notin file'[output[q].line]
    BY <1>3, <1>8 DEF HeadFirst, Defines
  <2>3. \A k \in DOMAIN comment : BlockAt(output', file', Len(output) + k)
    BY <1>2, <1>5, <2>1, <2>2, HeadBlock
  <2>. QED  BY <1>2, <1>7, <1>8, <2>1, <2>3
<1>9. ASSUME NEW a \in Seq(Nat), NEW b \in Seq(Nat), state \in HeaderStates \cup DocstringStates,
             output' = Close(output, a, indent, b), Increasing(a),
             \A k \in DOMAIN a : a[k] = Current \/ a[k] \in Lines(comment),
             b # <<>>, b[1] = defclass[1]
      PROVE  BlocksAt(output', file')
  <2>1. Closes(output', output, a, indent, b)
    BY <1>2, <1>9, Closing
  <2>2. /\ indent = defclass[1] /\ indent \in 1..Len(file) /\ "multi_start" \in file[indent]
        /\ \A k \in DOMAIN comment : indent < comment[k]
    BY <1>9 DEF Buffers, Defines
  <2>3. indent # 0 /\ "multi_start" \in file'[indent] /\ indent < Current
    BY <1>2, <2>2
  <2>4. \A k \in DOMAIN a : indent < a[k]
    BY <1>9, <2>2, <2>3 DEF Lines
  <2>5. \A k \in DOMAIN a : BlockAt(output', file', Len(output) + k)
    BY <1>2, <1>9, <2>1, <2>2, <2>3, <2>4, HeaderBlock
  <2>. QED  BY <1>2, <1>7, <1>9, <2>5
<1>10. CASE Gathers(line)
  <2>1. /\ output' = output /\ comment' = Append(comment, Current)
        /\ (state' \in HeadStates <=> state \in HeadStates)
    BY <1>10 DEF Gathers, HeadStates
  <2>2. \A k \in DOMAIN comment' : comment'[k] = Current \/ \E j \in DOMAIN comment : comment'[k] = comment[j]
    BY <1>2, <2>1, AppendLines DEF Lines
  <2>3. HeadFirst'
    BY <1>3, <2>1, <2>2 DEF HeadFirst, Defines
  <2>. QED  BY <1>6, <2>1, <2>3
<1>11. CASE Finishes(line)
  <2>1. /\ output' = Close(output, Append(comment, Current), indent, defclass)
        /\ state' \notin HeadStates /\ state \in HeaderStates \cup DocstringStates
        /\ state # "DEFCLASS_BODY"
    BY <1>11 DEF Finishes, HeadStates, HeaderStates, DocstringStates
  <2>2. HeadFirst'
    BY <2>1 DEF HeadFirst
  <2> DEFINE a == Append(comment, Current)
  <2>3. /\ a \in Seq(Nat) /\ Increasing(a)
        /\ \A k \in DOMAIN a : a[k] = Current \/ a[k] \in Lines(comment)
    BY <1>2, <1>5, <2>1, AppendLines DEF Lines
  <2>4. output' = Close(output, a, indent, defclass)
    BY <2>1
  <2> HIDE DEF a
  <2>5. defclass # <<>>
    BY <2>1 DEF Buffers
  <2>. QED  BY <1>2, <1>9, <2>1, <2>2, <2>3, <2>4, <2>5
<1>12. CASE HeadLine(line)
  <2>1. /\ output' = Close(output, comment, indent, <<Current>>) /\ state \in HeadStates
        /\ comment' = <<>> /\ "multi_start" \notin line
    BY <1>12 DEF HeadLine, HeadStates
  <2>2. Closes(output', output, comment, indent, <<Current>>)
    BY <1>2, <1>4, <2>1, Closing
  <2>3. ASSUME NEW p \in DOMAIN output', ~output'[p].block
        PROVE  "multi_start" \notin file'[output'[p].line]
    <3>1. ASSUME p \in DOMAIN output  PROVE "multi_start" \notin file'[output'[p].line]
      BY <1>3, <2>1, <2>2, <2>3, <3>1 DEF Closes, HeadFirst, Defines
    <3>2. ASSUME NEW k \in DOMAIN comment, p = Len(output) + k  PROVE FALSE
      BY <1>2, <1>4, <2>2, <2>3, <3>2, ClosedEntries
    <3>3. ASSUME NEW k \in DOMAIN <<Current>>, p = Len(output) + Len(comment) + k
          PROVE  "multi_start" \notin file'[output'[p].line]
      <4>0. output \in Seq(Entry) /\ comment \in Seq(Nat) /\ indent \in Nat /\ <<Current>> \in Seq(Nat)
        BY <1>2, <1>4
      <4> DEFINE b == <<Current>>
      <4>1. output'[p].line = b[k]
        <5>1. k \in DOMAIN b /\ b \in Seq(Nat) /\ Closes(output', output, comment, indent, b)
          BY <4>0, <2>2
        <5> HIDE DEF b
        <5>. QED  BY <4>0, <5>1, <3>3, ClosedEntries
      <4>2. <<Current>>[k] = Current
        OBVIOUS
      <4>. QED  BY <1>2, <2>1, <4>1, <4>2
    <3>. QED  BY <2>2, <3>1, <3>2, <3>3 DEF Closes
  <2>4. HeadFirst'
    BY <1>4, <2>1, <2>3 DEF HeadFirst, Defines
  <2>. QED  BY <1>4, <1>8, <2>1, <2>4
<1>13. CASE Stops(line)
  <2>1. /\ output' = Close(output, comment, indent, Append(defclass, Current))
        /\ state' \notin HeadStates /\ state \in HeaderStates
    BY <1>13 DEF Stops, HeadStates, HeaderStates
  <2>2. HeadFirst'
    BY <2>1 DEF HeadFirst
  <2>3. defclass # <<>> /\ Append(defclass, Current) # <<>> /\ Append(defclass, Current)[1] = defclass[1]
    BY <1>2, <2>1 DEF Buffers
  <2>4. \A k \in DOMAIN comment : comment[k] \in Lines(comment)
    BY DEF Lines
  <2> DEFINE b == Append(defclass, Current)
  <2>5. b \in Seq(Nat) /\ b # <<>> /\ b[1] = defclass[1] /\ output' = Close(output, comment, indent, b)
    BY <1>4, <2>1, <2>3
  <2> HIDE DEF b
  <2>. QED  BY <1>2, <1>5, <1>9, <2>1, <2>2, <2>4, <2>5
<1>14. CASE Opens(line)
  <2>1. state' \notin HeadStates
    BY <1>14 DEF Opens, HeadStates
  <2>2. HeadFirst'
    BY <2>1 DEF HeadFirst
  <2>3. CASE state = "FILEHEAD" /\ output' = Close(output, comment, indent, defclass)
    BY <1>2, <1>8, <2>2, <2>3 DEF HeadStates
  <2>4. CASE state = "DEFCLASS" /\ output' = Close(output, comment, indent, defclass)
    <3>1. defclass # <<>> /\ \A k \in DOMAIN comment : comment[k] \in Lines(comment)
      BY <2>4 DEF Buffers, HeaderStates, Lines
    <3>. QED  BY <1>2, <1>5, <1>9, <2>2, <2>4, <3>1 DEF HeaderStates
  <2>5. CASE output' = output
    BY <1>6, <2>2, <2>5
  <2>. QED  BY <1>14, <2>3, <2>4, <2>5 DEF Opens
<1>15. CASE BodyLine(line)
  <2>1. output' = Close(output, <<>>, 0, <<Current>>) /\ state' \notin HeadStates
    BY <1>15 DEF BodyLine, HeadStates
  <2>2. HeadFirst'
    BY <2>1 DEF HeadFirst
  <2>. QED  BY <1>2, <1>4, <1>7, <2>1, <2>2
<1>16. CASE HeaderLine(line)
  <2>1. output' = output /\ state' \notin HeadStates
    BY <1>16 DEF HeaderLine, HeadStates, HeaderStates
  <2>2. HeadFirst'
    BY <2>1 DEF HeadFirst
  <2>. QED  BY <1>6, <2>1, <2>2
<1>. QED
  BY <1>10, <1>11, <1>12, <1>13, <1>14, <1>15, <1>16, Callbacks

-----------------------------------------------------------------------------
(* Where docstrings are, and that none is missed.                          *)

\* What was read of a file does not change.
Longer(g, f) ==
  /\ f \in Seq(Shapes) /\ g \in Seq(Shapes) /\ Len(f) <= Len(g)
  /\ \A k \in 1..Len(f) : g[k] = f[k]

\* Nor does what was read of a header.
LEMMA HeadersStay ==
  ASSUME NEW f, NEW g, Longer(g, f), NEW d \in 1..Len(f), NEW h \in 1..(Len(f) + 1)
  PROVE  /\ h \in 1..Len(f) => (HeaderOf(g, d, h) <=> HeaderOf(f, d, h))
         /\ OpenAt(g, d, h) <=> OpenAt(f, d, h)
<1>1. Len(f) \in Nat /\ g[d] = f[d] /\ (h \in 1..Len(f) => g[h] = f[h])
  BY DEF Longer
<1>2. \A k \in (d + 1)..(h - 1) : g[k] = f[k]
  <2>1. \A k \in (d + 1)..(h - 1) : k \in 1..Len(f)
    BY <1>1
  <2>. QED  BY <2>1 DEF Longer
<1>. QED
  BY <1>1, <1>2 DEF HeaderOf, OpenAt

\* Nor do the empty lines after it.
LEMMA EmptyStays ==
  ASSUME NEW f, NEW g, Longer(g, f), NEW h \in Nat, NEW l \in 1..(Len(f) + 1),
         EmptyBetween(f, h, l)
  PROVE  EmptyBetween(g, h, l)
<1>1. ASSUME NEW k \in (h + 1)..(l - 1)  PROVE g[k] = {"empty"}
  <2>1. k \in 1..Len(f)
    BY DEF Longer
  <2>. QED  BY <1>1, <2>1 DEF EmptyBetween, Longer
<1>. QED
  BY <1>1 DEF EmptyBetween

\* A line of a header that is out stays one.
LEMMA HeldStays ==
  ASSUME NEW o \in Seq(Entry), NEW r,
         \A q \in DOMAIN o : q \in DOMAIN r /\ r[q] = o[q],
         NEW f, NEW g, Longer(g, f), \A q \in DOMAIN o : o[q].line \in 1..Len(f),
         NEW d \in 1..Len(f), Held(o, f, d)
  PROVE  Held(r, g, d)
<1>1. PICK q \in DOMAIN o : ~o[q].block /\ OpenAt(f, o[q].line, d)
  BY DEF Held
<1>2. OpenAt(g, o[q].line, d)
  <2>1. d \in 1..(Len(f) + 1) /\ o[q].line \in 1..Len(f)
    BY DEF Longer
  <2>. QED  BY <1>1, <2>1, HeadersStay
<1>. QED
  BY <1>1, <1>2 DEF Held

\* A docstring that is out stays where it is found.
LEMMA SettledStays ==
  ASSUME NEW o \in Seq(Entry), NEW r, NEW p \in DOMAIN o,
         \A q \in DOMAIN o : r[q] = o[q],
         NEW f, NEW g, Longer(g, f), NEW d \in 1..Len(f), Settled(o, f, p, d)
  PROVE  Settled(r, g, p, d)
<1>1. Len(f) \in Nat /\ Len(g) \in Nat /\ p \in Nat /\ \A q \in 1..(p - 1) : q \in DOMAIN o
  BY DEF Longer
<1>2. PICK h \in d..Len(f), l \in 1..Len(f) :
        /\ HeaderOf(f, d, h) /\ h < l /\ EmptyBetween(f, h, l) /\ f[l] # {"empty"}
        /\ \/ f[l] \cap {"single1", "start1", "single2", "start2"} = {}
           \/ \E e \in l..Len(f) :
                /\ \E q \in Quotes : DocstringOf(f, l, e, q)
                /\ InBlock(o, p, d, l, e)
  BY DEF Settled
<1>3. /\ l \in 1..Len(g) /\ g[l] = f[l] /\ l \in Nat /\ h \in 1..Len(f) /\ h \in d..Len(g)
      /\ h \in Nat /\ l \in 1..(Len(f) + 1) /\ h \in 1..(Len(f) + 1)
  BY <1>1 DEF Longer
<1>4. HeaderOf(g, d, h) /\ EmptyBetween(g, h, l)
  BY <1>2, <1>3, HeadersStay, EmptyStays
<1>5. CASE f[l] \cap {"single1", "start1", "single2", "start2"} = {}
  BY <1>2, <1>3, <1>4, <1>5 DEF Settled
<1>6. ASSUME NEW e \in l..Len(f), NEW q \in Quotes, DocstringOf(f, l, e, q), InBlock(o, p, d, l, e)
      PROVE  Settled(r, g, p, d)
  <2>1. e \in l..Len(g) /\ e \in 1..Len(f) /\ \A k \in (l + 1)..(e - 1) : k \in 1..Len(f)
    BY <1>1, <1>3 DEF Longer
  <2>2. g[e] = f[e] /\ \A k \in (l + 1)..(e - 1) : g[k] = f[k]
    BY <2>1 DEF Longer
  <2>3. DocstringOf(g, l, e, q)
    BY <1>3, <1>6, <2>2 DEF DocstringOf
  <2>4. InBlock(r, p, d, l, e)
    BY <1>1, <1>6 DEF InBlock
  <2>. QED  BY <1>2, <1>3, <1>4, <2>1, <2>3, <2>4 DEF Settled
<1>. QED
  BY <1>2, <1>5, <1>6

\* A header has one end.
LEMMA OneHeader ==
  ASSUME NEW f, NEW d \in Nat, NEW h \in Nat, NEW j \in Nat, HeaderOf(f, d, h), HeaderOf(f, d, j)
  PROVE  h = j
<1>1. CASE "defclass" \in f[d]
  BY <1>1 DEF HeaderOf
<1>2. CASE "defclass" \notin f[d]
  <2>1. /\ d < h /\ "multi_end" \in f[h] /\ \A k \in (d + 1)..(h - 1) : "multi_end" \notin f[k]
        /\ d < j /\ "multi_end" \in f[j] /\ \A k \in (d + 1)..(j - 1) : "multi_end" \notin f[k]
    BY <1>2 DEF HeaderOf
  <2>2. ~ (h < j) /\ ~ (j < h)
    BY <2>1
  <2>. QED  BY <2>2
<1>. QED
  BY <1>1, <1>2

\* The code that is out follows the docstrings that DocstringsAreFound asks for.
LEMMA SettledFound ==
  ASSUME DoxypyTypes, LinesOnce, CodeSettled
  PROVE  DocstringsAreFound
<1>0. SUFFICES ASSUME NEW p \in DOMAIN output, ~output[p].block,
                      Defines(output[p].line), ~Held(output, file, output[p].line)
               PROVE  \A h, l, e \in (output[p].line)..Len(file) :
                        (/\ HeaderOf(file, output[p].line, h) /\ h < l
                         /\ EmptyBetween(file, h, l)
                         /\ \/ Docstring(l, e, "single1", "start1", "end1")
                            \/ Docstring(l, e, "single2", "start2", "end2"))
                        => InBlock(output, p, output[p].line, l, e)
  BY DEF DocstringsAreFound, InBlock, EmptyBetween, Held, OpenAt, InHeader, HeaderOf,
         HeaderEnds, Defines
<1> DEFINE d == output[p].line
<1>1. SUFFICES ASSUME NEW h \in d..Len(file), NEW l \in d..Len(file), NEW e \in d..Len(file),
                      HeaderOf(file, d, h), h < l, EmptyBetween(file, h, l),
                      \/ Docstring(l, e, "single1", "start1", "end1")
                      \/ Docstring(l, e, "single2", "start2", "end2")
               PROVE  InBlock(output, p, d, l, e)
  OBVIOUS
<1>2. /\ Len(file) \in Nat /\ d \in 1..Len(file) /\ file \in Seq(Shapes)
  BY <1>1, OutRead DEF DoxypyTypes
<1>3. Settled(output, file, p, d) \/ Alone(file, d)
  BY <1>0 DEF CodeSettled
<1> HIDE DEF d
<1>4. PICK q \in Quotes : DocstringOf(file, l, e, q)
  BY <1>1 DEF Quotes, DocstringOf, Docstring
<1>5. /\ q[1] \in file[l] \/ q[2] \in file[l]
      /\ q = <<"single1", "start1", "end1">> \/ q = <<"single2", "start2", "end2">>
  BY <1>4 DEF DocstringOf, Quotes
<1>6. file[l] \in Shapes /\ file[l] # {"empty"} /\ h \in Nat /\ d \in Nat /\ l \in 1..Len(file)
  BY <1>2, <1>5
<1>7. ~Alone(file, d)
  <2>1. SUFFICES ASSUME NEW j \in d..Len(file), HeaderOf(file, d, j),
                        EmptyBetween(file, j, Len(file) + 1)
                 PROVE  FALSE
    BY DEF Alone
  <2>2. j = h
    BY <1>1, <1>2, <1>6, <2>1, OneHeader
  <2>. QED  BY <1>1, <1>2, <1>6, <2>1, <2>2 DEF EmptyBetween
<1>8. PICK j \in d..Len(file), m \in 1..Len(file) :
        /\ HeaderOf(file, d, j) /\ j < m /\ EmptyBetween(file, j, m) /\ file[m] # {"empty"}
        /\ \/ file[m] \cap {"single1", "start1", "single2", "start2"} = {}
           \/ \E u \in m..Len(file) :
                /\ \E v \in Quotes : DocstringOf(file, m, u, v)
                /\ InBlock(output, p, d, m, u)
  BY <1>3, <1>7 DEF Settled
<1>9. m = l
  <2>0. j = h
    BY <1>1, <1>2, <1>6, <1>8, OneHeader
  <2>1. ~ (l < m)
    BY <1>1, <1>2, <1>6, <1>8, <2>0 DEF EmptyBetween
  <2>2. ~ (m < l)
    BY <1>1, <1>2, <1>6, <1>8, <2>0 DEF EmptyBetween
  <2>. QED  BY <1>2, <1>6, <2>1, <2>2
<1>10. PICK u \in l..Len(file), v \in Quotes : DocstringOf(file, l, u, v) /\ InBlock(output, p, d, l, u)
  BY <1>5, <1>8, <1>9
<1>11. v = q
  BY <1>5, <1>6, <1>10, ShapeFacts DEF DocstringOf, Quotes
<1>12. u = e
  <2>1. CASE q[1] \in file[l]
    BY <1>4, <1>10, <1>11, <2>1 DEF DocstringOf
  <2>2. CASE q[1] \notin file[l]
    <3>1. /\ q[3] \in file[e] /\ l < e /\ \A k \in (l + 1)..(e - 1) : q[3] \notin file[k]
          /\ q[3] \in file[u] /\ l < u /\ \A k \in (l + 1)..(u - 1) : q[3] \notin file[k]
      BY <1>4, <1>10, <1>11, <2>2 DEF DocstringOf
    <3>2. ~ (e < u) /\ ~ (u < e)
      BY <1>2, <1>6, <3>1
    <3>. QED  BY <1>2, <1>6, <3>2
  <2>. QED  BY <2>1, <2>2
<1>. QED
  BY <1>10, <1>12

\* What the steps do to a definition that waits.
LEMMA StepHeader ==
  ASSUME DoxypyTypes, Buffers, LinesOnce, HeaderSettled, NEW line \in Shapes, parseLine(line)
  PROVE  HeaderSettled'
<1>1. Reads(line)
  BY DEF parseLine, Reads
<1>2. /\ Len(file) \in Nat /\ Current \in Nat /\ Current = Len(file) + 1 /\ file'[Current] = line
      /\ file \in Seq(Shapes) /\ file' \in Seq(Shapes) /\ Len(file') = Current
      /\ \A k \in 1..Len(file) : file'[k] = file[k]
      /\ comment \in Seq(Nat) /\ defclass \in Seq(Nat) /\ indent \in Nat /\ ~ended
  BY <1>1, Numbers DEF DoxypyTypes, Reads
<1>3. Longer(file', file)
  BY <1>2 DEF Longer
<1>4. /\ state \in HeaderStates \cup DocstringStates =>
           /\ defclass # <<>> /\ indent = defclass[1] /\ indent \in 1..Len(file)
           /\ \A k \in DOMAIN defclass : defclass[k] \in 1..Len(file)
      /\ state \in HeaderStates => comment = <<>>
  BY <1>2, WaitingRead DEF Buffers, HeaderStates, DocstringStates, Lines
<1>5. ASSUME state \in HeaderStates \cup DocstringStates,
             NEW k \in DOMAIN defclass, k > 1, "multi_start" \in file'[defclass[k]]
      PROVE  OpenAt(file', indent, defclass[k])
  <2>1. defclass[k] \in 1..Len(file) /\ defclass[k] \in 1..(Len(file) + 1) /\ indent \in 1..Len(file)
    BY <1>2, <1>4, <1>5
  <2>2. OpenAt(file, indent, defclass[k])
    BY <1>2, <1>5, <2>1 DEF HeaderSettled, Defines
  <2>. QED  BY <1>3, <2>1, <2>2, HeadersStay
<1>6. ASSUME NEW h \in indent..Len(file), HeaderOf(file, indent, h),
             NEW l \in 1..Current, EmptyBetween(file, h, l),
             state \in HeaderStates \cup DocstringStates
      PROVE  /\ h \in indent..Len(file') /\ HeaderOf(file', indent, h) /\ h \in Nat
             /\ EmptyBetween(file', h, l)
  <2>1. /\ indent \in 1..Len(file) /\ h \in 1..Len(file) /\ h \in 1..(Len(file) + 1) /\ h \in Nat
        /\ l \in 1..(Len(file) + 1) /\ h \in indent..Len(file')
    BY <1>2, <1>4, <1>6
  <2>. QED  BY <1>3, <1>6, <2>1, HeadersStay, EmptyStays
<1>8. CASE Gathers(line)
  <2>1. comment' = Append(comment, Current) /\ defclass' = defclass /\ indent' = indent
    BY <1>8 DEF Gathers
  <2>2. ASSUME NEW q, state = "DEFCLASS", q[2] \in line, q[1] \notin line
        PROVE  Gathered(q)'
    <3>1. comment' = <<Current>>
      BY <1>2, <1>4, <2>1, <2>2 DEF HeaderStates
    <3>2. /\ comment' # <<>> /\ comment'[1] = Current /\ Len(comment') = 1
          /\ \A k \in DOMAIN comment' : k = 1
      BY <3>1
    <3>3. PICK h \in indent..Len(file) :
            HeaderOf(file, indent, h) /\ EmptyBetween(file, h, Current)
      BY <1>2, <2>2 DEF HeaderSettled, Alone
    <3>4. /\ h \in indent'..Len(file') /\ HeaderOf(file', indent', h) /\ h < Current
          /\ EmptyBetween(file', h, Current)
      <4>1. Current \in 1..Current /\ h < Current
        BY <1>2
      <4>. QED  BY <1>6, <2>1, <2>2, <3>3, <4>1 DEF HeaderStates
    <3>5. Gathering(file', h, comment', q)
      BY <1>2, <2>2, <3>2, <3>4 DEF Gathering
    <3>. QED  BY <3>4, <3>5 DEF Gathered
  <2>3. ASSUME NEW q, Gathered(q), q[3] \notin line, state \in DocstringStates
        PROVE  Gathered(q)'
    <3>0. PICK h \in indent..Len(file) :
            HeaderOf(file, indent, h) /\ Gathering(file, h, comment, q)
      BY <2>3 DEF Gathered
    <3>1. /\ comment # <<>> /\ comment[1] + Len(comment) = Len(file) + 1 /\ h < comment[1]
          /\ \A k \in DOMAIN comment : comment[k] = comment[1] + (k - 1)
          /\ EmptyBetween(file, h, comment[1])
          /\ q[2] \in file[comment[1]] /\ q[1] \notin file[comment[1]]
          /\ \A k \in (comment[1] + 1)..Len(file) : q[3] \notin file[k]
      BY <3>0 DEF Gathering
    <3>2. /\ Len(comment) \in Nat /\ Len(comment) > 0 /\ comment[1] \in Nat
          /\ Len(comment') = Len(comment) + 1
          /\ \A k \in 1..Len(comment) : comment'[k] = comment[k]
          /\ comment'[Len(comment) + 1] = Current
          /\ DOMAIN comment = 1..Len(comment) /\ DOMAIN comment' = 1..(Len(comment) + 1)
      <4>1. comment \in Seq(Nat) /\ Current \in Nat /\ comment' = Append(comment, Current)
        BY <1>2, <2>1
      <4>2. comment # <<>>
        BY <3>1
      <4>. QED  BY <4>1, <4>2
    <3>3. comment[1] \in 1..Len(file)
      BY <1>2, <3>1, <3>2
    <3>4. comment'[1] = comment[1] /\ comment' # <<>>
      BY <3>2
    <3>5. ASSUME NEW k \in DOMAIN comment'  PROVE comment'[k] = comment'[1] + (k - 1)
      <4>1. CASE k \in 1..Len(comment)
        BY <3>1, <3>2, <3>4, <4>1
      <4>2. CASE k = Len(comment) + 1
        BY <1>2, <3>1, <3>2, <3>4, <4>2
      <4>. QED  BY <3>2, <4>1, <4>2
    <3>6. /\ h \in indent'..Len(file') /\ HeaderOf(file', indent', h)
          /\ EmptyBetween(file', h, comment[1])
      BY <1>2, <1>6, <2>1, <2>3, <3>0, <3>1, <3>3
    <3>7. ASSUME NEW k \in (comment[1] + 1)..Len(file')  PROVE q[3] \notin file'[k]
      <4>1. CASE k = Current
        BY <1>2, <2>3, <4>1
      <4>2. CASE k # Current
        <5>1. k \in (comment[1] + 1)..Len(file) /\ k \in 1..Len(file)
          BY <1>2, <3>2, <4>2
        <5>. QED  BY <1>2, <3>1, <5>1
      <4>. QED  BY <4>1, <4>2
    <3>8. comment'[1] + Len(comment') = Len(file') + 1
      <4>1. comment[1] + Len(comment) = Len(file) + 1 /\ Len(file') = Len(file) + 1
        BY <1>2, <3>1
      <4>2. Len(comment') = Len(comment) + 1 /\ Len(comment) \in Nat /\ comment[1] \in Nat
        BY <3>2
      <4>. QED  BY <1>2, <3>4, <4>1, <4>2
    <3>8a. h < comment'[1]
      BY <3>1, <3>4
    <3>9. q[2] \in file'[comment[1]] /\ q[1] \notin file'[comment[1]]
      BY <1>2, <3>1, <3>3
    <3>10. Gathering(file', h, comment', q)
      BY <3>4, <3>5, <3>6, <3>7, <3>8, <3>8a, <3>9 DEF Gathering
    <3>. QED  BY <3>6, <3>10 DEF Gathered
  <2>4. CASE state \in HeadStates /\ state' \in HeadStates
    BY <2>4 DEF HeaderSettled, HeadStates, HeaderStates, DocstringStates
  <2>5. CASE /\ state = "DEFCLASS" /\ state' = "COMMENT_SINGLE"
             /\ "start1" \in line /\ "single1" \notin line
    <3>1. Gathered(<<"single1", "start1", "end1">>)'
      BY <2>2, <2>5
    <3>. QED  BY <1>5, <2>1, <2>5, <3>1 DEF HeaderSettled, HeaderStates, Defines
  <2>6. CASE /\ state = "DEFCLASS" /\ state' = "COMMENT_DOUBLE"
             /\ "start2" \in line /\ "single2" \notin line
    <3>1. Gathered(<<"single2", "start2", "end2">>)'
      BY <2>2, <2>6
    <3>. QED  BY <1>5, <2>1, <2>6, <3>1 DEF HeaderSettled, HeaderStates, Defines
  <2>7. CASE state = "COMMENT_SINGLE" /\ state' = state /\ "end1" \notin line
    <3>1. Gathered(<<"single1", "start1", "end1">>)'
      BY <2>3, <2>7 DEF HeaderSettled, DocstringStates
    <3>. QED  BY <1>5, <2>1, <2>7, <3>1 DEF HeaderSettled, HeaderStates, DocstringStates, Defines
  <2>8. CASE state = "COMMENT_DOUBLE" /\ state' = state /\ "end2" \notin line
    <3>1. Gathered(<<"single2", "start2", "end2">>)'
      BY <2>3, <2>8 DEF HeaderSettled, DocstringStates
    <3>. QED  BY <1>5, <2>1, <2>8, <3>1 DEF HeaderSettled, HeaderStates, DocstringStates, Defines
  <2>. QED  BY <1>8, <2>4, <2>5, <2>6, <2>7, <2>8 DEF Gathers
<1>9. CASE state' = "DEFCLASS_BODY" \/ state' \in HeadStates
  BY <1>9 DEF HeaderSettled, HeadStates, HeaderStates, DocstringStates
<1>10. CASE Opens(line)
  <2>1. defclass' = <<Current>> /\ indent' = Current
    BY <1>10 DEF Opens
  <2>2. \A k \in DOMAIN defclass' : ~ (k > 1)
    BY <2>1
  <2>3. CASE state' = "DEFCLASS" /\ "defclass" \in line
    <3>1. HeaderOf(file', Current, Current) /\ EmptyBetween(file', Current, Len(file') + 1)
      BY <1>2, <2>3, ShapeFacts DEF HeaderOf, EmptyBetween
    <3>2. Current \in Current..Len(file')
      BY <1>2
    <3>3. Alone(file', indent')
      BY <2>1, <3>1, <3>2 DEF Alone
    <3>. QED  BY <2>2, <2>3, <3>3 DEF HeaderSettled
  <2>4. CASE state' = "DEFCLASS_MULTI" /\ "multi_start" \in line /\ "defclass" \notin line
    <3>1. OpenAt(file', indent', Len(file') + 1)
      BY <1>2, <2>1, <2>4 DEF OpenAt
    <3>. QED  BY <2>2, <2>4, <3>1 DEF HeaderSettled
  <2>. QED  BY <1>10, <2>3, <2>4 DEF Opens
<1>11. CASE HeaderLine(line)
  <2>1. /\ defclass' = Append(defclass, Current) /\ indent' = indent
        /\ state \in HeaderStates /\ state' \in HeaderStates
        /\ state = "DEFCLASS" => state' = "DEFCLASS" /\ line = {"empty"}
        /\ state = "DEFCLASS_MULTI" =>
             state' = IF "multi_end" \in line THEN "DEFCLASS" ELSE "DEFCLASS_MULTI"
    BY <1>11 DEF HeaderLine
  <2>2. indent \in 1..Len(file) /\ indent \in Nat /\ indent < Current
    BY <1>2, <1>4, <2>1
  <2>3. state = "DEFCLASS_MULTI" => OpenAt(file', indent, Current)
    <3>1. state = "DEFCLASS_MULTI" => OpenAt(file, indent, Current)
      BY <1>2 DEF HeaderSettled
    <3>2. Current \in 1..(Len(file) + 1)
      BY <1>2
    <3>. QED  BY <1>3, <2>2, <3>1, <3>2, HeadersStay
  <2>4. ASSUME NEW k \in DOMAIN defclass', k > 1, "multi_start" \in file'[defclass'[k]]
        PROVE  OpenAt(file', indent, defclass'[k])
    <3>1. CASE k \in DOMAIN defclass
      <4>1. defclass'[k] = defclass[k]
        BY <1>2, <2>1, <3>1
      <4>. QED  BY <1>5, <2>1, <2>4, <3>1, <4>1
    <3>2. CASE k \notin DOMAIN defclass
      <4>1. defclass'[k] = Current
        BY <1>2, <2>1, <3>2
      <4>. QED  BY <1>2, <2>1, <2>3, <2>4, <4>1 DEF HeaderStates
    <3>. QED  BY <3>1, <3>2
  <2>5. ASSUME NEW h \in indent..Len(file), HeaderOf(file, indent, h),
               EmptyBetween(file, h, Current), line = {"empty"}
        PROVE  Alone(file', indent)
    <3>1. Current \in 1..Current
      BY <1>2
    <3>2. /\ h \in indent..Len(file') /\ HeaderOf(file', indent, h)
          /\ EmptyBetween(file', h, Current)
      BY <1>6, <2>1, <2>5, <3>1
    <3>3. ASSUME NEW k \in (h + 1)..Current  PROVE file'[k] = {"empty"}
      <4>1. CASE k = Current
        BY <1>2, <2>5, <4>1
      <4>2. CASE k # Current
        <5>1. k \in (h + 1)..(Current - 1)
          BY <1>2, <2>2, <4>2
        <5>. QED  BY <3>2, <5>1 DEF EmptyBetween
      <4>. QED  BY <4>1, <4>2
    <3>4. Len(file') + 1 - 1 = Current
      BY <1>2
    <3>5. EmptyBetween(file', h, Len(file') + 1)
      BY <3>3, <3>4 DEF EmptyBetween
    <3>. QED  BY <3>2, <3>5 DEF Alone
  <2>6. CASE state = "DEFCLASS"
    <3>1. PICK h \in indent..Len(file) :
            HeaderOf(file, indent, h) /\ EmptyBetween(file, h, Current)
      BY <1>2, <2>6 DEF HeaderSettled, Alone
    <3>2. Alone(file', indent')
      BY <2>1, <2>5, <2>6, <3>1
    <3>. QED  BY <2>1, <2>4, <2>6, <3>2 DEF HeaderSettled, Defines
  <2>7. CASE state = "DEFCLASS_MULTI" /\ "multi_end" \in line
    <3>1. HeaderOf(file', indent, Current)
      BY <1>2, <2>2, <2>3, <2>7 DEF HeaderOf, OpenAt
    <3>2. Current \in indent..Len(file') /\ EmptyBetween(file', Current, Len(file') + 1)
      BY <1>2, <2>2 DEF EmptyBetween
    <3>3. Alone(file', indent')
      BY <2>1, <3>1, <3>2 DEF Alone
    <3>. QED  BY <2>1, <2>4, <2>7, <3>3 DEF HeaderSettled, Defines
  <2>8. CASE state = "DEFCLASS_MULTI" /\ "multi_end" \notin line
    <3>1. ASSUME NEW k \in (indent + 1)..(Len(file') + 1 - 1)  PROVE "multi_end" \notin file'[k]
      <4>1. CASE k = Current
        BY <1>2, <2>8, <4>1
      <4>2. CASE k # Current
        <5>1. k \in (indent + 1)..(Current - 1)
          BY <1>2, <2>2, <4>2
        <5>. QED  BY <2>3, <2>8, <5>1 DEF OpenAt
      <4>. QED  BY <4>1, <4>2
    <3>2. OpenAt(file', indent', Len(file') + 1)
      BY <1>2, <2>1, <2>2, <2>3, <2>8, <3>1 DEF OpenAt
    <3>. QED  BY <2>1, <2>4, <2>8, <3>2 DEF HeaderSettled, Defines
  <2>. QED  BY <2>1, <2>6, <2>7, <2>8 DEF HeaderStates
<1>. QED
  BY <1>8, <1>9, <1>10, <1>11, Callbacks DEF Finishes, HeadLine, Stops, BodyLine, HeadStates

\* The docstring that a step ends: after the header of the definition that waits,
\* and all of it gathered.
LEMMA FinishedDocstring ==
  ASSUME DoxypyTypes, Buffers, HeaderSettled, NEW line \in Shapes, Finishes(line),
         NEW a, a = Append(comment, Current)
  PROVE  \E h \in indent..Len(file), l \in 1..Current, q \in Quotes :
           /\ HeaderOf(file', indent, h) /\ h < l /\ EmptyBetween(file', h, l)
           /\ file'[l] # {"empty"} /\ DocstringOf(file', l, Current, q)
           /\ Current = l + Len(a) - 1 /\ \A k \in DOMAIN a : a[k] = l + (k - 1)
<1>1. Reads(line)
  BY DEF Finishes
<1>2. /\ Len(file) \in Nat /\ Current \in Nat /\ Current = Len(file) + 1 /\ file'[Current] = line
      /\ file \in Seq(Shapes) /\ file' \in Seq(Shapes) /\ Len(file') = Current
      /\ \A k \in 1..Len(file) : file'[k] = file[k]
      /\ comment \in Seq(Nat) /\ indent \in Nat
  BY <1>1, Numbers DEF DoxypyTypes, Reads
<1>3. Longer(file', file)
  BY <1>2 DEF Longer
<1>4. indent \in 1..Len(file)
  BY DEF Finishes, Buffers, HeaderStates, DocstringStates
<1>5. ASSUME NEW h \in indent..Len(file), HeaderOf(file, indent, h),
             NEW l \in 1..Current, EmptyBetween(file, h, l)
      PROVE  HeaderOf(file', indent, h) /\ EmptyBetween(file', h, l)
  <2>1. h \in 1..Len(file) /\ h \in 1..(Len(file) + 1) /\ h \in Nat /\ l \in 1..(Len(file) + 1)
    BY <1>2, <1>4
  <2>. QED  BY <1>3, <1>4, <1>5, <2>1, HeadersStay, EmptyStays
<1>6. CASE state = "DEFCLASS" /\ ("single1" \in line \/ "single2" \in line)
  <2>1. a = <<Current>>
    BY <1>6 DEF Buffers, HeaderStates
  <2>2. Len(a) = 1 /\ DOMAIN a = {1} /\ a[1] = Current
    BY <1>2, <2>1
  <2>3. Current = Current + Len(a) - 1 /\ \A k \in DOMAIN a : a[k] = Current + (k - 1)
    BY <1>2, <2>2
  <2>4. PICK q \in Quotes : q[1] \in line
    BY <1>6 DEF Quotes
  <2>5. DocstringOf(file', Current, Current, q) /\ file'[Current] # {"empty"}
    BY <1>2, <2>4 DEF DocstringOf, Quotes
  <2>6. PICK h \in indent..Len(file) :
          HeaderOf(file, indent, h) /\ EmptyBetween(file, h, Current)
    BY <1>2, <1>6 DEF HeaderSettled, Alone
  <2>7. Current \in 1..Current /\ h < Current
    BY <1>2
  <2>8. HeaderOf(file', indent, h) /\ EmptyBetween(file', h, Current)
    BY <1>5, <2>6, <2>7
  <2>. QED  BY <2>3, <2>5, <2>7, <2>8
<1>7. ASSUME NEW q \in Quotes, Gathered(q), q[3] \in line
      PROVE  \E h \in indent..Len(file), l \in 1..Current :
               /\ HeaderOf(file', indent, h) /\ h < l /\ EmptyBetween(file', h, l)
               /\ file'[l] # {"empty"} /\ DocstringOf(file', l, Current, q)
               /\ Current = l + Len(a) - 1 /\ \A k \in DOMAIN a : a[k] = l + (k - 1)
  <2>0. PICK h \in indent..Len(file) :
          HeaderOf(file, indent, h) /\ Gathering(file, h, comment, q)
    BY <1>7 DEF Gathered
  <2> DEFINE l == comment[1]
  <2>1. /\ comment # <<>> /\ l + Len(comment) = Len(file) + 1 /\ h < l
        /\ \A k \in DOMAIN comment : comment[k] = l + (k - 1)
        /\ EmptyBetween(file, h, l)
        /\ q[2] \in file[l] /\ q[1] \notin file[l]
        /\ \A k \in (l + 1)..Len(file) : q[3] \notin file[k]
    BY <2>0 DEF Gathering
  <2>2. /\ Len(comment) \in Nat /\ Len(comment) > 0 /\ l \in Nat
        /\ DOMAIN comment = 1..Len(comment)
    BY <1>2, <2>1, SMTT(40)
  <2>3. /\ Len(a) = Len(comment) + 1 /\ DOMAIN a = 1..(Len(comment) + 1)
        /\ a[Len(comment) + 1] = Current
        /\ \A k \in 1..Len(comment) : a[k] = comment[k]
    BY <1>2
  <2> HIDE DEF l
  <2>4. ASSUME NEW k \in DOMAIN a  PROVE a[k] = l + (k - 1)
    <3>1. CASE k \in 1..Len(comment)
      BY <2>1, <2>2, <2>3, <3>1
    <3>2. CASE k = Len(comment) + 1
      BY <1>2, <2>1, <2>2, <2>3, <3>2
    <3>. QED  BY <2>2, <2>3, <3>1, <3>2
  <2>4a. l > 0
    BY <1>2, <1>4, <2>1, <2>2
  <2>5. Current = l + Len(a) - 1 /\ l \in 1..Len(file) /\ l \in 1..Current /\ l < Current
    <3>1. l + Len(comment) = Len(file) + 1 /\ Len(a) = Len(comment) + 1
      BY <2>1, <2>3
    <3>2. Len(comment) \in Nat /\ Len(comment) > 0 /\ l \in Nat
      BY <2>2
    <3>. QED  BY <1>2, <2>4a, <3>1, <3>2
  <2>6. file'[l] = file[l] /\ file'[l] # {"empty"}
    BY <1>2, <1>7, <2>1, <2>5 DEF Quotes
  <2>7. ASSUME NEW k \in (l + 1)..(Current - 1)  PROVE q[3] \notin file'[k]
    <3>1. k \in (l + 1)..Len(file) /\ k \in 1..Len(file)
      BY <1>2, <2>2
    <3>. QED  BY <1>2, <2>1, <3>1
  <2>8. DocstringOf(file', l, Current, q)
    BY <1>2, <1>7, <2>1, <2>5, <2>6, <2>7 DEF DocstringOf
  <2>9. HeaderOf(file', indent, h) /\ EmptyBetween(file', h, l)
    BY <1>5, <2>0, <2>1, <2>5
  <2>. QED  BY <2>1, <2>4, <2>5, <2>6, <2>8, <2>9
<1>8. CASE state = "COMMENT_SINGLE" /\ "end1" \in line
  <2>1. PICK q \in Quotes : Gathered(q) /\ q[3] \in line
    BY <1>8 DEF HeaderSettled, Quotes
  <2>. QED  BY <1>7, <2>1
<1>9. CASE state = "COMMENT_DOUBLE" /\ "end2" \in line
  <2>1. PICK q \in Quotes : Gathered(q) /\ q[3] \in line
    BY <1>9 DEF HeaderSettled, Quotes
  <2>. QED  BY <1>7, <2>1
<1>. QED
  BY <1>6, <1>8, <1>9 DEF Finishes

\* A docstring that is out still follows its header.
LEMMA BelowStays ==
  ASSUME NEW o \in Seq(Entry), NEW r, \A q \in DOMAIN o : r[q] = o[q],
         NEW f, NEW g, Longer(g, f), NEW p \in DOMAIN o, o[p].line \in 1..Len(f),
         o[p].indent # 0, BelowHeader(o, f, p)
  PROVE  BelowHeader(r, g, p)
<1> DEFINE d == o[p].indent  n == o[p].line
<1>1. /\ Len(f) \in Nat /\ p \in Nat /\ d \in Nat /\ n \in 1..Len(f) /\ d # 0
      /\ \A q \in 1..(p - 1) : q \in DOMAIN o
  <2>1. o[p] \in Entry
    OBVIOUS
  <2>. QED  BY <2>1 DEF Entry, Longer
<1>2. r[p].indent = d /\ r[p].line = n
  OBVIOUS
<1>3. PICK h \in d..(n - 1) :
        /\ HeaderOf(f, d, h)
        /\ \A k \in (h + 1)..(n - 1) :
             \/ f[k] = {"empty"}
             \/ \E q \in 1..(p - 1) : o[q] = [line |-> k, block |-> TRUE, indent |-> d]
  BY DEF BelowHeader
<1> HIDE DEF d, n
<1>4. d \in 1..Len(f) /\ h \in 1..Len(f) /\ h \in 1..(Len(f) + 1)
  BY <1>1
<1>5. HeaderOf(g, d, h)
  BY <1>3, <1>4, HeadersStay
<1>6. ASSUME NEW k \in (h + 1)..(n - 1)
      PROVE  \/ g[k] = {"empty"}
             \/ \E q \in 1..(p - 1) : r[q] = [line |-> k, block |-> TRUE, indent |-> d]
  <2>1. k \in 1..Len(f)
    BY <1>1, <1>4
  <2>2. g[k] = f[k]
    BY <2>1 DEF Longer
  <2>. QED  BY <1>1, <1>3, <2>2
<1>. QED
  BY <1>2, <1>5, <1>6 DEF BelowHeader

\* It is enough that the docstring a step closes does.
LEMMA ClosingBelow ==
  ASSUME NEW o \in Seq(Entry), NEW f, NEW g, Longer(g, f), BlocksBelow(o, f),
         \A q \in DOMAIN o : o[q].line \in 1..Len(f),
         NEW a \in Seq(Nat), NEW i \in Nat, NEW b \in Seq(Nat), NEW r, Closes(r, o, a, i, b),
         i # 0 => \A k \in DOMAIN a : BelowHeader(r, g, Len(o) + k)
  PROVE  BlocksBelow(r, g)
<1>1. \A q \in DOMAIN o : r[q] = o[q]
  BY DEF Closes
<1>2. ASSUME NEW p \in DOMAIN r, r[p].block, r[p].indent # 0  PROVE BelowHeader(r, g, p)
  <2>1. CASE p \in DOMAIN o
    <3>1. o[p].block /\ o[p].indent # 0
      BY <1>1, <1>2, <2>1
    <3>2. BelowHeader(o, f, p)
      BY <2>1, <3>1 DEF BlocksBelow
    <3>. QED  BY <1>1, <2>1, <3>1, <3>2, BelowStays
  <2>2. ASSUME NEW k \in DOMAIN a, p = Len(o) + k  PROVE BelowHeader(r, g, p)
    <3>1. r[p].indent = i
      BY <2>2, ClosedEntries
    <3>. QED  BY <1>2, <2>2, <3>1
  <2>3. ASSUME NEW k \in DOMAIN b, p = Len(o) + Len(a) + k  PROVE FALSE
    BY <1>2, <2>3, ClosedEntries
  <2>. QED  BY <2>1, <2>2, <2>3 DEF Closes
<1>. QED
  BY <1>2 DEF BlocksBelow

\* The docstrings that the steps put out follow the headers of their definitions.
LEMMA StepBelow ==
  ASSUME DoxypyTypes, Buffers, LinesOnce, HeaderSettled, BlocksBelow(output, file),
         NEW line \in Shapes, parseLine(line)
  PROVE  BlocksBelow(output', file')
<1>1. Reads(line)
  BY DEF parseLine, Reads
<1>2. /\ Len(file) \in Nat /\ Current \in Nat /\ Current = Len(file) + 1
      /\ file \in Seq(Shapes) /\ file' \in Seq(Shapes) /\ Len(file') = Current
      /\ \A k \in 1..Len(file) : file'[k] = file[k]
      /\ output \in Seq(Entry) /\ comment \in Seq(Nat) /\ defclass \in Seq(Nat) /\ indent \in Nat
  BY <1>1, Numbers DEF DoxypyTypes, Reads
<1>3. Longer(file', file) /\ \A q \in DOMAIN output : output[q].line \in 1..Len(file)
  BY <1>2, OutRead DEF Longer
<1>4. /\ <<>> \in Seq(Nat) /\ 0 \in Nat /\ <<Current>> \in Seq(Nat) /\ DOMAIN <<>> = {}
      /\ Append(defclass, Current) \in Seq(Nat)
  BY <1>2, FewLines, AppendLines
<1>5. ASSUME output' = output  PROVE BlocksBelow(output', file')
  <2>1. ASSUME NEW p \in DOMAIN output, output[p].block, output[p].indent # 0
        PROVE  BelowHeader(output, file', p)
    <3>1. BelowHeader(output, file, p)
      BY <2>1 DEF BlocksBelow
    <3>. QED  BY <1>2, <1>3, <2>1, <3>1, BelowStays
  <2>. QED  BY <1>5, <2>1 DEF BlocksBelow
<1>6. ASSUME NEW a \in Seq(Nat), NEW i \in Nat, NEW b \in Seq(Nat), output' = Close(output, a, i, b),
             i # 0 => \A k \in DOMAIN a : BelowHeader(output', file', Len(output) + k)
      PROVE  BlocksBelow(output', file')
  <2>1. Closes(output', output, a, i, b)
    BY <1>2, <1>6, Closing
  <2>. QED  BY <1>2, <1>3, <1>6, <2>1, ClosingBelow
<1>7. CASE Gathers(line) \/ HeaderLine(line)
  BY <1>5, <1>7 DEF Gathers, HeaderLine
<1>8. CASE HeadLine(line)
  <2>1. indent = 0 /\ output' = Close(output, comment, indent, <<Current>>)
    BY <1>8 DEF HeadLine, Buffers, HeadStates
  <2>. QED  BY <1>2, <1>4, <1>6, <2>1
<1>9. CASE Stops(line)
  <2>1. comment = <<>> /\ output' = Close(output, comment, indent, Append(defclass, Current))
    BY <1>9 DEF Stops, Buffers, HeaderStates
  <2>. QED  BY <1>2, <1>4, <1>6, <2>1
<1>10. CASE Opens(line)
  <2>1. CASE output' = output
    BY <1>5, <2>1
  <2>2. CASE state \in {"FILEHEAD", "DEFCLASS"} /\ output' = Close(output, comment, indent, defclass)
    <3>1. indent = 0 \/ comment = <<>>
      BY <2>2 DEF Buffers, HeadStates, HeaderStates
    <3>. QED  BY <1>2, <1>4, <1>6, <2>2, <3>1
  <2>. QED  BY <1>10, <2>1, <2>2 DEF Opens
<1>11. CASE BodyLine(line)
  BY <1>4, <1>6, <1>11 DEF BodyLine
<1>12. CASE Finishes(line)
  <2> DEFINE a == Append(comment, Current)
  <2>1. output' = Close(output, a, indent, defclass) /\ a \in Seq(Nat)
    BY <1>2, <1>12, AppendLines DEF Finishes
  <2>2. PICK h \in indent..Len(file), l \in 1..Current, q \in Quotes :
           /\ HeaderOf(file', indent, h) /\ h < l /\ EmptyBetween(file', h, l)
           /\ file'[l] # {"empty"} /\ DocstringOf(file', l, Current, q)
           /\ Current = l + Len(a) - 1 /\ \A k \in DOMAIN a : a[k] = l + (k - 1)
    BY <1>12, FinishedDocstring
  <2> HIDE DEF a
  <2>3. Closes(output', output, a, indent, defclass)
    BY <1>2, <2>1, Closing
  <2>4. ASSUME NEW k \in DOMAIN a  PROVE BelowHeader(output', file', Len(output) + k)
    <3> DEFINE p == Len(output) + k
    <3>1. output'[p].line = a[k] /\ output'[p].indent = indent
      BY <1>2, <2>1, <2>3, ClosedEntries
    <3>2. /\ a[k] = l + (k - 1) /\ k \in 1..Len(a) /\ DOMAIN a = 1..Len(a) /\ Len(output) \in Nat
          /\ h \in Nat /\ l \in Nat
      BY <1>2, <2>1, <2>2
    <3>3. h \in indent..(a[k] - 1)
      BY <1>2, <2>2, <3>2
    <3>4. ASSUME NEW j \in (h + 1)..(a[k] - 1)
          PROVE  \/ file'[j] = {"empty"}
                 \/ \E u \in 1..(p - 1) :
                      output'[u] = [line |-> j, block |-> TRUE, indent |-> indent]
      <4>1. CASE j < l
        <5>1. j \in (h + 1)..(l - 1)
          BY <3>2, <4>1
        <5>. QED  BY <2>2, <5>1 DEF EmptyBetween
      <4>2. CASE ~ (j < l)
        <5> DEFINE i == j - l + 1
        <5>1. i \in 1..Len(a) /\ i < k /\ l + (i - 1) = j
          BY <3>2, <4>2
        <5> HIDE DEF i
        <5>2. output'[Len(output) + i] = [line |-> a[i], block |-> TRUE, indent |-> indent]
          BY <2>3, <3>2, <5>1 DEF Closes
        <5>3. a[i] = j /\ Len(output) + i \in 1..(p - 1)
          BY <2>2, <3>2, <5>1
        <5>. QED  BY <5>2, <5>3
      <4>. QED  BY <4>1, <4>2
    <3> HIDE DEF p
    <3>5. BelowHeader(output', file', p)
      BY <2>2, <3>1, <3>3, <3>4 DEF BelowHeader
    <3>. QED  BY <3>5 DEF p
  <2>. QED  BY <1>2, <1>6, <2>1, <2>4
<1>. QED
  BY <1>7, <1>8, <1>9, <1>10, <1>11, <1>12, Callbacks

\* A line of code that is out stays with its docstring.
LEMMA OldSettled ==
  ASSUME DoxypyTypes, LinesOnce, CodeSettled, NEW line \in Shapes, Reads(line),
         \A p \in DOMAIN output : p \in DOMAIN output' /\ output'[p] = output[p]
  PROVE  \A p \in DOMAIN output :
           ~output'[p].block /\ "multi_start" \in file'[output'[p].line]
           => \/ Held(output', file', output'[p].line)
              \/ Settled(output', file', p, output'[p].line)
<1> SUFFICES ASSUME NEW p \in DOMAIN output, ~output[p].block,
                    "multi_start" \in file'[output[p].line]
             PROVE  \/ Held(output', file', output[p].line)
                    \/ Settled(output', file', p, output[p].line)
  OBVIOUS
<1> DEFINE d == output[p].line
<1>1. /\ file \in Seq(Shapes) /\ file' \in Seq(Shapes) /\ Len(file) <= Len(file')
      /\ \A k \in 1..Len(file) : file'[k] = file[k]
      /\ output \in Seq(Entry) /\ ~ended
  BY Numbers DEF DoxypyTypes, Reads
<1>2. d \in 1..Len(file) /\ \A q \in DOMAIN output : output[q].line \in 1..Len(file)
  BY <1>1, OutRead
<1>3. Longer(file', file)
  BY <1>1 DEF Longer
<1>4. Held(output, file, d) \/ Settled(output, file, p, d)
  BY <1>1, <1>2 DEF CodeSettled, Defines
<1> HIDE DEF d
<1>5. Held(output, file, d) => Held(output', file', d)
  BY <1>1, <1>2, <1>3, HeldStays
<1>6. Settled(output, file, p, d) => Settled(output', file', p, d)
  BY <1>1, <1>2, <1>3, SettledStays
<1>. QED  BY <1>4, <1>5, <1>6 DEF d

\* It is enough that the lines of code a step closes have theirs.
LEMMA ClosingSettled ==
  ASSUME DoxypyTypes, LinesOnce, CodeSettled, NEW line \in Shapes, Reads(line),
         NEW a \in Seq(Nat), NEW i \in Nat, NEW b \in Seq(Nat),
         Closes(output', output, a, i, b),
         \A k \in DOMAIN b :
           "multi_start" \in file'[b[k]] =>
             \/ Held(output', file', b[k])
             \/ Settled(output', file', Len(output) + Len(a) + k, b[k])
  PROVE  CodeSettled'
<1>1. \A p \in DOMAIN output :
        ~output'[p].block /\ "multi_start" \in file'[output'[p].line]
        => \/ Held(output', file', output'[p].line)
           \/ Settled(output', file', p, output'[p].line)
  <2>1. \A p \in DOMAIN output : p \in DOMAIN output' /\ output'[p] = output[p]
    BY DEF Closes
  <2>. QED  BY <2>1, OldSettled
<1>2. output \in Seq(Entry)
  BY DEF DoxypyTypes
<1>3. ASSUME NEW p \in DOMAIN output', ~output'[p].block, "multi_start" \in file'[output'[p].line]
      PROVE  \/ Held(output', file', output'[p].line)
             \/ Settled(output', file', p, output'[p].line)
  <2>1. CASE p \in DOMAIN output
    BY <1>1, <1>3, <2>1
  <2>2. ASSUME NEW k \in DOMAIN a, p = Len(output) + k  PROVE FALSE
    BY <1>2, <1>3, <2>2, ClosedEntries
  <2>3. ASSUME NEW k \in DOMAIN b, p = Len(output) + Len(a) + k
        PROVE  \/ Held(output', file', output'[p].line)
               \/ Settled(output', file', p, output'[p].line)
    <3>1. output'[p].line = b[k]
      BY <1>2, <2>3, ClosedEntries
    <3>. QED  BY <1>3, <2>3, <3>1
  <2>. QED  BY <2>1, <2>2, <2>3 DEF Closes
<1>. QED
  BY <1>3 DEF CodeSettled, Defines

\* A line of the header that begins the closed code is held by it.
LEMMA HeldByFirst ==
  ASSUME NEW o \in Seq(Entry), NEW a \in Seq(Nat), NEW i \in Nat, NEW b \in Seq(Nat),
         NEW r, Closes(r, o, a, i, b), NEW f, NEW d, 1 \in DOMAIN b, OpenAt(f, b[1], d)
  PROVE  Held(r, f, d)
<1>1. ~r[Len(o) + Len(a) + 1].block /\ r[Len(o) + Len(a) + 1].line = b[1]
  BY ClosedEntries
<1>2. Len(o) + Len(a) + 1 \in DOMAIN r
  BY DEF Closes
<1>. QED
  BY <1>1, <1>2 DEF Held

\* A definition is settled when the line after it starts no docstring.
LEMMA NoDocstring ==
  ASSUME NEW o, NEW p, NEW f, NEW d \in Nat, NEW h \in d..Len(f), NEW l \in 1..Len(f),
         HeaderOf(f, d, h), h < l, EmptyBetween(f, h, l), f[l] # {"empty"},
         f[l] \cap {"single1", "start1", "single2", "start2"} = {}
  PROVE  Settled(o, f, p, d)
BY DEF Settled

\* A definition whose docstring is its block is settled.
LEMMA OneDocstring ==
  ASSUME NEW o, NEW p, NEW f, NEW d \in Nat, NEW h \in d..Len(f), NEW l \in 1..Len(f),
         NEW e \in l..Len(f), HeaderOf(f, d, h), h < l, EmptyBetween(f, h, l),
         f[l] # {"empty"}, NEW q \in Quotes, DocstringOf(f, l, e, q), InBlock(o, p, d, l, e)
  PROVE  Settled(o, f, p, d)
BY DEF Settled

\* The lines of a docstring that a step closes are its block.
LEMMA ClosedBlock ==
  ASSUME NEW o \in Seq(Entry), NEW a \in Seq(Nat), NEW i \in Nat, NEW b \in Seq(Nat),
         NEW r, Closes(r, o, a, i, b), NEW l \in Nat, NEW e \in Nat,
         e = l + Len(a) - 1, \A k \in DOMAIN a : a[k] = l + (k - 1)
  PROVE  InBlock(r, Len(o) + Len(a) + 1, i, l, e)
<1>1. ASSUME NEW k \in l..e
      PROVE  \E q \in 1..(Len(o) + Len(a) + 1 - 1) :
               r[q] = [line |-> k, block |-> TRUE, indent |-> i]
  <2> DEFINE j == k - l + 1  q == Len(o) + j
  <2>1. /\ Len(o) \in Nat /\ Len(a) \in Nat /\ DOMAIN a = 1..Len(a)
    OBVIOUS
  <2>2. j \in 1..Len(a) /\ l + (j - 1) = k
    BY <2>1
  <2>3. q \in 1..(Len(o) + Len(a) + 1 - 1)
    BY <2>1, <2>2
  <2>4. j \in DOMAIN a /\ a[j] = k
    BY <2>1, <2>2
  <2> HIDE DEF j
  <2>5. r[q] = [line |-> k, block |-> TRUE, indent |-> i]
    BY <2>4 DEF Closes
  <2>. QED  BY <2>3, <2>5
<1>2. \A k \in l..e : \E q \in 1..(Len(o) + Len(a) + 1 - 1) :
                         r[q] = [line |-> k, block |-> TRUE, indent |-> i]
  BY ONLY <1>1, Zenon
<1>. QED
  BY ONLY <1>2 DEF InBlock

\* Every step that closes a definition has its docstring, or a line that is none.
LEMMA StepSettled ==
  ASSUME DoxypyTypes, Buffers, LinesOnce, HeaderSettled, CodeSettled,
         NEW line \in Shapes, parseLine(line)
  PROVE  CodeSettled'
<1>1. Reads(line)
  BY DEF parseLine, Reads
<1>2. /\ Len(file) \in Nat /\ Current \in Nat /\ Current = Len(file) + 1 /\ file'[Current] = line
      /\ file \in Seq(Shapes) /\ file' \in Seq(Shapes) /\ Len(file') = Current
      /\ \A k \in 1..Len(file) : file'[k] = file[k]
      /\ output \in Seq(Entry) /\ comment \in Seq(Nat) /\ defclass \in Seq(Nat) /\ indent \in Nat
  BY <1>1, Numbers DEF DoxypyTypes, Reads
<1>3. Longer(file', file)
  BY <1>2 DEF Longer
<1>4. ASSUME state \in HeaderStates \cup DocstringStates
      PROVE  /\ 1 \in DOMAIN defclass /\ defclass[1] = indent /\ indent \in 1..Len(file)
             /\ \A k \in DOMAIN defclass :
                  k # 1 /\ "multi_start" \in file'[defclass[k]]
                  => OpenAt(file', indent, defclass[k])
  <2>1. defclass # <<>> /\ indent = defclass[1] /\ indent \in 1..Len(file)
    BY <1>4 DEF Buffers
  <2>2. ~ended /\ state # "DEFCLASS_BODY"
    BY <1>1, <1>4 DEF Reads, HeaderStates, DocstringStates
  <2>3a. \A k \in DOMAIN defclass : defclass[k] \in 1..Len(file)
    BY <2>2, WaitingRead DEF Lines
  <2>3. \A k \in DOMAIN defclass : defclass[k] \in 1..Len(file) /\ defclass[k] \in 1..(Len(file) + 1)
    BY <1>2, <2>3a
  <2>4. ASSUME NEW k \in DOMAIN defclass, k # 1, "multi_start" \in file'[defclass[k]]
        PROVE  OpenAt(file', indent, defclass[k])
    <3>1. k > 1 /\ "multi_start" \in file[defclass[k]]
      BY <1>2, <2>3, <2>4
    <3>2. OpenAt(file, indent, defclass[k])
      BY <1>4, <3>1 DEF HeaderSettled, Defines
    <3>. QED  BY <1>3, <2>1, <2>3, <3>2, HeadersStay
  <2>. QED  BY <1>2, <2>1, <2>4
<1>5. ASSUME state = "DEFCLASS", line # {"empty"},
             line \cap {"single1", "start1", "single2", "start2"} = {}
      PROVE  \A o, p : Settled(o, file', p, indent)
  <2>1. PICK h \in indent..Len(file) :
          HeaderOf(file, indent, h) /\ EmptyBetween(file, h, Current)
    BY <1>2, <1>5 DEF HeaderSettled, Alone
  <2>2. /\ indent \in 1..Len(file) /\ h \in 1..Len(file) /\ h \in 1..(Len(file) + 1) /\ h \in Nat
        /\ Current \in 1..(Len(file) + 1)
    BY <1>2, <1>4, <1>5 DEF HeaderStates
  <2>3. HeaderOf(file', indent, h) /\ EmptyBetween(file', h, Current)
    BY <1>3, <2>1, <2>2, HeadersStay, EmptyStays
  <2>4. h \in indent..Len(file') /\ Current \in 1..Len(file') /\ h < Current
    BY <1>2, <2>2
  <2>. QED  BY <1>2, <1>5, <2>3, <2>4, NoDocstring
<1>8. ASSUME output' = output  PROVE CodeSettled'
  <2>1. \A p \in DOMAIN output : p \in DOMAIN output' /\ output'[p] = output[p]
    BY <1>8
  <2>2. \A p \in DOMAIN output :
          ~output'[p].block /\ "multi_start" \in file'[output'[p].line]
          => \/ Held(output', file', output'[p].line)
             \/ Settled(output', file', p, output'[p].line)
    BY <1>1, <2>1, OldSettled
  <2>. QED  BY <1>8, <2>2 DEF CodeSettled, Defines
<1>9. ASSUME NEW a \in Seq(Nat), NEW i \in Nat, NEW b \in Seq(Nat),
             output' = Close(output, a, i, b)
      PROVE  Closes(output', output, a, i, b)
  BY <1>2, <1>9, Closing
<1>10. <<>> \in Seq(Nat) /\ 0 \in Nat /\ <<Current>> \in Seq(Nat)
  BY <1>2, FewLines
<1>11. CASE Gathers(line)
  BY <1>8, <1>11 DEF Gathers
<1>12. CASE Finishes(line)
  <2> DEFINE a == Append(comment, Current)
  <2>1. /\ output' = Close(output, a, indent, defclass)
        /\ state \in HeaderStates \cup DocstringStates
    BY <1>12 DEF Finishes, HeaderStates, DocstringStates
  <2>2. a \in Seq(Nat) /\ Closes(output', output, a, indent, defclass)
    BY <1>2, <1>9, <2>1, AppendLines
  <2>3. Settled(output', file', Len(output) + Len(a) + 1, indent)
    <3>1. PICK h \in indent..Len(file), l \in 1..Current, q \in Quotes :
             /\ HeaderOf(file', indent, h) /\ h < l /\ EmptyBetween(file', h, l)
             /\ file'[l] # {"empty"} /\ DocstringOf(file', l, Current, q)
             /\ Current = l + Len(a) - 1 /\ \A k \in DOMAIN a : a[k] = l + (k - 1)
      BY <1>12, FinishedDocstring
    <3> HIDE DEF a
    <3>2. /\ l \in Nat /\ l \in 1..Len(file') /\ Current \in l..Len(file')
          /\ h \in indent..Len(file')
      BY <1>2
    <3>3. InBlock(output', Len(output) + Len(a) + 1, indent, l, Current)
      BY <1>2, <2>2, <3>1, <3>2, ClosedBlock
    <3>. QED  BY <1>2, <3>1, <3>2, <3>3, OneDocstring
  <2> HIDE DEF a
  <2>4. ASSUME NEW k \in DOMAIN defclass, "multi_start" \in file'[defclass[k]]
        PROVE  \/ Held(output', file', defclass[k])
               \/ Settled(output', file', Len(output) + Len(a) + k, defclass[k])
    <3>1. CASE k = 1
      BY <1>4, <2>1, <2>3, <3>1
    <3>2. CASE k # 1
      BY <1>2, <1>4, <2>1, <2>2, <2>4, <3>2, HeldByFirst
    <3>. QED  BY <3>1, <3>2
  <2>. QED  BY <1>1, <1>2, <2>2, <2>4, ClosingSettled
<1>13. CASE HeadLine(line)
  <2> DEFINE b == <<Current>>
  <2>1. output' = Close(output, comment, indent, b)
    BY <1>13 DEF HeadLine
  <2>2. \A k \in DOMAIN b : "multi_start" \notin file'[b[k]]
    BY <1>2, <1>13 DEF HeadLine
  <2>3. b \in Seq(Nat)
    BY <1>10
  <2> HIDE DEF b
  <2>4. Closes(output', output, comment, indent, b)
    BY <1>2, <1>9, <2>1, <2>3
  <2>. QED  BY <1>1, <1>2, <2>2, <2>3, <2>4, ClosingSettled
<1>14. CASE Stops(line)
  <2> DEFINE b == Append(defclass, Current)
  <2>1. /\ output' = Close(output, comment, indent, b) /\ state = "DEFCLASS"
        /\ line \cap {"single1", "start1", "single2", "start2"} = {} /\ line # {"empty"}
        /\ "multi_start" \notin file'[Current]
    BY <1>2, <1>14 DEF Stops
  <2>2. /\ b \in Seq(Nat) /\ 1 \in DOMAIN b /\ b[1] = indent
        /\ \A k \in DOMAIN b : \/ k \in DOMAIN defclass /\ b[k] = defclass[k]
                               \/ b[k] = Current
    <3>1. defclass # <<>> /\ defclass[1] = indent
      BY <2>1 DEF Buffers, HeaderStates
    <3>. QED  BY <1>2, <3>1
  <2> HIDE DEF b
  <2>3. Closes(output', output, comment, indent, b)
    BY <1>2, <1>9, <2>1, <2>2
  <2>4. ASSUME NEW k \in DOMAIN b, "multi_start" \in file'[b[k]]
        PROVE  \/ Held(output', file', b[k])
               \/ Settled(output', file', Len(output) + Len(comment) + k, b[k])
    <3>1. CASE k = 1
      BY <1>5, <2>1, <2>2, <3>1
    <3>2. CASE k # 1
      <4>1. OpenAt(file', b[1], b[k])
        BY <1>4, <2>1, <2>2, <2>4, <3>2 DEF HeaderStates
      <4>. QED  BY <1>2, <2>2, <2>3, <4>1, HeldByFirst
    <3>. QED  BY <3>1, <3>2
  <2>. QED  BY <1>1, <1>2, <2>2, <2>3, <2>4, ClosingSettled
<1>15. CASE Opens(line)
  <2>1. CASE output' = output
    BY <1>8, <2>1
  <2>2. CASE state \in {"FILEHEAD", "DEFCLASS"} /\ output' = Close(output, comment, indent, defclass)
    <3>1. Closes(output', output, comment, indent, defclass)
      BY <1>2, <1>9, <2>2
    <3>2. line \cap {"single1", "start1", "single2", "start2"} = {} /\ line # {"empty"}
      BY <1>15, ShapeFacts DEF Opens
    <3>3. ASSUME NEW k \in DOMAIN defclass, "multi_start" \in file'[defclass[k]]
          PROVE  \/ Held(output', file', defclass[k])
                 \/ Settled(output', file', Len(output) + Len(comment) + k, defclass[k])
      <4>1. state = "DEFCLASS"
        BY <2>2, <3>3 DEF Buffers, HeadStates
      <4>2. CASE k = 1
        BY <1>4, <1>5, <3>2, <4>1, <4>2 DEF HeaderStates
      <4>3. CASE k # 1
        BY <1>2, <1>4, <3>1, <3>3, <4>1, <4>3, HeldByFirst DEF HeaderStates
      <4>. QED  BY <4>2, <4>3
    <3>. QED  BY <1>1, <1>2, <3>1, <3>3, ClosingSettled
  <2>. QED  BY <1>15, <2>1, <2>2 DEF Opens
<1>16. CASE BodyLine(line)
  <2> DEFINE a == <<>>  b == <<Current>>
  <2>1. output' = Close(output, a, 0, b)
    BY <1>16 DEF BodyLine
  <2>2. \A k \in DOMAIN b : "multi_start" \notin file'[b[k]]
    BY <1>2, <1>16 DEF BodyLine
  <2>3. a \in Seq(Nat) /\ b \in Seq(Nat)
    BY <1>10
  <2> HIDE DEF a, b
  <2>4. Closes(output', output, a, 0, b)
    BY <1>9, <1>10, <2>1, <2>3
  <2>. QED  BY <1>1, <1>10, <2>2, <2>3, <2>4, ClosingSettled
<1>17. CASE HeaderLine(line)
  BY <1>8, <1>17 DEF HeaderLine
<1>. QED
  BY <1>11, <1>12, <1>13, <1>14, <1>15, <1>16, <1>17, Callbacks

-----------------------------------------------------------------------------
(* The inductive invariant, and the theorems.                              *)

DoxypyInv ==
  /\ DoxypyTypes /\ Buffers /\ LinesOnce
  /\ CodeFirst /\ Ordered(output)
  /\ HeadFirst /\ BlocksAt(output, file) /\ BlocksBelow(output, file)
  /\ HeaderSettled /\ CodeSettled

\* It holds at the start, at the end of the file, and after every step.
LEMMA DoxypyInit == Init => DoxypyInv
<1> SUFFICES ASSUME Init  PROVE DoxypyInv
  OBVIOUS
<1>1. /\ file = <<>> /\ output = <<>> /\ comment = <<>> /\ defclass = <<>>
      /\ state = "FILEHEAD" /\ indent = 0 /\ ended = FALSE
  BY DEF Init
<1>2. /\ file \in Seq(Shapes) /\ output \in Seq(Entry)
      /\ comment \in Seq(Nat) /\ defclass \in Seq(Nat)
      /\ Len(file) = 0 /\ DOMAIN output = {} /\ DOMAIN comment = {} /\ DOMAIN defclass = {}
  BY <1>1, EmptySeq
<1>3. DoxypyTypes
  BY <1>1, <1>2 DEF DoxypyTypes, HeadStates
<1>4. Buffers
  BY <1>1, <1>2 DEF Buffers, Increasing, HeadStates, HeaderStates, DocstringStates
<1>5. LinesOnce
  <2>1. Lines(Written) = {} /\ Lines(comment) = {} /\ Lines(defclass) = {} /\ 1..Len(file) = {}
    BY <1>2 DEF Lines, Written
  <2>. QED  BY <1>2, <2>1 DEF LinesOnce, NoneTwice, Written
<1>6. /\ CodeFirst /\ Ordered(output) /\ HeadFirst /\ BlocksAt(output, file)
      /\ BlocksBelow(output, file) /\ CodeSettled
  BY <1>2 DEF CodeFirst, Ordered, HeadFirst, BlocksAt, BlocksBelow, CodeSettled
<1>7. HeaderSettled
  BY <1>1 DEF HeaderSettled, HeaderStates, DocstringStates
<1>. QED
  BY <1>3, <1>4, <1>5, <1>6, <1>7 DEF DoxypyInv

\* The end of the file keeps the invariant.
LEMMA DoxypyEnd == DoxypyInv /\ EndOfFile => DoxypyInv'
<1> SUFFICES ASSUME DoxypyInv, EndOfFile  PROVE DoxypyInv'
  OBVIOUS
<1>1. /\ DoxypyTypes /\ Buffers /\ LinesOnce /\ CodeFirst /\ Ordered(output)
      /\ HeadFirst /\ BlocksAt(output, file) /\ BlocksBelow(output, file)
      /\ HeaderSettled /\ CodeSettled
  BY DEF DoxypyInv
<1>2. /\ ~ended /\ ended' = TRUE /\ file' = file /\ state' = state
      /\ comment' = comment /\ defclass' = defclass /\ indent' = indent
  BY DEF EndOfFile
<1>3. /\ output \in Seq(Entry) /\ comment \in Seq(Nat) /\ defclass \in Seq(Nat)
      /\ indent \in Nat /\ file \in Seq(Shapes) /\ Len(file) \in Nat
  BY <1>1 DEF DoxypyTypes
<1>4. Buffers' /\ HeaderSettled' /\ CodeFirst'
  BY <1>1, <1>2 DEF Buffers, HeaderSettled, Alone, Gathered, CodeFirst, Defines
<1>5. CASE state = "DEFCLASS"
  <2>1. output' = Close(output, comment, indent, defclass)
    BY <1>5, CloseComment DEF EndOfFile
  <2>2. Closes(output', output, comment, indent, defclass)
    BY <1>3, <2>1, Closing
  <2>3. /\ comment = <<>> /\ DOMAIN comment = {} /\ Increasing(comment) /\ Increasing(defclass)
        /\ indent = defclass[1] /\ indent \in 1..Len(file)
    BY <1>1, <1>5 DEF Buffers, HeaderStates
  <2>4. DoxypyTypes'
    BY <1>1, <1>2, <2>2 DEF DoxypyTypes, Closes
  <2>5. LinesOnce'
    <3>1. /\ NoneTwice(OutOf(output))
          /\ Lines(OutOf(output)) \cup Lines(comment) \cup Lines(defclass) = 1..Len(file)
          /\ Lines(OutOf(output)) \cap Lines(comment) = {}
          /\ Lines(OutOf(output)) \cap Lines(defclass) = {}
          /\ Lines(comment) \cap Lines(defclass) = {}
      BY <1>1, <1>2, <1>5 DEF LinesOnce, AllOut, OutOf, Written
    <3>2. NoneTwice(OutOf(output'))
      BY <1>3, <2>2, <2>3, <3>1, ClosingOnce
    <3>3. Lines(OutOf(output')) = Lines(OutOf(output)) \cup Lines(comment) \cup Lines(defclass)
      BY <1>3, <2>2, ClosingLines
    <3>. QED  BY <1>2, <1>5, <3>1, <3>2, <3>3 DEF LinesOnce, AllOut, OutOf, Written
  <2>6. Ordered(output')
    BY <1>1, <1>2, <1>3, <2>2, <2>3, ClosingOrdered DEF CodeFirst
  <2>7. HeadFirst'
    BY <1>2, <1>5 DEF HeadFirst, HeadStates
  <2>8. BlocksAt(output', file')
    <3>1. ASSUME NEW p \in DOMAIN output, output[p].block  PROVE BlockAt(output', file', p)
      <4>1. BlockAt(output, file, p)
        BY <1>1, <3>1 DEF BlocksAt
      <4>2. output' \in Seq(Entry) /\ \A q \in DOMAIN output : q \in DOMAIN output' /\ output'[q] = output[q]
        BY <2>2 DEF Closes
      <4>3. \A q \in DOMAIN output : file'[output[q].line] = file[output[q].line]
        BY <1>2
      <4>. QED  BY <1>3, <4>1, <4>2, <4>3, BlockStays
    <3>2. ASSUME NEW k \in DOMAIN defclass  PROVE ~output'[Len(output) + Len(comment) + k].block
      BY <1>3, <2>2, ClosedEntries
    <3>3. ASSUME NEW p \in DOMAIN output', output'[p].block  PROVE BlockAt(output', file', p)
      BY <2>2, <2>3, <3>1, <3>2, <3>3 DEF Closes
    <3>. QED  BY <3>3 DEF BlocksAt
  <2>9. Longer(file, file) /\ \A q \in DOMAIN output : output[q].line \in 1..Len(file)
    BY <1>1, <1>3, OutRead DEF Longer
  <2>10. BlocksBelow(output', file')
    BY <1>1, <1>2, <1>3, <2>2, <2>3, <2>9, ClosingBelow
  <2>11. CodeSettled'
    <3>0. \A q \in DOMAIN output : q \in DOMAIN output' /\ output'[q] = output[q]
      BY <2>2 DEF Closes
    <3>1. ASSUME NEW p \in DOMAIN output, ~output[p].block, Defines(output[p].line)
          PROVE  \/ Held(output', file, output[p].line)
                 \/ Settled(output', file, p, output[p].line)
      <4>1. Held(output, file, output[p].line) \/ Settled(output, file, p, output[p].line)
        BY <1>1, <1>2, <3>1 DEF CodeSettled
      <4>2. output[p].line \in 1..Len(file)
        BY <2>9
      <4>3. Held(output, file, output[p].line) => Held(output', file, output[p].line)
        BY <1>3, <2>9, <3>0, <4>2, HeldStays
      <4>4. Settled(output, file, p, output[p].line) => Settled(output', file, p, output[p].line)
        BY <1>3, <2>9, <3>0, <4>2, SettledStays
      <4>. QED  BY <4>1, <4>3, <4>4
    <3>2. ASSUME NEW k \in DOMAIN defclass, Defines(defclass[k])
          PROVE  Held(output', file, defclass[k]) \/ Alone(file, defclass[k])
      <4>1. CASE k = 1
        BY <1>1, <1>5, <2>3, <4>1 DEF HeaderSettled
      <4>2. CASE k # 1
        <5>1. k > 1 /\ 1 \in DOMAIN defclass
          BY <1>3, <3>2, <4>2
        <5>2. OpenAt(file, defclass[1], defclass[k])
          BY <1>1, <1>5, <2>3, <3>2, <5>1 DEF HeaderSettled, HeaderStates
        <5>. QED  BY <1>3, <2>2, <5>1, <5>2, HeldByFirst
      <4>. QED  BY <4>1, <4>2
    <3>3. ASSUME NEW p \in DOMAIN output', ~output'[p].block, Defines(output'[p].line)
          PROVE  \/ Held(output', file, output'[p].line)
                 \/ Settled(output', file, p, output'[p].line)
                 \/ Alone(file, output'[p].line)
      <4>1. CASE p \in DOMAIN output
        <5>1. output'[p] = output[p]
          BY <2>2, <4>1 DEF Closes
        <5>. QED  BY <3>1, <3>3, <4>1, <5>1
      <4>2. ASSUME NEW k \in DOMAIN defclass, p = Len(output) + Len(comment) + k
            PROVE  Held(output', file, output'[p].line) \/ Alone(file, output'[p].line)
        <5>1. output'[p].line = defclass[k]
          BY <1>3, <2>2, <4>2, ClosedEntries
        <5>. QED  BY <3>2, <3>3, <5>1
      <4>. QED  BY <2>2, <2>3, <4>1, <4>2 DEF Closes
    <3>. QED  BY <1>2, <3>3 DEF CodeSettled, Defines
  <2>. QED  BY <1>4, <2>4, <2>5, <2>6, <2>7, <2>8, <2>10, <2>11 DEF DoxypyInv
<1>6. CASE state # "DEFCLASS"
  <2>1. output' = output
    BY <1>6 DEF EndOfFile
  <2>2. /\ DoxypyTypes' /\ Ordered(output') /\ HeadFirst' /\ BlocksAt(output', file')
        /\ BlocksBelow(output', file')
    BY <1>1, <1>2, <2>1 DEF DoxypyTypes, HeadFirst, Defines
  <2>3. LinesOnce'
    BY <1>1, <1>2, <1>6, <2>1 DEF LinesOnce, AllOut, Written
  <2>4. CodeSettled'
    BY <1>1, <1>2, <2>1 DEF CodeSettled, Defines
  <2>. QED  BY <1>4, <2>2, <2>3, <2>4 DEF DoxypyInv
<1>. QED
  BY <1>5, <1>6

\* Every step keeps the invariant.
LEMMA DoxypyStep == DoxypyInv /\ [Next]_vars => DoxypyInv'
<1> SUFFICES ASSUME DoxypyInv, [Next]_vars  PROVE DoxypyInv'
  OBVIOUS
<1>1. ASSUME NEW line \in Shapes, parseLine(line)  PROVE DoxypyInv'
  <2>1. /\ DoxypyTypes /\ Buffers /\ LinesOnce /\ CodeFirst /\ Ordered(output)
        /\ HeadFirst /\ BlocksAt(output, file) /\ BlocksBelow(output, file)
        /\ HeaderSettled /\ CodeSettled
    BY DEF DoxypyInv
  <2>2. DoxypyTypes' /\ Buffers' /\ LinesOnce'
    BY <1>1, <2>1, StepTypes, StepBuffers, StepLines
  <2>3. CodeFirst' /\ Ordered(output')
    BY <1>1, <2>1, StepCode
  <2>4. HeadFirst' /\ BlocksAt(output', file')
    BY <1>1, <2>1, StepBlocks
  <2>5. HeaderSettled' /\ CodeSettled' /\ BlocksBelow(output', file')
    BY <1>1, <2>1, StepHeader, StepSettled, StepBelow
  <2>. QED  BY <2>2, <2>3, <2>4, <2>5 DEF DoxypyInv
<1>2. CASE EndOfFile
  BY <1>2, DoxypyEnd
<1>3. CASE UNCHANGED vars
  BY <1>3 DEF vars, DoxypyInv, DoxypyTypes, Buffers, Defines, LinesOnce, AllOut, Written,
              CodeFirst, HeadFirst, HeaderSettled, Alone, Gathered, CodeSettled
<1>. QED
  BY <1>1, <1>2, <1>3 DEF Next

\* The invariant holds in every state: no callback leaves a buffer that the next
\* one does not expect.
THEOREM DoxypyInvariance == Spec => []DoxypyInv
<1>. QED
  BY DoxypyInit, DoxypyStep, PTL DEF Spec

\* The lines of two sequences one after the other.
LEMMA JoinedLines ==
  ASSUME NEW s \in Seq(Nat), NEW t \in Seq(Nat), Increasing(s), Increasing(t),
         Lines(s) \cap Lines(t) = {}
  PROVE  Lines(s \o t) = Lines(s) \cup Lines(t) /\ NoneTwice(s \o t)
<1> DEFINE u == s \o t
<1>1. /\ u \in Seq(Nat) /\ Len(u) = Len(s) + Len(t)
      /\ \A k \in 1..Len(s) : u[k] = s[k]
      /\ \A k \in 1..Len(t) : u[Len(s) + k] = t[k]
  BY Concat
<1> HIDE DEF u
<1>2. /\ Len(s) \in Nat /\ Len(t) \in Nat
      /\ DOMAIN s = 1..Len(s) /\ DOMAIN t = 1..Len(t) /\ DOMAIN u = 1..(Len(s) + Len(t))
  BY <1>1
<1>3. ASSUME NEW p \in DOMAIN u
      PROVE  p \in DOMAIN s \/ \E k \in DOMAIN t : p = Len(s) + k
  <2>1. p \in 1..Len(s) \/ (p - Len(s) \in 1..Len(t) /\ p = Len(s) + (p - Len(s)))
    BY <1>2
  <2>. QED  BY <1>2, <2>1
<1>4. /\ \A k \in DOMAIN s : k \in DOMAIN u /\ u[k] = s[k]
      /\ \A k \in DOMAIN t : Len(s) + k \in DOMAIN u /\ u[Len(s) + k] = t[k]
  BY <1>1, <1>2
<1>5. Lines(u) = Lines(s) \cup Lines(t)
  BY <1>3, <1>4 DEF Lines
<1>6. ASSUME NEW p \in DOMAIN u, NEW q \in DOMAIN u, u[p] = u[q]  PROVE p = q
  <2>1. CASE p \in DOMAIN s /\ q \in DOMAIN s
    <3>1. s[p] = s[q]
      BY <1>4, <1>6, <2>1
    <3>. QED  BY <2>1, <3>1, IncreasingOnce
  <2>2. ASSUME p \in DOMAIN s, NEW k \in DOMAIN t, q = Len(s) + k  PROVE FALSE
    BY <1>4, <1>6, <2>2 DEF Lines
  <2>3. ASSUME q \in DOMAIN s, NEW k \in DOMAIN t, p = Len(s) + k  PROVE FALSE
    BY <1>4, <1>6, <2>3 DEF Lines
  <2>4. ASSUME NEW k \in DOMAIN t, NEW l \in DOMAIN t, p = Len(s) + k, q = Len(s) + l
        PROVE  p = q
    <3>1. t[k] = t[l]
      BY <1>4, <1>6, <2>4
    <3>2. k = l
      BY <3>1, IncreasingOnce
    <3>. QED  BY <2>4, <3>2
  <2>. QED  BY <1>3, <2>1, <2>2, <2>3, <2>4
<1>. QED
  BY <1>5, <1>6 DEF NoneTwice, u

\* Each line read is out or waits, once, and the code is in its order: in every
\* file, of whatever length.
THEOREM EachLineIsOutOnce == Spec => []EachLineOnce
<1>1. ASSUME DoxypyInv  PROVE EachLineOnce
  <2>1. /\ DoxypyTypes /\ Buffers /\ LinesOnce /\ Ordered(output)
    BY <1>1 DEF DoxypyInv
  <2>2. /\ comment \in Seq(Nat) /\ defclass \in Seq(Nat)
        /\ Increasing(comment) /\ Increasing(defclass)
    BY <2>1 DEF DoxypyTypes, Buffers
  <2>3. \A p, q \in DOMAIN output :
          (p < q /\ ~output[p].block /\ ~output[q].block)
          => output[p].line < output[q].line
    BY <2>1 DEF Ordered
  <2>4. CASE AllOut
    <3>1. Pending = <<>> /\ Lines(Pending) = {} /\ NoneTwice(Pending)
      BY <2>4 DEF AllOut, Pending, Lines, NoneTwice
    <3>2. Lines(Written) = 1..Len(file) /\ NoneTwice(Written)
      BY <2>1, <2>4 DEF LinesOnce
    <3>. QED  BY <2>3, <3>1, <3>2 DEF EachLineOnce
  <2>5. CASE ~AllOut
    <3>1. /\ Lines(Written) \cup Lines(comment) \cup Lines(defclass) = 1..Len(file)
          /\ Lines(Written) \cap Lines(comment) = {}
          /\ Lines(Written) \cap Lines(defclass) = {}
          /\ Lines(comment) \cap Lines(defclass) = {} /\ NoneTwice(Written)
      BY <2>1, <2>5 DEF LinesOnce
    <3>2. Pending = comment \o defclass
      BY <2>5 DEF AllOut, Pending
    <3>3. Lines(Pending) = Lines(comment) \cup Lines(defclass) /\ NoneTwice(Pending)
      BY <2>2, <3>1, <3>2, JoinedLines
    <3>. QED  BY <2>3, <3>1, <3>3 DEF EachLineOnce
  <2>. QED  BY <2>4, <2>5
<1>. QED
  BY <1>1, DoxypyInvariance, PTL

\* A docstring stands immediately above the definition whose header it follows in
\* the file, that of the head of the file above all code: in every file.
THEOREM DocstringsAreInPlace == Spec => []DocstringAtItsDefinition
<1>1. ASSUME DoxypyInv  PROVE DocstringAtItsDefinition
  <2>1. BlocksAt(output, file) /\ BlocksBelow(output, file)
    BY <1>1 DEF DoxypyInv
  <2>. QED  BY <2>1 DEF BlocksAt, BlockAt, BlocksBelow, BelowHeader, HeaderOf,
                        DocstringAtItsDefinition, HeaderEnds, Defines
<1>. QED
  BY <1>1, DoxypyInvariance, PTL

\* No docstring of a definition that the filter sees is missed, nor a line of it,
\* whether the header is of one line or of several, in every file.
THEOREM NoDocstringIsMissed == Spec => []DocstringsAreFound
<1>1. ASSUME DoxypyInv  PROVE DocstringsAreFound
  BY <1>1, SettledFound DEF DoxypyInv
<1>. QED
  BY <1>1, DoxypyInvariance, PTL

=============================================================================
