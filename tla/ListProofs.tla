----------------------------- MODULE ListProofs -----------------------------
(***************************************************************************)
(* Facts about lists of any length. Induction over a list is a set of      *)
(* positions that holds 0 and, with one position, the next; the existence  *)
(* of the functions that lists are defined by is shown once, for a step    *)
(* that is itself a function.                                              *)
(***************************************************************************)
EXTENDS Lists, SequencesExt, SequenceTheorems, WellFoundedInduction, TLAPS

\* Induction over the positions of a list: P are those that are done.
LEMMA Positions ==
  ASSUME NEW n \in Nat, NEW P, 0 \in P, \A k \in 1 .. n : k - 1 \in P => k \in P
  PROVE  \A k \in 0 .. n : k \in P
<1>. SUFFICES ASSUME NEW j \in 0 .. n, j \notin P  PROVE FALSE
  OBVIOUS
<1>. DEFINE Q == {k \in 0 .. n : k \notin P}
<1>1. Q \subseteq Nat /\ Q # {}
  OBVIOUS
<1>2. PICK k \in Q : \A y \in Q : <<y, k>> \notin OpToRel(<, Nat)
  <2>. HIDE DEF Q
  <2>. QED  BY <1>1, NatLessThanWellFounded, WFMin, Zenon
<1>3. \A y \in Q : ~(y < k)
  <2>. HIDE DEF Q
  <2>. QED  BY <1>1, <1>2 DEF OpToRel
<1>4. k \in 1 .. n /\ k - 1 \in 0 .. n /\ k - 1 < k
  <2>1. k \in 0 .. n /\ k \notin P
    OBVIOUS
  <2>2. k # 0
    BY <2>1
  <2>. QED  BY <2>1, <2>2
<1>5. k - 1 \in P
  BY <1>3, <1>4
<1>. QED  BY <1>2, <1>4, <1>5

\* f starts with base, and its value at k is made of the one before by step[k].
Iterates(f, V, base, n, step) ==
  /\ f \in [0 .. n -> V]
  /\ f[0] = base
  /\ \A k \in 1 .. n : f[k] = step[k][f[k - 1]]

\* What is defined step by step exists.
LEMMA Iteration ==
  ASSUME NEW V, NEW base \in V, NEW n \in Nat, NEW step \in [1 .. n -> [V -> V]]
  PROVE  \E f : Iterates(f, V, base, n, step)
<1>. DEFINE Upto(m) == \E f \in [0 .. m -> V] :
                          f[0] = base /\ \A k \in 1 .. m : f[k] = step[k][f[k - 1]]
            P == {m \in 0 .. n : Upto(m)}
<1>1. 0 \in P
  <2>. DEFINE f == [k \in 0 .. 0 |-> base]
  <2>1. f \in [0 .. 0 -> V] /\ f[0] = base
    OBVIOUS
  <2>2. Upto(0)
    <3>. HIDE DEF f
    <3>. QED  BY <2>1
  <2>. QED  BY <2>2
<1>2. ASSUME NEW m \in 1 .. n, m - 1 \in P  PROVE m \in P
  <2>1. PICK f \in [0 .. m - 1 -> V] :
          f[0] = base /\ \A k \in 1 .. m - 1 : f[k] = step[k][f[k - 1]]
    BY <1>2
  <2>. DEFINE g == [k \in 0 .. m |-> IF k = m THEN step[m][f[m - 1]] ELSE f[k]]
  <2>2. m - 1 \in 0 .. m - 1 /\ f[m - 1] \in V /\ step[m][f[m - 1]] \in V
    OBVIOUS
  <2>3. g \in [0 .. m -> V] /\ g[0] = base
    BY <2>1, <2>2
  <2>4. ASSUME NEW k \in 1 .. m  PROVE g[k] = step[k][g[k - 1]]
    <3>1. k - 1 \in 0 .. m - 1 /\ k - 1 # m
      OBVIOUS
    <3>2. g[k - 1] = f[k - 1]
      BY <3>1
    <3>3. CASE k = m
      BY <3>2, <3>3
    <3>4. CASE k # m
      <4>1. k \in 1 .. m - 1
        BY <3>4
      <4>. QED  BY <2>1, <3>2, <4>1
    <3>. QED  BY <3>3, <3>4
  <2>5. Upto(m)
    <3>. HIDE DEF g
    <3>. QED  BY <2>3, <2>4
  <2>6. m \in 0 .. n
    OBVIOUS
  <2>. HIDE DEF Upto
  <2>. QED  BY <2>5, <2>6
<1>3. \A m \in 0 .. n : m \in P
  <2>. HIDE DEF P
  <2>. QED  BY <1>1, <1>2, Positions
<1>4. Upto(n)
  BY <1>3
<1>. QED  BY <1>4 DEF Iterates

-----------------------------------------------------------------------------
(* Selections.                                                             *)

\* f[n] is what has been selected of the first n items.
Selects(T, list, S, f) ==
  /\ f \in [0 .. Len(list) -> Seq(T)]
  /\ f[0] = <<>>
  /\ \A n \in 1 .. Len(list) :
       f[n] = IF list[n] \in S THEN Append(f[n - 1], list[n]) ELSE f[n - 1]

\* Select goes over the list item by item.
LEMMA SelectSteps ==
  ASSUME NEW T, NEW list \in Seq(T), NEW S
  PROVE  \E f : Selects(T, list, S, f) /\ Select(list, S) = f[Len(list)]
<1>. DEFINE len == Len(list)
            V == Seq(T)
            step == [n \in 1 .. len |->
                       [v \in V |-> IF list[n] \in S THEN Append(v, list[n]) ELSE v]]
<1>1. len \in Nat /\ <<>> \in V
  OBVIOUS
<1>2. step \in [1 .. len -> [V -> V]]
  <2>1. ASSUME NEW n \in 1 .. len, NEW v \in V
        PROVE  (IF list[n] \in S THEN Append(v, list[n]) ELSE v) \in V
    OBVIOUS
  <2>. QED  BY <2>1
<1>3. PICK f \in [0 .. len -> V] :
        f[0] = <<>> /\ \A n \in 1 .. len : f[n] = step[n][f[n - 1]]
  <2>. DEFINE base == <<>>
  <2>. HIDE DEF step, len, V, base
  <2>1. base \in V /\ len \in Nat /\ step \in [1 .. len -> [V -> V]]
    BY <1>1, <1>2 DEF base
  <2>2. \E f : Iterates(f, V, base, len, step)
    BY <2>1, Iteration
  <2>. QED  BY <2>2 DEF base, Iterates
<1>4. \A n \in 1 .. len :
        f[n] = IF list[n] \in S THEN Append(f[n - 1], list[n]) ELSE f[n - 1]
  <2>1. \A n \in 1 .. len : f[n - 1] \in V
    BY <1>1
  <2>. QED  BY <1>3, <2>1
<1>. DEFINE Rhs(g, n) == IF n = 0 THEN <<>>
                         ELSE IF list[n] \in S THEN Append(g[n - 1], list[n])
                         ELSE g[n - 1]
            Fixed(g) == g = [n \in 0 .. len |-> Rhs(g, n)]
            c == CHOOSE g : Fixed(g)
<1>5. Fixed(f)
  <2>1. ASSUME NEW n \in 0 .. len  PROVE f[n] = Rhs(f, n)
    <3>1. CASE n = 0
      BY <1>3, <3>1
    <3>2. CASE n # 0
      <4>1. n \in 1 .. len
        BY <3>2
      <4>. QED  BY <1>4, <3>2, <4>1
    <3>. QED  BY <3>1, <3>2
  <2>. HIDE DEF Rhs, len, V
  <2>. QED  BY <2>1
<1>6. Fixed(c)
  <2>. HIDE DEF Fixed
  <2>. QED  BY <1>5
<1>7. Select(list, S) = c[len]
  BY DEF Select
<1>. DEFINE P == {n \in 0 .. len : c[n] = f[n]}
<1>8. \A n \in 0 .. len : c[n] = Rhs(c, n)
  <2>. HIDE DEF Rhs, len, c
  <2>. QED  BY <1>6
<1>. HIDE DEF c
<1>9. 0 \in P
  <2>1. c[0] = Rhs(c, 0) /\ 0 \in 0 .. len
    BY <1>1, <1>8
  <2>. QED  BY <1>3, <2>1
<1>10. ASSUME NEW n \in 1 .. len, n - 1 \in P  PROVE n \in P
  <2>1. c[n - 1] = f[n - 1] /\ n \in 0 .. len /\ n # 0
    BY <1>1, <1>10
  <2>2. c[n] = Rhs(c, n)
    BY <1>8, <2>1
  <2>. QED  BY <1>4, <2>1, <2>2
<1>11. len \in P
  <2>. HIDE DEF P, len
  <2>1. \A n \in 0 .. len : n \in P
    BY <1>1, <1>9, <1>10, Positions
  <2>. QED  BY <1>1, <2>1
<1>12. Selects(T, list, S, f)
  BY <1>3, <1>4 DEF Selects
<1>13. Select(list, S) = f[Len(list)]
  BY <1>7, <1>11
<1>. HIDE DEF V, len
<1>. QED  BY <1>12, <1>13

\* s holds the items of list[1], ..., list[n] that are in S, in their order:
\* its i-th item stands at p[i].
Picks(list, S, n, s, p) ==
  /\ p \in [1 .. Len(s) -> 1 .. n]
  /\ \A i \in 1 .. Len(s) : s[i] = list[p[i]] /\ list[p[i]] \in S
  /\ \A i, j \in 1 .. Len(s) : i < j => p[i] < p[j]
  /\ \A k \in 1 .. n : list[k] \in S => \E i \in 1 .. Len(s) : p[i] = k

\* Select returns the items of the list that are in S, all of them, each once
\* and in their order.
LEMMA SelectPicks ==
  ASSUME NEW T, NEW list \in Seq(T), NEW S
  PROVE  /\ Select(list, S) \in Seq(T)
         /\ \E p : Picks(list, S, Len(list), Select(list, S), p)
<1>0. PICK f : Selects(T, list, S, f) /\ Select(list, S) = f[Len(list)]
  BY SelectSteps
<1>. DEFINE len == Len(list)
<1>1. /\ f \in [0 .. len -> Seq(T)]
      /\ f[0] = <<>>
      /\ \A n \in 1 .. len :
           f[n] = IF list[n] \in S THEN Append(f[n - 1], list[n]) ELSE f[n - 1]
      /\ Select(list, S) = f[len]
  BY <1>0 DEF Selects
<1>2. len \in Nat /\ \A n \in 1 .. len : list[n] \in T
  OBVIOUS
<1>. DEFINE P == {n \in 0 .. len : \E p : Picks(list, S, n, f[n], p)}
<1>3. 0 \in P
  <2>. DEFINE p == [i \in 1 .. 0 |-> i]  none == <<>>
  <2>1. Len(none) = 0 /\ 1 .. 0 = {} /\ p \in [1 .. 0 -> 1 .. 0]
    OBVIOUS
  <2>2. Picks(list, S, 0, none, p)
    <3>. HIDE DEF p, none
    <3>. QED  BY <2>1 DEF Picks
  <2>3. f[0] = none /\ 0 \in 0 .. len
    BY <1>1, <1>2
  <2>. HIDE DEF p, none, len
  <2>. QED  BY <2>2, <2>3
<1>4. ASSUME NEW n \in 1 .. len, n - 1 \in P  PROVE n \in P
  <2>1. /\ n - 1 \in 0 .. len /\ n \in 0 .. len /\ f[n - 1] \in Seq(T)
        /\ list[n] \in T
    <3>. HIDE DEF len
    <3>1. n - 1 \in 0 .. len /\ n \in 0 .. len
      BY <1>2
    <3>. QED  BY <1>1, <1>2, <3>1
  <2>2. PICK p : Picks(list, S, n - 1, f[n - 1], p)
    BY <1>4
  <2>. DEFINE s == f[n - 1]  m == Len(s)
  <2>3. m \in Nat
    BY <2>1
  <2>4. CASE list[n] \notin S
    <3>1. f[n] = s
      BY <1>1, <2>4
    <3>2. Picks(list, S, n, s, p)
      BY <2>1, <2>2, <2>3, <2>4 DEF Picks
    <3>. QED  BY <2>1, <3>1, <3>2
  <2>5. CASE list[n] \in S
    <3>1. f[n] = Append(s, list[n])
      BY <1>1, <2>5
    <3>. DEFINE t == Append(s, list[n])
                q == [i \in 1 .. m + 1 |-> IF i = m + 1 THEN n ELSE p[i]]
    <3>2. /\ Len(t) = m + 1 /\ t[m + 1] = list[n]
          /\ \A i \in 1 .. m : t[i] = s[i]
      BY <2>1, AppendProperties
    <3>3. /\ \A i \in 1 .. m : q[i] = p[i] /\ p[i] \in 1 .. n - 1
          /\ q[m + 1] = n
      BY <2>2, <2>3 DEF Picks
    <3>4. \A i \in 1 .. m + 1 : i \in 1 .. m \/ i = m + 1
      BY <2>3
    <3>. HIDE DEF t, q, s, m
    <3>5. q \in [1 .. m + 1 -> 1 .. n]
      <4>1. \A i \in 1 .. m : p[i] \in 1 .. n
        BY <1>2, <3>3
      <4>2. \A i \in 1 .. m + 1 : (IF i = m + 1 THEN n ELSE p[i]) \in 1 .. n
        BY <1>2, <3>4, <4>1
      <4>. QED  BY <4>2 DEF q
    <3>6. \A i \in 1 .. m + 1 : t[i] = list[q[i]] /\ list[q[i]] \in S
      BY <2>2, <2>5, <3>2, <3>3, <3>4 DEF Picks, s, m
    <3>7. \A i, j \in 1 .. m + 1 : i < j => q[i] < q[j]
      <4>. SUFFICES ASSUME NEW i \in 1 .. m + 1, NEW j \in 1 .. m + 1, i < j
                    PROVE  q[i] < q[j]
        OBVIOUS
      <4>1. i \in 1 .. m
        BY <2>3
      <4>2. CASE j = m + 1
        BY <3>3, <4>1, <4>2
      <4>3. CASE j \in 1 .. m
        BY <2>2, <3>3, <4>1, <4>3 DEF Picks, s, m
      <4>. QED  BY <3>4, <4>2, <4>3
    <3>8. ASSUME NEW k \in 1 .. n, list[k] \in S
          PROVE  \E i \in 1 .. m + 1 : q[i] = k
      <4>1. CASE k = n
        BY <2>3, <3>3, <4>1
      <4>2. CASE k # n
        <5>1. k \in 1 .. n - 1
          BY <4>2
        <5>2. PICK i \in 1 .. m : p[i] = k
          BY <2>2, <3>8, <5>1 DEF Picks, s, m
        <5>3. i \in 1 .. m + 1 /\ q[i] = k
          BY <2>3, <3>3, <5>2
        <5>. QED  BY <5>3
      <4>. QED  BY <4>1, <4>2
    <3>9. Picks(list, S, n, t, q)
      BY <3>2, <3>5, <3>6, <3>7, <3>8 DEF Picks
    <3>. QED  BY <2>1, <3>1, <3>9 DEF t
  <2>. QED  BY <2>4, <2>5
<1>5. len \in P
  <2>. HIDE DEF P, len
  <2>1. \A n \in 0 .. len : n \in P
    BY <1>2, <1>3, <1>4, Positions
  <2>. QED  BY <1>2, <2>1
<1>6. f[len] \in Seq(T)
  BY <1>1, <1>2
<1>. QED  BY <1>1, <1>5, <1>6

\* A selection holds what the list and the set have in common; of two items
\* it holds the places in the list differ.
LEMMA SelectFacts ==
  ASSUME NEW T, NEW list \in Seq(T), NEW S
  PROVE  /\ Select(list, S) \in Seq(T)
         /\ \A x : x \in Range(Select(list, S)) <=> x \in Range(list) /\ x \in S
         /\ Len(Select(list, S)) > 1 =>
              \E a, b \in DOMAIN list : a # b /\ list[a] \in S /\ list[b] \in S
         /\ Len(Select(list, S)) = 1 =>
              \A x \in Range(list) : x \in S => x = Select(list, S)[1]
         /\ Len(Select(list, S)) = 0 => \A x \in Range(list) : x \notin S
<1>. DEFINE s == Select(list, S)  len == Len(list)  m == Len(s)
<1>1. s \in Seq(T)
  BY SelectPicks
<1>2. PICK p : Picks(list, S, len, s, p)
  BY SelectPicks
<1>3. /\ m \in Nat /\ DOMAIN s = 1 .. m
      /\ len \in Nat /\ DOMAIN list = 1 .. len
  BY <1>1
<1>. HIDE DEF s, len, m
<1>4. /\ \A i \in 1 .. m : p[i] \in 1 .. len /\ s[i] = list[p[i]] /\ list[p[i]] \in S
      /\ \A i, j \in 1 .. m : i < j => p[i] < p[j]
      /\ \A k \in 1 .. len : list[k] \in S => \E i \in 1 .. m : p[i] = k
  BY <1>2 DEF Picks, m
<1>5. ASSUME NEW x \in Range(s)  PROVE x \in Range(list) /\ x \in S
  <2>1. PICK i \in 1 .. m : x = s[i]
    BY <1>3, <1>5 DEF Range
  <2>. QED  BY <1>3, <1>4, <2>1 DEF Range
<1>6. ASSUME NEW x \in Range(list), x \in S
      PROVE  \E i \in 1 .. m : s[i] = x
  <2>1. PICK k \in 1 .. len : x = list[k]
    BY <1>3, <1>6 DEF Range
  <2>2. PICK i \in 1 .. m : p[i] = k
    BY <1>4, <1>6, <2>1
  <2>. QED  BY <1>4, <2>1, <2>2
<1>7. ASSUME NEW x \in Range(list), x \in S  PROVE x \in Range(s)
  BY <1>3, <1>6, <1>7 DEF Range
<1>8. m > 1 => \E a, b \in DOMAIN list : a # b /\ list[a] \in S /\ list[b] \in S
  <2>. SUFFICES ASSUME m > 1
                PROVE  \E a, b \in DOMAIN list :
                         a # b /\ list[a] \in S /\ list[b] \in S
    OBVIOUS
  <2>1. 1 \in 1 .. m /\ 2 \in 1 .. m /\ 1 < 2
    BY <1>3
  <2>2. p[1] < p[2] /\ p[1] \in 1 .. len /\ p[2] \in 1 .. len
    BY <1>4, <2>1
  <2>3. p[1] # p[2]
    BY <1>3, <2>2
  <2>. QED  BY <1>3, <1>4, <2>1, <2>2, <2>3
<1>9. m = 1 => \A x \in Range(list) : x \in S => x = s[1]
  <2>. SUFFICES ASSUME m = 1, NEW x \in Range(list), x \in S  PROVE x = s[1]
    OBVIOUS
  <2>1. PICK i \in 1 .. m : s[i] = x
    BY <1>6
  <2>. QED  BY <2>1
<1>10. m = 0 => \A x \in Range(list) : x \notin S
  <2>. SUFFICES ASSUME m = 0, NEW x \in Range(list), x \in S  PROVE FALSE
    OBVIOUS
  <2>1. PICK i \in 1 .. m : s[i] = x
    BY <1>6
  <2>. QED  BY <2>1
<1>. QED  BY <1>1, <1>5, <1>7, <1>8, <1>9, <1>10 DEF s, m

-----------------------------------------------------------------------------
(* Lists put one after the other.                                          *)

\* What two lists hold, one after the other.
LEMMA RangeOfConcat ==
  ASSUME NEW T, NEW a \in Seq(T), NEW b \in Seq(T)
  PROVE  /\ a \o b \in Seq(T)
         /\ \A x : x \in Range(a \o b) <=> x \in Range(a) \/ x \in Range(b)
<1>1. a \o b \in Seq(T) /\ Len(a \o b) = Len(a) + Len(b)
  BY ConcatProperties
<1>2. \A i \in 1 .. Len(a) + Len(b) :
        (a \o b)[i] = IF i <= Len(a) THEN a[i] ELSE b[i - Len(a)]
  BY ConcatProperties
<1>3. /\ Len(a) \in Nat /\ DOMAIN a = 1 .. Len(a)
      /\ Len(b) \in Nat /\ DOMAIN b = 1 .. Len(b)
      /\ DOMAIN (a \o b) = 1 .. Len(a) + Len(b)
  BY <1>1
<1>4. ASSUME NEW x \in Range(a \o b)  PROVE x \in Range(a) \/ x \in Range(b)
  <2>1. PICK i \in 1 .. Len(a) + Len(b) : x = (a \o b)[i]
    BY <1>3, <1>4 DEF Range
  <2>2. CASE i <= Len(a)
    BY <1>2, <1>3, <2>1, <2>2 DEF Range
  <2>3. CASE ~(i <= Len(a))
    <3>1. i - Len(a) \in 1 .. Len(b)
      BY <1>3, <2>3
    <3>. QED  BY <1>2, <1>3, <2>1, <2>3, <3>1 DEF Range
  <2>. QED  BY <2>2, <2>3
<1>5. ASSUME NEW x \in Range(a)  PROVE x \in Range(a \o b)
  <2>1. PICK i \in 1 .. Len(a) : x = a[i]
    BY <1>3, <1>5 DEF Range
  <2>2. i \in 1 .. Len(a) + Len(b) /\ i <= Len(a)
    BY <1>3
  <2>. QED  BY <1>2, <1>3, <2>1, <2>2 DEF Range
<1>6. ASSUME NEW x \in Range(b)  PROVE x \in Range(a \o b)
  <2>1. PICK i \in 1 .. Len(b) : x = b[i]
    BY <1>3, <1>6 DEF Range
  <2>2. /\ i + Len(a) \in 1 .. Len(a) + Len(b) /\ ~(i + Len(a) <= Len(a))
        /\ (i + Len(a)) - Len(a) = i
    BY <1>3
  <2>. QED  BY <1>2, <1>3, <2>1, <2>2 DEF Range
<1>. QED  BY <1>1, <1>4, <1>5, <1>6

\* What the rest of a list and its first item are.
LEMMA HeadAndTail ==
  ASSUME NEW T, NEW list \in Seq(T), list # <<>>
  PROVE  /\ Head(list) \in T /\ Head(list) \in Range(list)
         /\ Tail(list) \in Seq(T)
         /\ \A x : x \in Range(list) <=> x = Head(list) \/ x \in Range(Tail(list))
<1>1. Len(list) \in Nat \ {0} /\ DOMAIN list = 1 .. Len(list)
  BY EmptySeq
<1>2. /\ Head(list) = list[1] /\ Head(list) \in T /\ Tail(list) \in Seq(T)
      /\ Len(Tail(list)) = Len(list) - 1
      /\ \A i \in 1 .. Len(list) - 1 : Tail(list)[i] = list[i + 1]
  BY HeadTailProperties
<1>3. DOMAIN Tail(list) = 1 .. Len(list) - 1
  BY <1>2
<1>4. Head(list) \in Range(list)
  BY <1>1, <1>2 DEF Range
<1>5. ASSUME NEW x \in Range(list), x # Head(list)  PROVE x \in Range(Tail(list))
  <2>1. PICK i \in 1 .. Len(list) : x = list[i]
    BY <1>1, <1>5 DEF Range
  <2>2. i # 1
    BY <1>2, <1>5, <2>1
  <2>3. i - 1 \in 1 .. Len(list) - 1 /\ (i - 1) + 1 = i
    BY <1>1, <2>2
  <2>. QED  BY <1>2, <1>3, <2>1, <2>3 DEF Range
<1>6. ASSUME NEW x \in Range(Tail(list))  PROVE x \in Range(list)
  <2>1. PICK i \in 1 .. Len(list) - 1 : x = Tail(list)[i]
    BY <1>3, <1>6 DEF Range
  <2>2. i + 1 \in 1 .. Len(list)
    BY <1>1
  <2>. QED  BY <1>1, <1>2, <2>1, <2>2 DEF Range
<1>. QED  BY <1>2, <1>4, <1>5, <1>6

\* f[n] is what the first n lists are, one after the other.
Flattens(T, seqs, f) ==
  /\ f \in [0 .. Len(seqs) -> Seq(T)]
  /\ f[0] = <<>>
  /\ \A k \in 1 .. Len(seqs) : f[k] = f[k - 1] \o seqs[k]

\* A list of lists is made one by putting them one after the other.
LEMMA FlattenSteps ==
  ASSUME NEW T, NEW seqs \in Seq(Seq(T))
  PROVE  \E f : Flattens(T, seqs, f) /\ FlattenSeq(seqs) = f[Len(seqs)]
<1>. DEFINE len == Len(seqs)
            V == Seq(T)
            step == [k \in 1 .. len |-> [v \in V |-> v \o seqs[k]]]
            base == <<>>
<1>1. len \in Nat /\ \A k \in 1 .. len : seqs[k] \in V
  OBVIOUS
<1>2. base \in V /\ DOMAIN seqs = 1 .. len
  BY <1>1
<1>3. step \in [1 .. len -> [V -> V]]
  <2>1. \A k \in 1 .. len, v \in V : v \o seqs[k] \in V
    BY <1>1
  <2>. QED  BY <2>1
<1>4. PICK f \in [0 .. len -> V] :
        f[0] = base /\ \A k \in 1 .. len : f[k] = step[k][f[k - 1]]
  <2>. HIDE DEF step, len, V, base
  <2>1. base \in V /\ len \in Nat /\ step \in [1 .. len -> [V -> V]]
    BY <1>1, <1>2, <1>3
  <2>2. \E f : Iterates(f, V, base, len, step)
    BY <2>1, Iteration
  <2>. QED  BY <2>2 DEF Iterates
<1>5. ASSUME NEW k \in 1 .. len
      PROVE  /\ k \in 0 .. len /\ k - 1 \in 0 .. len
             /\ f[k] \in V /\ f[k - 1] \in V
             /\ f[k] = f[k - 1] \o seqs[k]
  <2>1. k \in 0 .. len /\ k - 1 \in 0 .. len
    BY <1>1
  <2>. HIDE DEF len
  <2>2. f[k] \in V /\ f[k - 1] \in V
    BY <1>4, <2>1
  <2>. QED  BY <1>4, <2>1, <2>2
<1>6. Flattens(T, seqs, f)
  BY <1>4, <1>5 DEF Flattens
<1>7. CASE len = 0
  <2>1. FlattenSeq(seqs) = <<>>
    BY <1>7, EmptySeq DEF FlattenSeq
  <2>2. FlattenSeq(seqs) = f[Len(seqs)]
    BY <1>4, <1>7, <2>1
  <2>. QED  BY <1>6, <2>2
<1>8. CASE len # 0
  <2>1. f[1] = seqs[1]
    <3>1. 1 \in 1 .. len /\ 1 - 1 = 0
      BY <1>1, <1>8
    <3>2. seqs[1] \in Seq(T) /\ f[1] = <<>> \o seqs[1]
      BY <1>1, <1>4, <1>5, <3>1
    <3>. QED  BY <3>2, ConcatEmptySeq
  <2>. DEFINE Rhs(g, k) == IF k = 1 THEN seqs[k] ELSE g[k - 1] \o seqs[k]
              Fixed(g) == g = [k \in 1 .. len |-> Rhs(g, k)]
              c == CHOOSE g : Fixed(g)
              h == [k \in 1 .. len |-> f[k]]
  <2>2. Fixed(h)
    <3>1. ASSUME NEW k \in 1 .. len  PROVE f[k] = Rhs(h, k)
      <4>1. CASE k = 1
        BY <2>1, <4>1
      <4>2. CASE k # 1
        <5>1. k - 1 \in 1 .. len
          BY <1>1, <4>2
        <5>. QED  BY <1>5, <4>2, <5>1
      <4>. QED  BY <4>1, <4>2
    <3>2. h = [k \in 1 .. len |-> Rhs(h, k)]
      <4>. HIDE DEF Rhs, len
      <4>. QED  BY <3>1
    <3>. QED  BY <3>2
  <2>3. Fixed(c)
    <3>. HIDE DEF Fixed
    <3>. QED  BY <2>2
  <2>4. FlattenSeq(seqs) = c[len]
    BY <1>8 DEF FlattenSeq
  <2>. DEFINE P == {k \in 0 .. len : k # 0 => c[k] = f[k]}
  <2>5. \A k \in 1 .. len : c[k] = Rhs(c, k)
    <3>. HIDE DEF Rhs, len, c
    <3>. QED  BY <2>3
  <2>. HIDE DEF c
  <2>6. 0 \in P
    BY <1>1
  <2>7. ASSUME NEW k \in 1 .. len, k - 1 \in P  PROVE k \in P
    <3>1. k \in 0 .. len /\ k # 0
      BY <1>1
    <3>2. CASE k = 1
      BY <2>1, <2>5, <3>1, <3>2
    <3>3. CASE k # 1
      <4>1. c[k - 1] = f[k - 1]
        BY <2>7, <3>3
      <4>. QED  BY <1>5, <2>5, <3>1, <3>3, <4>1
    <3>. QED  BY <3>2, <3>3
  <2>8. len \in P
    <3>. HIDE DEF P, len
    <3>1. \A k \in 0 .. len : k \in P
      BY <1>1, <2>6, <2>7, Positions
    <3>. QED  BY <1>1, <3>1
  <2>9. FlattenSeq(seqs) = f[Len(seqs)]
    BY <1>8, <2>4, <2>8
  <2>. HIDE DEF len, V
  <2>. QED  BY <1>6, <2>9
<1>. QED  BY <1>7, <1>8

\* A list of lists made one holds what they hold.
LEMMA FlattenRange ==
  ASSUME NEW T, NEW seqs \in Seq(Seq(T))
  PROVE  /\ FlattenSeq(seqs) \in Seq(T)
         /\ \A x : x \in Range(FlattenSeq(seqs)) <=>
                    \E i \in DOMAIN seqs : x \in Range(seqs[i])
<1>. DEFINE len == Len(seqs)
<1>1. PICK f : Flattens(T, seqs, f) /\ FlattenSeq(seqs) = f[Len(seqs)]
  BY FlattenSteps
<1>2. /\ f \in [0 .. len -> Seq(T)] /\ f[0] = <<>>
      /\ \A k \in 1 .. len : f[k] = f[k - 1] \o seqs[k]
      /\ FlattenSeq(seqs) = f[len]
  BY <1>1 DEF Flattens
<1>3. /\ len \in Nat /\ DOMAIN seqs = 1 .. len
      /\ \A k \in 1 .. len : seqs[k] \in Seq(T)
  OBVIOUS
<1>. HIDE DEF len
<1>4. \A k \in 1 .. len : k \in 0 .. len /\ k - 1 \in 0 .. len /\ f[k - 1] \in Seq(T)
  <2>1. \A k \in 1 .. len : k \in 0 .. len /\ k - 1 \in 0 .. len
    BY <1>3
  <2>. QED  BY <1>2, <2>1
<1>. DEFINE P == {k \in 0 .. len : \A x : x \in Range(f[k]) <=>
                                           \E i \in 1 .. k : x \in Range(seqs[i])}
<1>5. 0 \in P
  <2>1. Range(f[0]) = {} /\ 1 .. 0 = {} /\ 0 \in 0 .. len
    BY <1>2, <1>3 DEF Range
  <2>. QED  BY <2>1
<1>6. ASSUME NEW k \in 1 .. len, k - 1 \in P  PROVE k \in P
  <2>1. \A x : x \in Range(f[k]) <=> x \in Range(f[k - 1]) \/ x \in Range(seqs[k])
    <3>1. \A x : x \in Range(f[k - 1] \o seqs[k]) <=>
                 x \in Range(f[k - 1]) \/ x \in Range(seqs[k])
      BY <1>3, <1>4, RangeOfConcat
    <3>. QED  BY <1>2, <3>1
  <2>2. \A i : i \in 1 .. k <=> i \in 1 .. k - 1 \/ i = k
    BY <1>3
  <2>3. \A x : x \in Range(f[k - 1]) <=> \E i \in 1 .. k - 1 : x \in Range(seqs[i])
    BY <1>6
  <2>4. \A x : x \in Range(f[k]) <=> \E i \in 1 .. k : x \in Range(seqs[i])
    BY <2>1, <2>2, <2>3, Zenon
  <2>. QED  BY <1>4, <2>4
<1>7. len \in P
  <2>. HIDE DEF P
  <2>1. \A k \in 0 .. len : k \in P
    BY <1>3, <1>5, <1>6, Positions
  <2>. QED  BY <1>3, <2>1
<1>8. f[len] \in Seq(T)
  BY <1>2, <1>3
<1>. QED  BY <1>2, <1>3, <1>7, <1>8

-----------------------------------------------------------------------------
(* Induction, and what is selected.                                         *)

\* Induction with all the positions before.
LEMMA PositionsBefore ==
  ASSUME NEW n \in Nat, NEW P,
         \A k \in 1 .. n : (\A i \in 1 .. k - 1 : i \in P) => k \in P
  PROVE  \A k \in 1 .. n : k \in P
<1>. DEFINE Q == {k \in 0 .. n : \A i \in 1 .. k : i \in P}
<1>1. 0 \in Q
  OBVIOUS
<1>2. ASSUME NEW k \in 1 .. n, k - 1 \in Q  PROVE k \in Q
  <2>1. \A i \in 1 .. k - 1 : i \in P
    BY <1>2
  <2>2. k \in P
    BY <2>1
  <2>3. \A i \in 1 .. k : i \in 1 .. k - 1 \/ i = k
    OBVIOUS
  <2>. QED  BY <2>1, <2>2, <2>3
<1>3. \A k \in 0 .. n : k \in Q
  <2>. HIDE DEF Q
  <2>. QED  BY <1>1, <1>2, Positions
<1>4. n \in Q
  BY <1>3
<1>. QED  BY <1>4

\* Induction with all the positions after.
LEMMA PositionsAfter ==
  ASSUME NEW n \in Nat, NEW P,
         \A k \in 1 .. n : (\A i \in k + 1 .. n : i \in P) => k \in P
  PROVE  \A k \in 1 .. n : k \in P
<1>. DEFINE Q == {j \in 0 .. n : \A i \in (n - j) + 1 .. n : i \in P}
<1>1. 0 \in Q
  OBVIOUS
<1>2. ASSUME NEW j \in 1 .. n, j - 1 \in Q  PROVE j \in Q
  <2>. DEFINE k == (n - j) + 1
  <2>1. k \in 1 .. n /\ k = n - (j - 1)
    OBVIOUS
  <2>2. \A i \in k + 1 .. n : i \in P
    BY <1>2, <2>1
  <2>3. k \in P
    BY <2>1, <2>2
  <2>4. \A i \in k .. n : i \in k + 1 .. n \/ i = k
    BY <2>1
  <2>. QED  BY <2>2, <2>3, <2>4
<1>3. \A k \in 0 .. n : k \in Q
  <2>. HIDE DEF Q
  <2>. QED  BY <1>1, <1>2, Positions
<1>4. n \in Q
  BY <1>3
<1>. QED  BY <1>4

\* Of a list that is all in S everything is selected.
LEMMA SelectAll ==
  ASSUME NEW T, NEW list \in Seq(T), NEW S, \A x \in Range(list) : x \in S
  PROVE  Select(list, S) = list
<1>. DEFINE len == Len(list)
<1>1. PICK f : Selects(T, list, S, f) /\ Select(list, S) = f[Len(list)]
  BY SelectSteps
<1>2. /\ f \in [0 .. len -> Seq(T)] /\ f[0] = <<>>
      /\ \A n \in 1 .. len :
           f[n] = IF list[n] \in S THEN Append(f[n - 1], list[n]) ELSE f[n - 1]
      /\ Select(list, S) = f[len]
  BY <1>1 DEF Selects
<1>3. /\ len \in Nat /\ DOMAIN list = 1 .. len
      /\ \A n \in 1 .. len : list[n] \in T
  OBVIOUS
<1>. HIDE DEF len
<1>4. \A n \in 1 .. len : list[n] \in S
  BY <1>3 DEF Range
<1>5. \A n \in 1 .. len : n \in 0 .. len /\ n - 1 \in 0 .. len /\ f[n - 1] \in Seq(T)
  <2>1. \A n \in 1 .. len : n \in 0 .. len /\ n - 1 \in 0 .. len
    BY <1>3
  <2>. QED  BY <1>2, <2>1
<1>. DEFINE P == {n \in 0 .. len : Len(f[n]) = n /\ \A i \in 1 .. n : f[n][i] = list[i]}
<1>6. 0 \in P
  <2>1. Len(f[0]) = 0 /\ 0 \in 0 .. len
    BY <1>2, <1>3, EmptySeq
  <2>. QED  BY <2>1
<1>7. ASSUME NEW n \in 1 .. len, n - 1 \in P  PROVE n \in P
  <2>1. f[n] = Append(f[n - 1], list[n])
    BY <1>2, <1>4
  <2>2. /\ Len(f[n - 1]) = n - 1
        /\ \A i \in 1 .. n - 1 : f[n - 1][i] = list[i]
    BY <1>7
  <2>3. /\ Len(f[n]) = (n - 1) + 1
        /\ \A i \in 1 .. (n - 1) : f[n][i] = f[n - 1][i]
        /\ f[n][(n - 1) + 1] = list[n]
    BY <1>3, <1>5, <2>1, <2>2, AppendProperties
  <2>4. (n - 1) + 1 = n /\ \A i \in 1 .. n : i \in 1 .. n - 1 \/ i = n
    BY <1>3
  <2>. QED  BY <1>5, <2>2, <2>3, <2>4
<1>8. len \in P
  <2>. HIDE DEF P
  <2>1. \A n \in 0 .. len : n \in P
    BY <1>3, <1>6, <1>7, Positions
  <2>. QED  BY <1>3, <2>1
<1>9. f[len] \in Seq(T)
  BY <1>2, <1>3
<1>. QED  BY <1>2, <1>8, <1>9, SeqEqual DEF len

\* Of a list that has nothing in S nothing is selected.
LEMMA SelectNone ==
  ASSUME NEW T, NEW list \in Seq(T), NEW S, \A x \in Range(list) : x \notin S
  PROVE  Select(list, S) = <<>>
<1>1. Select(list, S) \in Seq(T) /\ \A x : x \notin Range(Select(list, S))
  BY SelectFacts
<1>. DEFINE s == Select(list, S)
<1>2. s \in Seq(T) /\ \A x : x \notin Range(s)
  BY <1>1
<1>. HIDE DEF s
<1>3. ASSUME s # <<>>  PROVE FALSE
  <2>1. Head(s) \in Range(s)
    BY <1>2, <1>3, HeadAndTail
  <2>. QED  BY <1>2, <2>1
<1>. QED  BY <1>3 DEF s

\* What is selected of two lists, one after the other.
LEMMA SelectConcat ==
  ASSUME NEW T, NEW a \in Seq(T), NEW b \in Seq(T), NEW S
  PROVE  Select(a \o b, S) = Select(a, S) \o Select(b, S)
<1>. DEFINE la == Len(a)  lb == Len(b)  c == a \o b
<1>1. PICK f : Selects(T, a, S, f) /\ Select(a, S) = f[Len(a)]
  BY SelectSteps
<1>2. PICK g : Selects(T, b, S, g) /\ Select(b, S) = g[Len(b)]
  BY SelectSteps
<1>3. /\ c \in Seq(T) /\ Len(c) = la + lb
      /\ \A i \in 1 .. la + lb : c[i] = IF i <= la THEN a[i] ELSE b[i - la]
  BY ConcatProperties
<1>. HIDE DEF c
<1>4. PICK h : Selects(T, c, S, h) /\ Select(c, S) = h[Len(c)]
  BY <1>3, SelectSteps
<1>5. /\ la \in Nat /\ lb \in Nat
      /\ \A i \in 1 .. la : a[i] \in T
      /\ \A i \in 1 .. lb : b[i] \in T
  OBVIOUS
<1>6. /\ f \in [0 .. la -> Seq(T)] /\ f[0] = <<>>
      /\ \A i \in 1 .. la : f[i] = IF a[i] \in S THEN Append(f[i - 1], a[i]) ELSE f[i - 1]
      /\ Select(a, S) = f[la]
  BY <1>1 DEF Selects
<1>7. /\ g \in [0 .. lb -> Seq(T)] /\ g[0] = <<>>
      /\ \A i \in 1 .. lb : g[i] = IF b[i] \in S THEN Append(g[i - 1], b[i]) ELSE g[i - 1]
      /\ Select(b, S) = g[lb]
  BY <1>2 DEF Selects
<1>8. /\ h[0] = <<>>
      /\ \A i \in 1 .. la + lb : h[i] = IF c[i] \in S THEN Append(h[i - 1], c[i]) ELSE h[i - 1]
      /\ Select(c, S) = h[la + lb]
  BY <1>3, <1>4 DEF Selects
<1>. HIDE DEF la, lb
<1>. DEFINE P == {i \in 0 .. la : h[i] = f[i]}
            Q == {i \in 0 .. lb : h[la + i] = f[la] \o g[i]}
<1>9. 0 \in P
  BY <1>5, <1>6, <1>8
<1>10. ASSUME NEW i \in 1 .. la, i - 1 \in P  PROVE i \in P
  <2>1. i \in 1 .. la + lb /\ i \in 0 .. la /\ i <= la
    BY <1>5
  <2>2. c[i] = a[i]
    BY <1>3, <2>1
  <2>. QED  BY <1>6, <1>8, <1>10, <2>1, <2>2
<1>11. la \in P
  <2>. HIDE DEF P
  <2>1. \A i \in 0 .. la : i \in P
    BY <1>5, <1>9, <1>10, Positions
  <2>. QED  BY <1>5, <2>1
<1>12. h[la] = f[la] /\ f[la] \in Seq(T)
  BY <1>5, <1>6, <1>11
<1>13. 0 \in Q
  <2>1. la + 0 = la /\ 0 \in 0 .. lb
    BY <1>5
  <2>2. f[la] \o <<>> = f[la]
    BY <1>12, ConcatEmptySeq
  <2>. QED  BY <1>7, <1>12, <2>1, <2>2
<1>14. ASSUME NEW i \in 1 .. lb, i - 1 \in Q  PROVE i \in Q
  <2>1. /\ la + i \in 1 .. la + lb /\ i \in 0 .. lb /\ ~(la + i <= la)
        /\ (la + i) - la = i /\ (la + i) - 1 = la + (i - 1) /\ i - 1 \in 0 .. lb
    BY <1>5
  <2>2. c[la + i] = b[i]
    BY <1>3, <2>1
  <2>3. h[la + (i - 1)] = f[la] \o g[i - 1]
    BY <1>14
  <2>4. g[i - 1] \in Seq(T) /\ b[i] \in T
    BY <1>5, <1>7, <2>1
  <2>5. CASE b[i] \in S
    <3>1. g[i] = Append(g[i - 1], b[i])
      BY <1>7, <2>5
    <3>2. h[la + i] = Append(f[la] \o g[i - 1], b[i])
      BY <1>8, <2>1, <2>2, <2>3, <2>5
    <3>3. Append(f[la] \o g[i - 1], b[i]) = f[la] \o Append(g[i - 1], b[i])
      <4>1. ASSUME NEW u \in Seq(T), NEW v \in Seq(T), NEW e \in T
            PROVE  Append(u \o v, e) = u \o Append(v, e)
        <5>. DEFINE last == <<e>>
        <5>1. last \in Seq(T) /\ u \o v \in Seq(T)
          BY ConcatProperties
        <5>2. Append(u \o v, e) = (u \o v) \o last /\ Append(v, e) = v \o last
          BY <5>1, AppendIsConcat
        <5>. HIDE DEF last
        <5>. QED  BY <5>1, <5>2, ConcatAssociative
      <4>. QED  BY <1>12, <2>4, <4>1
    <3>. QED  BY <2>1, <3>1, <3>2, <3>3
  <2>6. CASE b[i] \notin S
    <3>1. g[i] = g[i - 1] /\ h[la + i] = f[la] \o g[i - 1]
      BY <1>7, <1>8, <2>1, <2>2, <2>3, <2>6
    <3>. QED  BY <2>1, <3>1
  <2>. QED  BY <2>5, <2>6
<1>15. lb \in Q
  <2>. HIDE DEF Q
  <2>1. \A i \in 0 .. lb : i \in Q
    BY <1>5, <1>13, <1>14, Positions
  <2>. QED  BY <1>5, <2>1
<1>. QED  BY <1>6, <1>7, <1>8, <1>15 DEF c

\* Of lists of which one is all in S and the others have nothing in S, one
\* after the other, that one is selected.
LEMMA SelectOfFlatten ==
  ASSUME NEW T, NEW seqs \in Seq(Seq(T)), NEW S, NEW j \in DOMAIN seqs,
         \A x \in Range(seqs[j]) : x \in S,
         \A i \in DOMAIN seqs \ {j} : \A x \in Range(seqs[i]) : x \notin S
  PROVE  Select(FlattenSeq(seqs), S) = seqs[j]
<1>. DEFINE len == Len(seqs)
<1>1. PICK f : Flattens(T, seqs, f) /\ FlattenSeq(seqs) = f[Len(seqs)]
  BY FlattenSteps
<1>2. /\ f \in [0 .. len -> Seq(T)] /\ f[0] = <<>>
      /\ \A k \in 1 .. len : f[k] = f[k - 1] \o seqs[k]
      /\ FlattenSeq(seqs) = f[len]
  BY <1>1 DEF Flattens
<1>3. /\ len \in Nat /\ DOMAIN seqs = 1 .. len
      /\ \A k \in 1 .. len : seqs[k] \in Seq(T)
  OBVIOUS
<1>. HIDE DEF len
<1>4. \A k \in 1 .. len : k \in 0 .. len /\ k - 1 \in 0 .. len /\ f[k - 1] \in Seq(T)
  <2>1. \A k \in 1 .. len : k \in 0 .. len /\ k - 1 \in 0 .. len
    BY <1>3
  <2>. QED  BY <1>2, <2>1
<1>5. j \in 1 .. len /\ seqs[j] \in Seq(T)
  BY <1>3
<1>. DEFINE P == {k \in 0 .. len : Select(f[k], S) = IF k < j THEN <<>> ELSE seqs[j]}
<1>6. 0 \in P
  <2>. DEFINE none == <<>>
  <2>1. none \in Seq(T) /\ Range(none) = {}
    BY EmptySeq DEF Range
  <2>2. f[0] = none
    BY <1>2
  <2>3. Select(none, S) = <<>>
    <3>. HIDE DEF none
    <3>. QED  BY <2>1, SelectNone
  <2>. HIDE DEF none
  <2>4. 0 < j /\ 0 \in 0 .. len
    BY <1>3, <1>5
  <2>. QED  BY <2>2, <2>3, <2>4
<1>7. ASSUME NEW k \in 1 .. len, k - 1 \in P  PROVE k \in P
  <2>1. Select(f[k], S) = Select(f[k - 1], S) \o Select(seqs[k], S)
    <3>1. Select(f[k - 1] \o seqs[k], S) = Select(f[k - 1], S) \o Select(seqs[k], S)
      BY <1>3, <1>4, SelectConcat
    <3>. QED  BY <1>2, <3>1
  <2>2. k \in 0 .. len
    BY <1>4
  <2>3. CASE k < j
    <3>1. k - 1 < j /\ k # j
      BY <1>3, <1>5, <2>3
    <3>2. Select(seqs[k], S) = <<>>
      BY <1>3, <3>1, SelectNone
    <3>3. Select(f[k - 1], S) = <<>>
      BY <1>7, <3>1
    <3>4. Select(f[k], S) = <<>>
      BY <2>1, <3>2, <3>3
    <3>. QED  BY <2>2, <2>3, <3>4
  <2>4. CASE k = j
    <3>1. k - 1 < j /\ ~(k < j)
      BY <1>3, <1>5, <2>4
    <3>2. Select(seqs[k], S) = seqs[j]
      BY <1>3, <2>4, SelectAll
    <3>3. Select(f[k - 1], S) = <<>>
      BY <1>7, <3>1
    <3>4. Select(f[k], S) = seqs[j]
      BY <1>5, <2>1, <3>2, <3>3, ConcatEmptySeq
    <3>. QED  BY <2>2, <3>1, <3>4
  <2>5. CASE k > j
    <3>1. ~(k - 1 < j) /\ k # j /\ ~(k < j)
      BY <1>3, <1>5, <2>5
    <3>2. Select(seqs[k], S) = <<>>
      BY <1>3, <3>1, SelectNone
    <3>3. Select(f[k - 1], S) = seqs[j]
      BY <1>7, <3>1
    <3>4. Select(f[k], S) = seqs[j]
      BY <1>5, <2>1, <3>2, <3>3, ConcatEmptySeq
    <3>. QED  BY <2>2, <3>1, <3>4
  <2>6. k < j \/ k = j \/ k > j
    BY <1>3, <1>5
  <2>. QED  BY <2>3, <2>4, <2>5, <2>6
<1>8. len \in P
  <2>. HIDE DEF P
  <2>1. \A k \in 0 .. len : k \in P
    BY <1>3, <1>6, <1>7, Positions
  <2>. QED  BY <1>3, <2>1
<1>9. ~(len < j)
  BY <1>3, <1>5
<1>. QED  BY <1>2, <1>8, <1>9

-----------------------------------------------------------------------------
(* Lists of numbers in order.                                               *)

\* A list of numbers each of which is greater than the one before.
Increasing(list) == \A p, q \in DOMAIN list : p < q => list[p] < list[q]

\* Such a list is given by what it holds.
LEMMA IncreasingIsUnique ==
  ASSUME NEW a \in Seq(Nat), NEW b \in Seq(Nat), Increasing(a), Increasing(b),
         \A x : x \in Range(a) <=> x \in Range(b)
  PROVE  a = b
<1>. DEFINE la == Len(a)  lb == Len(b)
<1>1. /\ la \in Nat /\ DOMAIN a = 1 .. la /\ \A i \in 1 .. la : a[i] \in Nat
      /\ lb \in Nat /\ DOMAIN b = 1 .. lb /\ \A i \in 1 .. lb : b[i] \in Nat
  OBVIOUS
<1>. HIDE DEF la, lb
<1>2. /\ \A i \in 1 .. la : \E j \in 1 .. lb : b[j] = a[i]
      /\ \A i \in 1 .. lb : \E j \in 1 .. la : a[j] = b[i]
  BY <1>1 DEF Range
<1>3. /\ \A i, j \in 1 .. la : i < j => a[i] < a[j]
      /\ \A i, j \in 1 .. lb : i < j => b[i] < b[j]
  BY <1>1 DEF Increasing
<1>. DEFINE P == {i \in 1 .. la : i <= lb /\ a[i] = b[i]}
<1>4. ASSUME NEW i \in 1 .. la, \A k \in 1 .. i - 1 : k \in P  PROVE i \in P
  <2>1. PICK j \in 1 .. lb : b[j] = a[i]
    BY <1>2
  <2>2. ~(j < i)
    <3>. SUFFICES ASSUME j < i  PROVE FALSE
      OBVIOUS
    <3>1. j \in 1 .. i - 1 /\ j \in 1 .. la
      BY <1>1
    <3>2. a[j] = b[j] /\ a[j] < a[i]
      BY <1>3, <1>4, <3>1
    <3>. QED  BY <1>1, <2>1, <3>1, <3>2
  <2>3. i \in 1 .. lb
    BY <1>1, <2>2
  <2>4. PICK k \in 1 .. la : a[k] = b[i]
    BY <1>2, <2>3
  <2>5. ~(k < i)
    <3>. SUFFICES ASSUME k < i  PROVE FALSE
      OBVIOUS
    <3>1. k \in 1 .. i - 1 /\ k \in 1 .. lb
      BY <1>1, <2>3
    <3>2. a[k] = b[k] /\ b[k] < b[i]
      BY <1>3, <1>4, <2>3, <3>1
    <3>. QED  BY <1>1, <2>3, <2>4, <3>1, <3>2
  <2>6. k = i
    <3>. SUFFICES ASSUME k # i  PROVE FALSE
      OBVIOUS
    <3>1. i < k
      BY <1>1, <2>5
    <3>2. a[i] < a[k]
      BY <1>3, <3>1
    <3>3. i < j => b[i] < b[j]
      BY <1>3, <2>3
    <3>4. i = j \/ i < j
      BY <1>1, <2>2
    <3>. QED  BY <1>1, <2>1, <2>3, <2>4, <3>2, <3>3, <3>4
  <2>. QED  BY <1>1, <2>3, <2>4, <2>6
<1>5. \A i \in 1 .. la : i \in P
  <2>. HIDE DEF P
  <2>. QED  BY <1>1, <1>4, PositionsBefore
<1>6. la = lb
  <2>1. la <= lb
    <3>1. CASE la = 0
      BY <1>1, <3>1
    <3>2. CASE la # 0
      <4>1. la \in 1 .. la
        BY <1>1, <3>2
      <4>. QED  BY <1>5, <4>1
    <3>. QED  BY <3>1, <3>2
  <2>2. ASSUME la < lb  PROVE FALSE
    <3>1. lb \in 1 .. lb
      BY <1>1, <2>2
    <3>2. PICK j \in 1 .. la : a[j] = b[lb]
      BY <1>2, <3>1
    <3>3. a[j] = b[j] /\ j \in 1 .. lb /\ j < lb
      BY <1>1, <1>5, <2>2
    <3>4. b[j] < b[lb]
      BY <1>3, <3>1, <3>3
    <3>. QED  BY <1>1, <3>1, <3>2, <3>3, <3>4
  <2>. QED  BY <1>1, <2>1, <2>2
<1>. QED  BY <1>5, <1>6, SeqEqual DEF la, lb

\* Two such lists, one after the other, of which the second is greater.
LEMMA IncreasingConcat ==
  ASSUME NEW a \in Seq(Nat), NEW b \in Seq(Nat), Increasing(a), Increasing(b),
         \A x \in Range(a), y \in Range(b) : x < y
  PROVE  Increasing(a \o b)
<1>. DEFINE la == Len(a)  lb == Len(b)  c == a \o b
<1>1. /\ la \in Nat /\ DOMAIN a = 1 .. la /\ \A i \in 1 .. la : a[i] \in Nat
      /\ lb \in Nat /\ DOMAIN b = 1 .. lb /\ \A i \in 1 .. lb : b[i] \in Nat
  OBVIOUS
<1>2. /\ c \in Seq(Nat) /\ Len(c) = la + lb
      /\ \A i \in 1 .. la + lb : c[i] = IF i <= la THEN a[i] ELSE b[i - la]
  BY ConcatProperties
<1>3. DOMAIN c = 1 .. la + lb
  BY <1>2
<1>. HIDE DEF la, lb, c
<1>4. ASSUME NEW p \in 1 .. la + lb, NEW q \in 1 .. la + lb, p < q  PROVE c[p] < c[q]
  <2>1. CASE q <= la
    <3>1. p \in 1 .. la /\ q \in 1 .. la /\ p <= la
      BY <1>1, <1>4, <2>1
    <3>2. a[p] < a[q]
      BY <1>1, <1>4, <3>1 DEF Increasing
    <3>. QED  BY <1>2, <2>1, <3>1, <3>2
  <2>2. CASE p <= la /\ ~(q <= la)
    <3>1. p \in 1 .. la /\ q - la \in 1 .. lb
      BY <1>1, <1>4, <2>2
    <3>2. a[p] \in Range(a) /\ b[q - la] \in Range(b)
      BY <1>1, <3>1 DEF Range
    <3>3. c[p] = a[p] /\ c[q] = b[q - la]
      BY <1>2, <2>2
    <3>. QED  BY <3>2, <3>3
  <2>3. CASE ~(p <= la) /\ ~(q <= la)
    <3>1. p - la \in 1 .. lb /\ q - la \in 1 .. lb /\ p - la < q - la
      BY <1>1, <1>4, <2>3
    <3>2. b[p - la] < b[q - la]
      BY <1>1, <3>1 DEF Increasing
    <3>3. c[p] = b[p - la] /\ c[q] = b[q - la]
      BY <1>2, <2>3
    <3>. QED  BY <3>2, <3>3
  <2>4. q <= la \/ (p <= la /\ ~(q <= la)) \/ (~(p <= la) /\ ~(q <= la))
    BY <1>1, <1>4
  <2>. QED  BY <2>1, <2>2, <2>3, <2>4
<1>. QED  BY <1>3, <1>4 DEF Increasing, c

\* And any number of them.
LEMMA FlattenIncreasing ==
  ASSUME NEW seqs \in Seq(Seq(Nat)), \A i \in DOMAIN seqs : Increasing(seqs[i]),
         \A i, j \in DOMAIN seqs : i < j =>
            \A x \in Range(seqs[i]), y \in Range(seqs[j]) : x < y
  PROVE  Increasing(FlattenSeq(seqs))
<1>. DEFINE len == Len(seqs)
<1>1. PICK f : Flattens(Nat, seqs, f) /\ FlattenSeq(seqs) = f[Len(seqs)]
  BY FlattenSteps
<1>2. /\ f \in [0 .. len -> Seq(Nat)] /\ f[0] = <<>>
      /\ \A k \in 1 .. len : f[k] = f[k - 1] \o seqs[k]
      /\ FlattenSeq(seqs) = f[len]
  BY <1>1 DEF Flattens
<1>3. /\ len \in Nat /\ DOMAIN seqs = 1 .. len
      /\ \A k \in 1 .. len : seqs[k] \in Seq(Nat)
  OBVIOUS
<1>. HIDE DEF len
<1>4. \A k \in 1 .. len : k \in 0 .. len /\ k - 1 \in 0 .. len /\ f[k - 1] \in Seq(Nat)
  <2>1. \A k \in 1 .. len : k \in 0 .. len /\ k - 1 \in 0 .. len
    BY <1>3
  <2>. QED  BY <1>2, <2>1
<1>. DEFINE P == {k \in 0 .. len :
                    /\ Increasing(f[k])
                    /\ \A x \in Range(f[k]) : \E i \in 1 .. k : x \in Range(seqs[i])}
<1>5. 0 \in P
  <2>1. Range(f[0]) = {} /\ DOMAIN f[0] = {} /\ 0 \in 0 .. len
    BY <1>2, <1>3 DEF Range
  <2>2. Increasing(f[0])
    BY <2>1 DEF Increasing
  <2>. QED  BY <2>1, <2>2
<1>6. ASSUME NEW k \in 1 .. len, k - 1 \in P  PROVE k \in P
  <2>. DEFINE a == f[k - 1]  b == seqs[k]
  <2>1. /\ a \in Seq(Nat) /\ b \in Seq(Nat) /\ Increasing(a) /\ Increasing(b)
        /\ \A x \in Range(a) : \E i \in 1 .. k - 1 : x \in Range(seqs[i])
        /\ f[k] = a \o b
    BY <1>2, <1>3, <1>4, <1>6
  <2>2. \A i \in 1 .. k - 1 : i \in 1 .. len /\ i < k /\ i \in 1 .. k
    BY <1>3
  <2>. HIDE DEF a
  <2>3. ASSUME NEW x \in Range(a), NEW y \in Range(b)  PROVE x < y
    <3>1. PICK i \in 1 .. k - 1 : x \in Range(seqs[i])
      BY <2>1
    <3>. QED  BY <1>3, <2>2, <3>1
  <2>4. Increasing(f[k])
    <3>. HIDE DEF b
    <3>1. Increasing(a \o b)
      BY <2>1, <2>3, IncreasingConcat
    <3>. QED  BY <2>1, <3>1
  <2>5. \A x \in Range(a \o b) : x \in Range(a) \/ x \in Range(b)
    BY <2>1, RangeOfConcat
  <2>6. k \in 1 .. k
    BY <1>3
  <2>7. ASSUME NEW x \in Range(f[k])  PROVE \E i \in 1 .. k : x \in Range(seqs[i])
    <3>1. CASE x \in Range(a)
      BY <2>1, <2>2, <3>1
    <3>2. CASE x \in Range(b)
      BY <2>6, <3>2
    <3>. QED  BY <2>1, <2>5, <3>1, <3>2
  <2>. QED  BY <1>4, <2>4, <2>7
<1>7. len \in P
  <2>. HIDE DEF P
  <2>1. \A k \in 0 .. len : k \in P
    BY <1>3, <1>5, <1>6, Positions
  <2>. QED  BY <1>3, <2>1
<1>. QED  BY <1>2, <1>7

\* A list made of another one item by item.
LEMMA ItemByItem ==
  ASSUME NEW T, NEW list \in Seq(T), NEW R, NEW f, f = [k \in DOMAIN list |-> f[k]],
         \A k \in DOMAIN list : f[k] \in R
  PROVE  /\ f \in Seq(R) /\ Len(f) = Len(list) /\ DOMAIN f = DOMAIN list
         /\ DOMAIN list = 1 .. Len(list) /\ Len(list) \in Nat
         /\ list = [k \in DOMAIN list |-> list[k]]
<1>1. /\ Len(list) \in Nat /\ DOMAIN list = 1 .. Len(list)
      /\ list = [k \in DOMAIN list |-> list[k]]
  OBVIOUS
<1>2. f \in [1 .. Len(list) -> R]
  BY <1>1
<1>3. f \in Seq(R) /\ Len(f) = Len(list)
  BY <1>1, <1>2
<1>. QED  BY <1>1, <1>2, <1>3

=============================================================================
