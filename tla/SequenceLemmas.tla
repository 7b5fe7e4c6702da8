--------------------------- MODULE SequenceLemmas ---------------------------
(***************************************************************************)
(* Facts about sequences that the proofs of several modules use, and       *)
(* induction over natural numbers, with which the recursive functions of   *)
(* the models can be reasoned about.                                       *)
(***************************************************************************)
EXTENDS Functions, Sequences, WellFoundedInduction, TLAPS

\* Reading behind an append finds what was there and what was appended.
LEMMA RangeConcat ==
    ASSUME NEW S, NEW s \in Seq(S), NEW t \in Seq(S)
    PROVE  s \o t \in Seq(S) /\ Range(s \o t) = Range(s) \cup Range(t)
<1>1. s \o t \in Seq(S) OBVIOUS
<1>2. Range(s \o t) \subseteq Range(s) \cup Range(t) BY DEF Range
<1>3. ASSUME NEW x \in Range(s) PROVE x \in Range(s \o t)
  <2>1. PICK i \in 1..Len(s) : x = s[i] BY DEF Range
  <2>2. i \in 1..Len(s \o t) /\ (s \o t)[i] = x BY <2>1
  <2> QED BY <2>2 DEF Range
<1>4. ASSUME NEW x \in Range(t) PROVE x \in Range(s \o t)
  <2>1. PICK i \in 1..Len(t) : x = t[i] BY DEF Range
  <2>2. Len(s) + i \in 1..Len(s \o t) /\ (s \o t)[Len(s) + i] = x BY <2>1
  <2> QED BY <2>2 DEF Range
<1> QED BY <1>1, <1>2, <1>3, <1>4

LEMMA RangeAppend ==
    ASSUME NEW S, NEW s \in Seq(S), NEW x \in S
    PROVE  Append(s, x) \in Seq(S) /\ Range(Append(s, x)) = Range(s) \cup {x}
<1>1. Append(s, x) \in Seq(S) OBVIOUS
<1>2. Range(Append(s, x)) \subseteq Range(s) \cup {x} BY DEF Range
<1>3. ASSUME NEW y \in Range(s) PROVE y \in Range(Append(s, x))
  <2>1. PICK i \in 1..Len(s) : y = s[i] BY DEF Range
  <2>2. i \in 1..Len(Append(s, x)) /\ Append(s, x)[i] = y BY <2>1
  <2> QED BY <2>2 DEF Range
<1>4. x \in Range(Append(s, x))
  <2>1. Len(s) + 1 \in 1..Len(Append(s, x)) /\ Append(s, x)[Len(s) + 1] = x OBVIOUS
  <2> QED BY <2>1 DEF Range
<1> QED BY <1>1, <1>2, <1>3, <1>4

\* A queue that is written at its end and read at its head.
LEMMA ConcatAppend ==
    ASSUME NEW S, NEW s \in Seq(S), NEW t \in Seq(S), NEW x \in S
    PROVE  s \o Append(t, x) = Append(s \o t, x)
OBVIOUS

LEMMA AppendConcat ==
    ASSUME NEW S, NEW s \in Seq(S), NEW t \in Seq(S), NEW x \in S
    PROVE  Append(s, x) \o t = (s \o <<x>>) \o t
OBVIOUS

LEMMA ConcatEmpty ==
    ASSUME NEW S, NEW s \in Seq(S)
    PROVE  s \o <<>> = s /\ <<>> \o s = s
OBVIOUS

LEMMA HeadTail ==
    ASSUME NEW S, NEW s \in Seq(S), s # <<>>
    PROVE  /\ Head(s) \in S /\ Head(s) = s[1]
           /\ Tail(s) \in Seq(S) /\ Len(s) = Len(Tail(s)) + 1
           /\ \A i \in 1..Len(Tail(s)) : Tail(s)[i] = s[i + 1]
           /\ \A j \in 1..Len(s) : j = 1 \/ (j - 1 \in 1..Len(Tail(s)) /\ Tail(s)[j - 1] = s[j])
OBVIOUS

LEMMA SameElements ==
    ASSUME NEW S, NEW s \in Seq(S), NEW t \in Seq(S), Len(s) = Len(t),
           \A i \in 1..Len(s) : s[i] = t[i]
    PROVE  s = t
OBVIOUS

\* Messages that are written to an empty connection.
LEMMA AppendShort ==
    ASSUME NEW a, NEW b
    PROVE  Append(<<>>, a) = <<a>> /\ Append(<<a>>, b) = <<a, b>>
<1>1. Append(<<>>, a) = <<a>> OBVIOUS
<1>2. Append(<<a>>, b) = <<a, b>>
  <2> DEFINE S == {a, b}
  <2>1. <<a>> \in Seq(S) /\ <<a, b>> \in Seq(S) /\ b \in S OBVIOUS
  <2>2. Append(<<a>>, b) \in Seq(S) BY <2>1
  <2>3. Len(Append(<<a>>, b)) = 2 /\ Len(<<a, b>>) = 2 BY <2>1
  <2>4. \A i \in 1..2 : Append(<<a>>, b)[i] = <<a, b>>[i] BY <2>1
  <2>5. Len(Append(<<a>>, b)) = Len(<<a, b>>)
        /\ \A i \in 1..Len(Append(<<a>>, b)) : Append(<<a>>, b)[i] = <<a, b>>[i]
      BY <2>3, <2>4
  <2> HIDE DEF S
  <2> QED BY <2>1, <2>2, <2>5, SameElements
<1> QED BY <1>1, <1>2

-----------------------------------------------------------------------------
(* Induction: a set is the property, so that no operator has to be instantiated *)

LEMMA Induction ==
    ASSUME NEW P, 0 \in P, \A n \in Nat : n \in P => n + 1 \in P
    PROVE  \A n \in Nat : n \in P
<1> DEFINE T == Nat \ P
           R == OpToRel(<, Nat)
<1>1. SUFFICES ASSUME T # {} PROVE FALSE OBVIOUS
<1>2. IsWellFoundedOn(R, Nat) BY NatLessThanWellFounded
<1>3. T \subseteq Nat /\ T # {} BY <1>1
<1>4. \A m, n \in Nat : m < n => <<m, n>> \in R BY DEF OpToRel
<1> HIDE DEF R, T
<1>5. PICK x \in T : \A y \in T : ~(<<y, x>> \in R) BY <1>2, <1>3, WFMin
<1>6. x \in Nat /\ x \notin P BY <1>5 DEF T
<1>7. x - 1 \in Nat /\ x - 1 < x /\ x = (x - 1) + 1 BY <1>6
<1>8. x - 1 \in P BY <1>4, <1>5, <1>6, <1>7 DEF T
<1> QED BY <1>6, <1>7, <1>8

\* Up to a bound, as along a sequence.
LEMMA BoundedInduction ==
    ASSUME NEW N \in Nat, NEW P, 0 \in P, \A n \in 0..(N - 1) : n \in P => n + 1 \in P
    PROVE  \A n \in 0..N : n \in P
<1> DEFINE Q == {n \in Nat : n <= N => n \in P}
<1>1. 0 \in Q OBVIOUS
<1>2. ASSUME NEW n \in Nat, n \in Q PROVE n + 1 \in Q
  <2>1. CASE n + 1 <= N
    <3>1. n \in 0..(N - 1) /\ n <= N BY <2>1
    <3>2. n + 1 \in P BY <1>2, <3>1
    <3> QED BY <3>2
  <2>2. CASE ~(n + 1 <= N) BY <2>2
  <2> QED BY <2>1, <2>2
<1> HIDE DEF Q
<1>3. \A n \in Nat : n \in Q BY <1>1, <1>2, Induction
<1> QED BY <1>3 DEF Q

\* A function that is defined by what it adds to the one before exists.
Built(f, S, a, N, g) == f \in [0..N -> S] /\ f[0] = a /\ \A i \in 1..N : f[i] = g[i][f[i - 1]]

LEMMA RecursionExists ==
    ASSUME NEW S, NEW a \in S, NEW N \in Nat, NEW g \in [1..N -> [S -> S]]
    PROVE  \E f : Built(f, S, a, N, g)
<1> DEFINE Good(n, f) == f[0] = a /\ \A i \in 1..n : f[i] = g[i][f[i - 1]]
           P == {n \in 0..N : \E f \in [0..n -> S] : Good(n, f)}
<1>1. 0 \in P
  <2> DEFINE f == [i \in 0..0 |-> a]
  <2>1. f \in [0..0 -> S] /\ Good(0, f) /\ 0 \in 0..N OBVIOUS
  <2> HIDE DEF f, Good
  <2> QED BY <2>1
<1>2. ASSUME NEW n \in 0..(N - 1), n \in P PROVE n + 1 \in P
  <2>1. PICK f \in [0..n -> S] : Good(n, f) BY <1>2
  <2>2. n + 1 \in 1..N /\ n \in 0..n /\ n \in Nat OBVIOUS
  <2>3. f[n] \in S BY <2>1, <2>2
  <2>4. g[n + 1][f[n]] \in S BY <2>2, <2>3
  <2> DEFINE h == [i \in 0..(n + 1) |-> IF i = n + 1 THEN g[n + 1][f[n]] ELSE f[i]]
  <2>5. h \in [0..(n + 1) -> S] BY <2>1, <2>2, <2>4
  <2>6. h[0] = a BY <2>1, <2>2
  <2>7. ASSUME NEW i \in 1..(n + 1) PROVE h[i] = g[i][h[i - 1]]
    <3>1. CASE i = n + 1
      <4>1. i - 1 = n /\ i - 1 \in 0..(n + 1) /\ i - 1 # n + 1 BY <2>2, <3>1
      <4>2. h[i - 1] = f[n] BY <4>1
      <4> QED BY <3>1, <4>2
    <3>2. CASE i # n + 1
      <4>1. i \in 1..n /\ i - 1 \in 0..(n + 1) /\ i - 1 # n + 1 BY <2>2, <3>2
      <4>2. h[i - 1] = f[i - 1] /\ h[i] = f[i] BY <3>2, <4>1
      <4> QED BY <2>1, <4>1, <4>2
    <3> QED BY <3>1, <3>2
  <2> HIDE DEF h
  <2>8. Good(n + 1, h) BY <2>6, <2>7
  <2> QED BY <2>2, <2>5, <2>8, SMTT(30)
<1> HIDE DEF P, Good
<1>3. \A n \in 0..N : n \in P BY <1>1, <1>2, BoundedInduction
<1>4. N \in P BY <1>3
<1> QED BY <1>4 DEF P, Good, Built

\* What holds at the beginning and is kept by every step holds everywhere.
LEMMA Along ==
    ASSUME NEW S, NEW N \in Nat, NEW h, h[0] \in S, \A i \in 1..N : h[i - 1] \in S => h[i] \in S
    PROVE  \A i \in 0..N : h[i] \in S
<1> DEFINE P == {i \in 0..N : h[i] \in S}
<1>1. 0 \in P OBVIOUS
<1>2. ASSUME NEW n \in 0..(N - 1), n \in P PROVE n + 1 \in P
  <2>1. n + 1 \in 1..N /\ n + 1 \in 0..N /\ (n + 1) - 1 = n OBVIOUS
  <2> QED BY <1>2, <2>1
<1> HIDE DEF P
<1>3. \A n \in 0..N : n \in P BY <1>1, <1>2, BoundedInduction
<1> QED BY <1>3 DEF P

\* The elements before the first g.
Until(s, g) == {s[i] : i \in {j \in 1..Len(s) : \A k \in 1..j : s[k] # g}}

\* Without a g these are all of them.
LEMMA UntilNone ==
    ASSUME NEW S, NEW s \in Seq(S), NEW g, g \notin Range(s)
    PROVE  Until(s, g) = Range(s)
<1>1. \A i \in 1..Len(s) : s[i] # g BY DEF Range
<1>2. \A j \in 1..Len(s) : \A k \in 1..j : s[k] # g BY <1>1
<1> QED BY <1>2 DEF Until, Range

LEMMA UntilRange ==
    ASSUME NEW S, NEW s \in Seq(S), NEW g
    PROVE  Until(s, g) \subseteq Range(s) \ {g} /\ Until(s, g) \subseteq S \ {g}
<1>1. Range(s) \subseteq S BY DEF Range
<1>2. Until(s, g) \subseteq Range(s) \ {g} BY DEF Until, Range
<1> QED BY <1>1, <1>2

\* Behind an append they are among those of each part,
LEMMA UntilConcat ==
    ASSUME NEW S, NEW s \in Seq(S), NEW t \in Seq(S), NEW g
    PROVE  Until(s \o t, g) \subseteq Until(s, g) \cup Until(t, g)
<1> SUFFICES ASSUME NEW x \in Until(s \o t, g)
             PROVE  x \in Until(s, g) \/ x \in Until(t, g)
    OBVIOUS
<1>1. PICK i \in 1..Len(s \o t) :
          x = (s \o t)[i] /\ \A k \in 1..i : (s \o t)[k] # g
    BY DEF Until
<1>2. CASE i \in 1..Len(s)
  <2>1. \A k \in 1..i : (s \o t)[k] = s[k] BY <1>2
  <2>2. x = s[i] /\ \A k \in 1..i : s[k] # g BY <1>1, <1>2, <2>1
  <2> QED BY <1>2, <2>2 DEF Until
<1>3. CASE i \notin 1..Len(s)
  <2> DEFINE j == i - Len(s)
  <2>1. j \in 1..Len(t) /\ x = t[j] BY <1>1, <1>3
  <2>2. ASSUME NEW k \in 1..j PROVE t[k] # g
    <3>1. Len(s) + k \in 1..i /\ (s \o t)[Len(s) + k] = t[k] BY <1>3, <2>1
    <3> QED BY <1>1, <3>1
  <2> QED BY <2>1, <2>2 DEF Until
<1> QED BY <1>2, <1>3

\* and those of the first part remain.
LEMMA UntilKeeps ==
    ASSUME NEW S, NEW s \in Seq(S), NEW t \in Seq(S), NEW g
    PROVE  Until(s, g) \subseteq Until(s \o t, g)
<1>1. ASSUME NEW x \in Until(s, g) PROVE x \in Until(s \o t, g)
  <2>1. PICK i \in 1..Len(s) : x = s[i] /\ \A k \in 1..i : s[k] # g
      BY <1>1 DEF Until
  <2>2. \A k \in 1..i : (s \o t)[k] = s[k] OBVIOUS
  <2>3. i \in 1..Len(s \o t) /\ x = (s \o t)[i] /\ \A k \in 1..i : (s \o t)[k] # g
      BY <2>1, <2>2
  <2> QED BY <2>3 DEF Until
<1> QED BY <1>1

LEMMA UntilPrefix ==
    ASSUME NEW S, NEW s \in Seq(S), NEW g, NEW n \in 0..Len(s)
    PROVE  Until(SubSeq(s, 1, n), g) \subseteq Until(s, g)
<1> DEFINE q == SubSeq(s, 1, n)
<1>1. Len(q) = n /\ \A k \in 1..n : q[k] = s[k] OBVIOUS
<1>2. ASSUME NEW x \in Until(q, g) PROVE x \in Until(s, g)
  <2>1. PICK i \in 1..n : x = q[i] /\ \A k \in 1..i : q[k] # g
      BY <1>1, <1>2 DEF Until
  <2>2. i \in 1..Len(s) /\ x = s[i] /\ \A k \in 1..i : s[k] # g BY <1>1, <2>1
  <2> QED BY <2>2 DEF Until
<1> QED BY <1>2

=============================================================================
