---------------------------- MODULE LoggerProofs ----------------------------
(***************************************************************************)
(* Proofs about Logger and Printf, for any number of goroutines, loggers   *)
(* and buffers, any arguments, and formats of any length.                  *)
(***************************************************************************)
EXTENDS Logger, SequenceLemmas, FiniteSetTheorems

-----------------------------------------------------------------------------
(* Counting fields *)

\* Strings, and among them those the code itself uses as keys: the provers do
\* not know of any string that it is one.  The empty one has a name because the
\* SMT solver does not accept it.
Blank == ""
Text == STRING \cup {Blank, "base", "stackTrace", "frames"}

\* The pieces of fields; none is empty.
FieldPiece == [key : Text, id : Text, keys : Nat \ {0}, values : Nat]

\* The sums in the definition of Keys.
Sums(s) == CHOOSE f : f = [i \in 0..Len(s) |-> IF i = 0 THEN 0 ELSE f[i - 1] + s[i].keys]

LEMMA KeysSums == ASSUME NEW s PROVE Keys(s) = Sums(s)[Len(s)]
BY DEF Keys, Sums

LEMMA PieceKeys ==
    ASSUME NEW x \in FieldPiece
    PROVE  x.keys \in Nat /\ x.keys > 0 /\ x.values \in Nat
BY DEF FieldPiece

LEMMA SumsDef ==
    ASSUME NEW s \in Seq(FieldPiece)
    PROVE  /\ Sums(s) \in [0..Len(s) -> Nat] /\ Sums(s)[0] = 0
           /\ \A i \in 1..Len(s) : Sums(s)[i] = Sums(s)[i - 1] + s[i].keys
<1> DEFINE N == Len(s)
           g == [i \in 1..N |-> [x \in Nat |-> x + s[i].keys]]
           Sum(f) == f = [i \in 0..N |-> IF i = 0 THEN 0 ELSE f[i - 1] + s[i].keys]
<1>1. N \in Nat /\ 0 \in Nat /\ \A i \in 1..N : s[i] \in FieldPiece /\ s[i].keys \in Nat BY PieceKeys
<1>2. g \in [1..N -> [Nat -> Nat]] BY <1>1
<1>3. \A i \in 1..N : \A x \in Nat : g[i][x] = x + s[i].keys OBVIOUS
<1> HIDE DEF N, g
<1>4. PICK f : Built(f, Nat, 0, N, g) BY <1>1, <1>2, RecursionExists
<1>5. Sum(f)
  <2>1. ASSUME NEW i \in 0..N PROVE f[i] = IF i = 0 THEN 0 ELSE f[i - 1] + s[i].keys
    <3>1. CASE i = 0 BY <1>4, <3>1 DEF Built
    <3>2. CASE i # 0
      <4>1. i \in 1..N /\ i - 1 \in 0..N BY <1>1, <3>2
      <4>2. f[i - 1] \in Nat BY <1>4, <4>1 DEF Built
      <4> QED BY <1>3, <1>4, <3>2, <4>1, <4>2 DEF Built
    <3> QED BY <3>1, <3>2
  <2> QED BY <1>4, <2>1 DEF Built
<1>6. Sum(Sums(s))
  <2>1. Sums(s) = CHOOSE h : Sum(h) BY DEF Sums, N
  <2> HIDE DEF Sum
  <2> QED BY <1>5, <2>1
<1> DEFINE h == Sums(s)
<1>7. DOMAIN h = 0..N /\ h[0] = 0 /\ \A i \in 1..N : h[i] = h[i - 1] + s[i].keys
  <2>1. h = [i \in 0..N |-> IF i = 0 THEN 0 ELSE h[i - 1] + s[i].keys] BY <1>6
  <2> HIDE DEF h
  <2>2. DOMAIN h = 0..N /\ \A i \in 0..N : h[i] = IF i = 0 THEN 0 ELSE h[i - 1] + s[i].keys BY <2>1
  <2>3. 0 \in 0..N /\ \A i \in 1..N : i \in 0..N /\ i # 0 BY <1>1
  <2> QED BY <2>2, <2>3
<1>8. \A i \in 0..N : h[i] \in Nat
  <2> HIDE DEF h
  <2>1. ASSUME NEW i \in 1..N, h[i - 1] \in Nat PROVE h[i] \in Nat
    <3>1. s[i].keys \in Nat /\ h[i] = h[i - 1] + s[i].keys BY <1>1, <1>7
    <3> QED BY <2>1, <3>1
  <2> QED BY <1>1, <1>7, <2>1, Along
<1>9. h = [i \in 0..N |-> h[i]] BY <1>6
<1> QED BY <1>7, <1>8, <1>9 DEF N

LEMMA KeysEmpty == Keys(<<>>) = 0
<1>1. <<>> \in Seq(FieldPiece) /\ Len(<<>>) = 0 OBVIOUS
<1> QED BY <1>1, KeysSums, SumsDef

\* A sum depends on the pieces up to it only.
LEMMA SumsPrefix ==
    ASSUME NEW s \in Seq(FieldPiece), NEW t \in Seq(FieldPiece), NEW N \in 0..Len(s), N <= Len(t),
           \A i \in 1..N : s[i] = t[i]
    PROVE  Sums(s)[N] = Sums(t)[N]
<1> DEFINE P == {i \in 0..N : Sums(s)[i] = Sums(t)[i]}
<1>0. N \in Nat /\ Len(s) \in Nat /\ Len(t) \in Nat OBVIOUS
<1>1. 0 \in P BY <1>0, SumsDef
<1>2. ASSUME NEW n \in 0..(N - 1), n \in P PROVE n + 1 \in P
  <2>1. /\ n + 1 \in 1..N /\ n + 1 \in 1..Len(s) /\ n + 1 \in 1..Len(t) /\ (n + 1) - 1 = n
        /\ n + 1 \in 0..N
      BY <1>0
  <2>2. Sums(s)[n + 1] = Sums(s)[n] + s[n + 1].keys BY <2>1, SumsDef
  <2>3. Sums(t)[n + 1] = Sums(t)[n] + t[n + 1].keys BY <2>1, SumsDef
  <2>4. s[n + 1] = t[n + 1] BY <2>1
  <2> QED BY <1>2, <2>1, <2>2, <2>3, <2>4
<1> HIDE DEF P
<1>3. \A n \in 0..N : n \in P BY <1>0, <1>1, <1>2, BoundedInduction
<1> QED BY <1>0, <1>3 DEF P

\* What a piece at the end adds.
LEMMA KeysAppend ==
    ASSUME NEW s \in Seq(FieldPiece), NEW x \in FieldPiece
    PROVE  Keys(Append(s, x)) = Keys(s) + x.keys
<1> DEFINE t == Append(s, x)
<1>1. /\ t \in Seq(FieldPiece) /\ Len(t) = Len(s) + 1 /\ t[Len(s) + 1] = x /\ Len(s) \in Nat
      /\ \A i \in 1..Len(s) : s[i] = t[i]
    OBVIOUS
<1> HIDE DEF t
<1>2. Len(s) + 1 \in 1..Len(t) /\ (Len(s) + 1) - 1 = Len(s) /\ Len(s) \in 0..Len(s) /\ Len(s) <= Len(t)
    BY <1>1
<1>3. Sums(t)[Len(s) + 1] = Sums(t)[Len(s)] + x.keys BY <1>1, <1>2, SumsDef
<1>4. Sums(s)[Len(s)] = Sums(t)[Len(s)] BY <1>1, <1>2, SumsPrefix
<1> QED BY <1>1, <1>3, <1>4, KeysSums DEF t

LEMMA KeysType ==
    ASSUME NEW s \in Seq(FieldPiece)
    PROVE  Keys(s) \in Nat
<1>1. Len(s) \in 0..Len(s) OBVIOUS
<1> QED BY <1>1, KeysSums, SumsDef

\* Every piece has a key, so no fields are counted as none.
LEMMA KeysZero ==
    ASSUME NEW s \in Seq(FieldPiece), Keys(s) = 0
    PROVE  s = <<>>
<1> SUFFICES ASSUME s # <<>> PROVE FALSE OBVIOUS
<1>1. Len(s) \in 1..Len(s) /\ Len(s) - 1 \in 0..Len(s) OBVIOUS
<1>2. Sums(s)[Len(s)] = Sums(s)[Len(s) - 1] + s[Len(s)].keys /\ Sums(s)[Len(s) - 1] \in Nat
    BY <1>1, SumsDef
<1>3. s[Len(s)] \in FieldPiece BY <1>1
<1>4. s[Len(s)].keys \in Nat /\ s[Len(s)].keys > 0 BY <1>3, PieceKeys
<1>5. Sums(s)[Len(s)] = 0 BY KeysSums
<1> QED BY <1>2, <1>4, <1>5

LEMMA KeysConcat ==
    ASSUME NEW s \in Seq(FieldPiece), NEW t \in Seq(FieldPiece)
    PROVE  Keys(s \o t) = Keys(s) + Keys(t)
<1> DEFINE pre(n) == SubSeq(t, 1, n)
           P == {n \in 0..Len(t) : Keys(s \o pre(n)) = Keys(s) + Keys(pre(n))}
<1>0. Len(t) \in Nat OBVIOUS
<1>1. 0 \in P
  <2>1. pre(0) = <<>> /\ s \o <<>> = s OBVIOUS
  <2>2. Keys(s) + 0 = Keys(s) BY KeysType
  <2>3. 0 \in 0..Len(t) BY <1>0
  <2>4. Keys(s \o pre(0)) = Keys(s) + Keys(pre(0)) BY <2>1, <2>2, KeysEmpty
  <2> HIDE DEF pre
  <2> QED BY <2>3, <2>4
<1>2. ASSUME NEW n \in 0..(Len(t) - 1), n \in P PROVE n + 1 \in P
  <2>1. /\ n + 1 \in 0..Len(t) /\ t[n + 1] \in FieldPiece /\ pre(n) \in Seq(FieldPiece)
        /\ s \o pre(n) \in Seq(FieldPiece)
      OBVIOUS
  <2>2. pre(n + 1) = Append(pre(n), t[n + 1]) OBVIOUS
  <2>3. s \o Append(pre(n), t[n + 1]) = Append(s \o pre(n), t[n + 1]) BY <2>1, ConcatAppend
  <2>4. Keys(s \o pre(n + 1)) = Keys(s \o pre(n)) + t[n + 1].keys BY <2>1, <2>2, <2>3, KeysAppend
  <2>5. Keys(pre(n + 1)) = Keys(pre(n)) + t[n + 1].keys BY <2>1, <2>2, KeysAppend
  <2>6. /\ Keys(s) \in Nat /\ Keys(pre(n)) \in Nat /\ t[n + 1].keys \in Nat
        /\ Keys(s \o pre(n)) = Keys(s) + Keys(pre(n))
      BY <1>2, <2>1, KeysType DEF FieldPiece
  <2> HIDE DEF pre
  <2>7. Keys(s \o pre(n + 1)) = Keys(s) + Keys(pre(n + 1)) BY <2>4, <2>5, <2>6
  <2> QED BY <2>1, <2>7
<1> HIDE DEF P, pre
<1>3. \A n \in 0..Len(t) : n \in P BY <1>0, <1>1, <1>2, BoundedInduction
<1>4. pre(Len(t)) = t BY DEF pre
<1>5. Len(t) \in P BY <1>0, <1>3
<1> QED BY <1>4, <1>5 DEF P

-----------------------------------------------------------------------------
(* Counts are bytes *)

LEMMA ByteType == ASSUME NEW n \in Nat PROVE Byte(n) \in 0..255 /\ Byte(n) \in Nat
BY DEF Byte

LEMMA ByteSmall == ASSUME NEW n \in 0..255 PROVE Byte(n) = n
BY DEF Byte

LEMMA ByteAdd ==
    ASSUME NEW a \in Nat, NEW b \in Nat
    PROVE  /\ Byte(Byte(a) + b) = Byte(a + b) /\ Byte(Byte(a) + Byte(b)) = Byte(a + b)
           /\ Byte(a + Byte(b)) = Byte(a + b)
BY DEF Byte

-----------------------------------------------------------------------------
(* appendArgs *)

\* One argument.
Taken(s, a) ==
    IF s.key = Blank /\ a.kind = "string"
       THEN [s EXCEPT !.key = a.id]
       ELSE [key |-> Blank, out |-> s.out \o appendKeyValue(s.key, a).out,
             n |-> Byte(s.n + appendKeyValue(s.key, a).n)]

Nothing == [key |-> Blank, out |-> <<>>, n |-> 0]

TakenSteps(args) ==
    CHOOSE f : f = [i \in 0..Len(args) |-> IF i = 0 THEN Nothing ELSE Taken(f[i - 1], args[i])]

LEMMA ArgsSteps == ASSUME NEW args PROVE appendArgs(args) = TakenSteps(args)[Len(args)]
BY DEF appendArgs, TakenSteps, Taken, Nothing, Blank

\* What is appended is counted.
Counted == {s \in [key : Text, out : Seq(FieldPiece), n : Nat] : s.n = Byte(Keys(s.out))}

LEMMA CountedParts ==
    ASSUME NEW s
    PROVE  s \in Counted <=> /\ s \in [key : Text, out : Seq(FieldPiece), n : Nat]
                             /\ s.n = Byte(Keys(s.out))
BY DEF Counted

LEMMA CountedType ==
    ASSUME NEW out \in Seq(FieldPiece), NEW n \in Nat, NEW key \in Text
    PROVE  [key |-> key, out |-> out, n |-> n] \in [key : Text, out : Seq(FieldPiece), n : Nat]
OBVIOUS

LEMMA NoKey == Blank \in Text
BY DEF Text

LEMMA KeyValueCounted ==
    ASSUME NEW key \in Text, NEW a \in CallArgument
    PROVE  /\ appendKeyValue(key, a).out \in Seq(FieldPiece)
           /\ appendKeyValue(key, a).n \in Nat
           /\ Keys(appendKeyValue(key, a).out) = appendKeyValue(key, a).n
<1>0. a.id \in Text /\ a.n \in Nat BY DEF CallArgument, Text
<1>1. ASSUME NEW n \in Nat \ {0}
      PROVE  <<Piece(key, a.id, n, n)>> \in Seq(FieldPiece) /\ Keys(<<Piece(key, a.id, n, n)>>) = n
  <2> DEFINE x == Piece(key, a.id, n, n)
  <2>1. x \in FieldPiece /\ x.keys = n BY <1>0 DEF FieldPiece, Piece
  <2> HIDE DEF x
  <2>2. <<>> \in Seq(FieldPiece) /\ <<x>> = Append(<<>>, x) /\ <<x>> \in Seq(FieldPiece)
      BY <2>1, AppendShort
  <2>3. Keys(<<x>>) = 0 + n BY <2>1, <2>2, KeysAppend, KeysEmpty
  <2> QED BY <2>2, <2>3 DEF x
<1>2. <<>> \in Seq(FieldPiece) OBVIOUS
<1>3. CASE a.kind = "appender" /\ a.n = 0
  BY <1>2, <1>3, KeysEmpty DEF appendKeyValue
<1>4. CASE a.kind = "appender" /\ a.n # 0
  BY <1>0, <1>1, <1>4 DEF appendKeyValue
<1>5. CASE a.kind # "appender"
  <2>1. 1 \in Nat \ {0} OBVIOUS
  <2> QED BY <1>1, <1>5, <2>1 DEF appendKeyValue, Pair
<1> QED BY <1>3, <1>4, <1>5

LEMMA TakenCounted ==
    ASSUME NEW s \in Counted, NEW a \in CallArgument
    PROVE  Taken(s, a) \in Counted
<1>0. /\ s \in [key : Text, out : Seq(FieldPiece), n : Nat] /\ s.n = Byte(Keys(s.out))
      /\ s.key \in Text /\ s.out \in Seq(FieldPiece) /\ s.n \in Nat /\ a.id \in Text
  <2>1. a.id \in Text BY DEF CallArgument, Text
  <2>2. s \in [key : Text, out : Seq(FieldPiece), n : Nat] /\ s.n = Byte(Keys(s.out)) BY CountedParts
  <2>3. s.key \in Text /\ s.out \in Seq(FieldPiece) /\ s.n \in Nat BY <2>2
  <2> QED BY <2>1, <2>2, <2>3
<1>1. CASE s.key = Blank /\ a.kind = "string"
  <2> DEFINE r == [s EXCEPT !.key = a.id]
  <2>1. r \in [key : Text, out : Seq(FieldPiece), n : Nat] /\ r.out = s.out /\ r.n = s.n BY <1>0
  <2>2. Taken(s, a) = r BY <1>1 DEF Taken
  <2> QED BY <1>0, <2>1, <2>2, CountedParts
<1>2. CASE ~(s.key = Blank /\ a.kind = "string")
  <2> DEFINE o == appendKeyValue(s.key, a).out
             n == appendKeyValue(s.key, a).n
             r == [key |-> Blank, out |-> s.out \o o, n |-> Byte(s.n + n)]
  <2>1. o \in Seq(FieldPiece) /\ n \in Nat /\ Keys(o) = n BY <1>0, KeyValueCounted
  <2>2. Taken(s, a) = r BY <1>2 DEF Taken
  <2> HIDE DEF o, n
  <2>3. s.out \o o \in Seq(FieldPiece) /\ Keys(s.out \o o) = Keys(s.out) + n /\ Keys(s.out) \in Nat
      BY <1>0, <2>1, KeysConcat, KeysType
  <2>4. Byte(s.n + n) = Byte(Keys(s.out) + n) BY <1>0, <2>1, <2>3, ByteAdd
  <2>5. s.n + n \in Nat BY <1>0, <2>1
  <2>6. r \in [key : Text, out : Seq(FieldPiece), n : Nat]
    <3>1. Byte(s.n + n) \in Nat BY <2>5, ByteType
    <3> QED BY <2>3, <3>1, NoKey, CountedType
  <2>7. r.n = Byte(Keys(r.out)) BY <2>3, <2>4
  <2> QED BY <2>2, <2>6, <2>7, CountedParts
<1> QED BY <1>1, <1>2

LEMMA TakenStepsDef ==
    ASSUME NEW args \in Seq(CallArgument)
    PROVE  /\ TakenSteps(args)[0] = Nothing
           /\ \A i \in 1..Len(args) : TakenSteps(args)[i] = Taken(TakenSteps(args)[i - 1], args[i])
           /\ \A i \in 0..Len(args) : TakenSteps(args)[i] \in Counted
<1> DEFINE N == Len(args)
           g == [i \in 1..N |-> [s \in Counted |-> Taken(s, args[i])]]
           Steps(f) == f = [i \in 0..N |-> IF i = 0 THEN Nothing ELSE Taken(f[i - 1], args[i])]
           h == TakenSteps(args)
<1>1. N \in Nat /\ \A i \in 1..N : args[i] \in CallArgument OBVIOUS
<1>2. g \in [1..N -> [Counted -> Counted]] BY <1>1, TakenCounted
<1>3. \A i \in 1..N : \A s \in Counted : g[i][s] = Taken(s, args[i]) OBVIOUS
<1>4. Nothing \in Counted
  <2>1. Nothing \in [key : Text, out : Seq(FieldPiece), n : Nat]
    <3>1. <<>> \in Seq(FieldPiece) OBVIOUS
    <3> QED BY <3>1, NoKey, CountedType DEF Nothing
  <2>2. Nothing.n = Byte(Keys(Nothing.out)) BY KeysEmpty, ByteSmall DEF Nothing
  <2> QED BY <2>1, <2>2, CountedParts
<1>5. h = CHOOSE f : Steps(f) BY DEF TakenSteps
<1> HIDE DEF N, g, h
<1>6. PICK f : Built(f, Counted, Nothing, N, g) BY <1>1, <1>2, <1>4, RecursionExists
<1>7. Steps(f)
  <2>1. ASSUME NEW i \in 0..N PROVE f[i] = IF i = 0 THEN Nothing ELSE Taken(f[i - 1], args[i])
    <3>1. CASE i = 0 BY <1>6, <3>1 DEF Built
    <3>2. CASE i # 0
      <4>1. i \in 1..N /\ i - 1 \in 0..N BY <1>1, <3>2
      <4>2. f[i - 1] \in Counted BY <1>6, <4>1 DEF Built
      <4> QED BY <1>3, <1>6, <3>2, <4>1, <4>2 DEF Built
    <3> QED BY <3>1, <3>2
  <2> QED BY <1>6, <2>1 DEF Built
<1>8. Steps(h)
  <2> HIDE DEF Steps
  <2> QED BY <1>5, <1>7
<1>9. h[0] = Nothing /\ \A i \in 1..N : h[i] = Taken(h[i - 1], args[i])
  <2>1. \A i \in 0..N : h[i] = IF i = 0 THEN Nothing ELSE Taken(h[i - 1], args[i]) BY <1>8
  <2>2. 0 \in 0..N /\ \A i \in 1..N : i \in 0..N /\ i # 0 BY <1>1
  <2> QED BY <2>1, <2>2
<1>10. ASSUME NEW i \in 1..N, h[i - 1] \in Counted PROVE h[i] \in Counted
    BY <1>1, <1>9, <1>10, TakenCounted
<1>11. \A i \in 0..N : h[i] \in Counted BY <1>1, <1>4, <1>9, <1>10, Along
<1> QED BY <1>9, <1>11 DEF N, h

LEMMA ArgsCounted ==
    ASSUME NEW args \in Seq(CallArgument)
    PROVE  /\ appendArgs(args).out \in Seq(FieldPiece)
           /\ appendArgs(args).n = Byte(Keys(appendArgs(args).out))
<1>1. Len(args) \in 0..Len(args) OBVIOUS
<1>2. appendArgs(args) \in Counted BY <1>1, ArgsSteps, TakenStepsDef
<1> QED BY <1>2, CountedParts

LEMMA TakenValue ==
    ASSUME NEW s, NEW a, s.key # Blank
    PROVE  Taken(s, a).key = Blank /\ Taken(s, a).out = s.out \o appendKeyValue(s.key, a).out
BY DEF Taken

LEMMA PairedParts ==
    ASSUME NEW args, Paired(args)
    PROVE  /\ Len(args) % 2 = 0
           /\ \A i \in 1..Len(args) : IF i % 2 = 1 THEN args[i].kind = "string" /\ args[i].id # Blank
                                                     ELSE args[i].n > 0
BY Zenon DEF Paired, Blank

LEMMA Halves ==
    ASSUME NEW n \in Nat, n % 2 = 0
    PROVE  n \div 2 \in Nat /\ n = 2 * (n \div 2)
OBVIOUS

LEMMA AppendedEntry ==
    ASSUME NEW key, NEW a, a.kind = "appender" => a.n # 0
    PROVE  appendKeyValue(key, a).out = <<Entry(key, a)>>
BY DEF appendKeyValue, Entry, Pair

\* Keys and values in turn are appended as the pairs they stand for.
LEMMA FieldsOfArgs ==
    ASSUME NEW args \in Seq(CallArgument), Paired(args)
    PROVE  Fields(args) = appendArgs(args).out
<1> DEFINE M == Len(args) \div 2
           entry(i) == Entry(args[2 * i - 1].id, args[2 * i])
           entries(k) == [i \in 1..k |-> entry(i)]
           h == TakenSteps(args)
           P == {k \in 0..M : h[2 * k].key = Blank /\ h[2 * k].out = entries(k)}
<1>1. SUFFICES entries(M) = appendArgs(args).out
    BY DEF Fields
<1>2. Len(args) \in Nat /\ M \in Nat /\ Len(args) = 2 * M
  <2>1. Len(args) \in Nat /\ Len(args) % 2 = 0 BY PairedParts
  <2> QED BY <2>1, Halves
<1>3. 0 \in P
  <2>1. 2 * 0 = 0 /\ entries(0) = <<>> OBVIOUS
  <2>2. h[0] = Nothing BY TakenStepsDef
  <2> HIDE DEF h
  <2>3. h[0].key = Blank /\ h[0].out = <<>> BY <2>2 DEF Nothing
  <2> HIDE DEF entries, M
  <2>4. 0 \in 0..M /\ h[2 * 0].key = Blank /\ h[2 * 0].out = entries(0) BY <1>2, <2>1, <2>3
  <2> QED BY <2>4
<1>4. ASSUME NEW k \in 0..(M - 1), k \in P PROVE k + 1 \in P
  <2> DEFINE i == 2 * k + 1
             j == 2 * k + 2
  <2>1. /\ k + 1 \in 1..M /\ k + 1 \in 0..M /\ i \in 1..Len(args) /\ j \in 1..Len(args) /\ i - 1 = 2 * k /\ j - 1 = i
        /\ j = 2 * (k + 1) /\ i = 2 * (k + 1) - 1 /\ i % 2 = 1 /\ j % 2 # 1 /\ 2 * k \in 0..Len(args)
      BY <1>2
  <2>2. h[2 * k].key = Blank /\ h[2 * k].out = entries(k) BY <1>4
  <2>3. h[2 * k] \in Counted /\ h[i] = Taken(h[2 * k], args[i]) /\ h[j] = Taken(h[i], args[j])
      BY <2>1, TakenStepsDef
  <2>4. /\ args[i].kind = "string" /\ args[i].id # Blank /\ args[j].n > 0
        /\ args[i] \in CallArgument /\ args[j] \in CallArgument
    <3> HIDE DEF i, j
    <3>1. i \in 1..Len(args) /\ j \in 1..Len(args) /\ i % 2 = 1 /\ j % 2 # 1 BY <2>1
    <3>2. args[i].kind = "string" /\ args[i].id # Blank /\ args[j].n > 0 BY <3>1, PairedParts
    <3> QED BY <3>1, <3>2
  <2> HIDE DEF h, i, j, M, entry, entries
  <2>5. h[2 * k] \in [key : Text, out : Seq(FieldPiece), n : Nat] BY <2>3, CountedParts
  <2>6. h[i] = [h[2 * k] EXCEPT !.key = args[i].id] BY <2>2, <2>3, <2>4 DEF Taken
  <2>7. h[i].key = args[i].id /\ h[i].out = entries(k) BY <2>2, <2>5, <2>6
  <2>8. h[j].key = Blank /\ h[j].out = entries(k) \o appendKeyValue(args[i].id, args[j]).out
    <3>1. h[i].key # Blank BY <2>4, <2>7
    <3>2. /\ Taken(h[i], args[j]).key = Blank
          /\ Taken(h[i], args[j]).out = h[i].out \o appendKeyValue(h[i].key, args[j]).out
        BY <3>1, TakenValue
    <3>3. h[j] = Taken(h[i], args[j]) BY <2>3
    <3> QED BY <2>7, <3>2, <3>3, Zenon
  <2>9. appendKeyValue(args[i].id, args[j]).out = <<Entry(args[i].id, args[j])>>
    <3>1. args[j].n # 0 BY <2>4
    <3> QED BY <3>1, AppendedEntry
  <2>10. Entry(args[i].id, args[j]) = entry(k + 1) BY <2>1 DEF entry
  <2>11. entries(k) \o <<entry(k + 1)>> = entries(k + 1)
    <3>1. ASSUME NEW q PROVE [x \in 1..k |-> entry(x)] \o <<entry(k + 1)>> = [x \in 1..(k + 1) |-> entry(x)]
        OBVIOUS
    <3> QED BY <3>1 DEF entries
  <2> QED BY <2>1, <2>8, <2>9, <2>10, <2>11
<1> HIDE DEF P
<1>5. \A k \in 0..M : k \in P BY <1>2, <1>3, <1>4, BoundedInduction
<1>6. M \in P BY <1>2, <1>5
<1>7. h[Len(args)].out = entries(M)
  <2> HIDE DEF M, h, entries
  <2> QED BY <1>2, <1>6 DEF P
<1> QED BY <1>7, ArgsSteps

-----------------------------------------------------------------------------
(* Attributes, the stack trace and the base *)

LEMMA AllSingle ==
    ASSUME NEW s \in Seq(FieldPiece), \A i \in 1..Len(s) : s[i].keys = 1
    PROVE  Keys(s) = Len(s)
<1> DEFINE P == {n \in 0..Len(s) : Sums(s)[n] = n}
<1>0. Len(s) \in Nat OBVIOUS
<1>1. 0 \in P BY <1>0, SumsDef
<1>2. ASSUME NEW n \in 0..(Len(s) - 1), n \in P PROVE n + 1 \in P
  <2>1. n + 1 \in 1..Len(s) /\ n + 1 \in 0..Len(s) /\ (n + 1) - 1 = n BY <1>0
  <2>2. Sums(s)[n + 1] = Sums(s)[n] + 1 BY <2>1, SumsDef
  <2> QED BY <1>2, <2>1, <2>2
<1> HIDE DEF P
<1>3. \A n \in 0..Len(s) : n \in P BY <1>0, <1>1, <1>2, BoundedInduction
<1>4. Len(s) \in P BY <1>0, <1>3
<1> QED BY <1>4, KeysSums DEF P

LEMMA AttrsCounted ==
    ASSUME NEW attrs \in Seq(SlogAttr)
    PROVE  /\ appendSlogAttrs(attrs).out \in Seq(FieldPiece)
           /\ appendSlogAttrs(attrs).n = Byte(Keys(appendSlogAttrs(attrs).out))
<1> DEFINE piece(i) == Piece(attrs[i].id, attrs[i].id, 1, IF attrs[i].kind = "known" THEN 1 ELSE 0)
           out == [i \in 1..Len(attrs) |-> piece(i)]
<1>1. Len(attrs) \in Nat /\ \A i \in 1..Len(attrs) : attrs[i] \in SlogAttr OBVIOUS
<1>2. ASSUME NEW i \in 1..Len(attrs) PROVE piece(i) \in FieldPiece /\ piece(i).keys = 1
  <2>1. attrs[i].id \in Text BY <1>1 DEF SlogAttr, Text
  <2>2. (IF attrs[i].kind = "known" THEN 1 ELSE 0) \in Nat OBVIOUS
  <2> QED BY <2>1, <2>2 DEF Piece, FieldPiece
<1> HIDE DEF piece
<1>3. out \in Seq(FieldPiece) /\ Len(out) = Len(attrs) /\ \A i \in 1..Len(out) : out[i].keys = 1
    BY <1>1, <1>2
<1>4. appendSlogAttrs(attrs) = [out |-> out, n |-> Byte(Len(attrs))] BY DEF appendSlogAttrs, piece
<1> HIDE DEF out
<1> QED BY <1>3, <1>4, AllSingle

LEMMA SinglePiece ==
    ASSUME NEW x \in FieldPiece
    PROVE  <<x>> \in Seq(FieldPiece) /\ Len(<<x>>) = 1 /\ Keys(<<x>>) = x.keys
<1>1. <<>> \in Seq(FieldPiece) /\ <<x>> = Append(<<>>, x) /\ <<x>> \in Seq(FieldPiece) /\ Len(<<x>>) = 1
    BY AppendShort
<1>2. Keys(<<x>>) = 0 + x.keys BY <1>1, KeysAppend, KeysEmpty
<1> QED BY <1>1, <1>2, PieceKeys

LEMMA TraceCounted ==
    ASSUME NEW sev
    PROVE  /\ StackTrace(sev) \in Seq(FieldPiece) /\ Keys(StackTrace(sev)) = Len(StackTrace(sev))
           /\ Len(StackTrace(sev)) \in 0..1
<1> DEFINE x == Pair("stackTrace", "frames")
<1>1. x \in FieldPiece /\ x.keys = 1
  <2>1. "stackTrace" \in Text /\ "frames" \in Text BY DEF Text
  <2> QED BY <2>1 DEF Pair, Piece, FieldPiece
<1> HIDE DEF x
<1>2. <<x>> \in Seq(FieldPiece) /\ Len(<<x>>) = 1 /\ Keys(<<x>>) = 1 BY <1>1, SinglePiece
<1>3. <<>> \in Seq(FieldPiece) /\ Len(<<>>) = 0 /\ Keys(<<>>) = 0 BY KeysEmpty
<1>4. StackTrace(sev) = <<x>> \/ StackTrace(sev) = <<>> BY DEF StackTrace, x
<1>5. CASE StackTrace(sev) = <<x>> BY <1>2, <1>5, 1 \in 0..1
<1>6. CASE StackTrace(sev) = <<>> BY <1>3, <1>6, 0 \in 0..1
<1> QED BY <1>4, <1>5, <1>6

LEMMA BaseCounted == Base \in Seq(FieldPiece) /\ Keys(Base) = 3
<1> DEFINE x == Piece("base", "base", 3, 3)
<1>1. x \in FieldPiece /\ x.keys = 3
  <2>1. "base" \in Text BY DEF Text
  <2> QED BY <2>1 DEF Piece, FieldPiece
<1> HIDE DEF x
<1>2. Base = <<x>> BY DEF Base, x
<1> QED BY <1>1, <1>2, SinglePiece

-----------------------------------------------------------------------------
(* What is there and what was promised *)

LEMMA AgreeSame == ASSUME NEW s PROVE Agree(s, s)
BY DEF Agree

LEMMA AgreeEmpty == ASSUME NEW g \in Seq(FieldPiece), Agree(<<>>, g) PROVE g = <<>>
BY DEF Agree

LEMMA AgreeConcat ==
    ASSUME NEW s \in Seq(FieldPiece), NEW g \in Seq(FieldPiece), Agree(s, g),
           NEW t \in Seq(FieldPiece), NEW f \in Seq(FieldPiece), Agree(t, f)
    PROVE  Agree(s \o t, g \o f)
<1> DEFINE A(x, y) == x = y \/ (y.id \in Unvalued /\ x = [y EXCEPT !.values = 0])
<1>0. Len(s) \in Nat /\ Len(t) \in Nat OBVIOUS
<1>1. /\ Len(s) = Len(g) /\ Len(t) = Len(f)
      /\ (\A i \in 1..Len(s) : A(s[i], g[i])) /\ (\A i \in 1..Len(t) : A(t[i], f[i]))
    BY Zenon DEF Agree
<1> HIDE DEF A
<1>2. Len(s \o t) = Len(s) + Len(t) /\ Len(g \o f) = Len(s) + Len(t)
  <2>1. Len(s \o t) = Len(s) + Len(t) /\ Len(g \o f) = Len(g) + Len(f) OBVIOUS
  <2> QED BY <1>1, <2>1
<1>3. ASSUME NEW i \in 1..(Len(s) + Len(t)) PROVE A((s \o t)[i], (g \o f)[i])
  <2>1. CASE i \in 1..Len(s)
    <3>1. (s \o t)[i] = s[i] /\ (g \o f)[i] = g[i] BY <1>0, <1>1, <2>1
    <3> QED BY <1>1, <2>1, <3>1, Zenon
  <2>2. CASE i \notin 1..Len(s)
    <3>1. i - Len(s) \in 1..Len(t) BY <1>0, <2>2
    <3>2. (s \o t)[i] = t[i - Len(s)] /\ (g \o f)[i] = f[i - Len(s)] BY <1>0, <1>1, <2>2
    <3> QED BY <1>1, <3>1, <3>2, Zenon
  <2> QED BY <2>1, <2>2
<1>4. Agree(s \o t, g \o f) <=> /\ Len(s \o t) = Len(g \o f)
                               /\ \A i \in 1..Len(s \o t) : A((s \o t)[i], (g \o f)[i])
    BY DEF Agree, A
<1> QED BY <1>2, <1>3, <1>4, Zenon

\* A missing value does not change the number of keys.
LEMMA AgreeKeys ==
    ASSUME NEW s \in Seq(FieldPiece), NEW g \in Seq(FieldPiece), Agree(s, g)
    PROVE  Keys(s) = Keys(g)
<1> DEFINE P == {n \in 0..Len(s) : Sums(s)[n] = Sums(g)[n]}
<1>0. Len(s) \in Nat /\ Len(g) = Len(s) BY DEF Agree
<1>1. 0 \in P BY <1>0, SumsDef
<1>2. ASSUME NEW n \in 0..(Len(s) - 1), n \in P PROVE n + 1 \in P
  <2>1. n + 1 \in 1..Len(s) /\ n + 1 \in 1..Len(g) /\ n + 1 \in 0..Len(s) /\ (n + 1) - 1 = n BY <1>0
  <2>2. s[n + 1].keys = g[n + 1].keys
    <3>1. s[n + 1] = g[n + 1] \/ s[n + 1] = [g[n + 1] EXCEPT !.values = 0] BY <2>1 DEF Agree
    <3>2. g[n + 1] \in FieldPiece BY <2>1
    <3> QED BY <3>1, <3>2 DEF FieldPiece
  <2>3. Sums(s)[n + 1] = Sums(s)[n] + s[n + 1].keys BY <2>1, SumsDef
  <2>4. Sums(g)[n + 1] = Sums(g)[n] + g[n + 1].keys BY <2>1, SumsDef
  <2> QED BY <1>2, <2>1, <2>2, <2>3, <2>4
<1> HIDE DEF P
<1>3. \A n \in 0..Len(s) : n \in P BY <1>0, <1>1, <1>2, BoundedInduction
<1>4. Len(s) \in P BY <1>0, <1>3
<1>5. Sums(s)[Len(s)] = Sums(g)[Len(g)] BY <1>0, <1>4 DEF P
<1> QED BY <1>5, KeysSums

\* An attribute of an unknown kind is appended without its value.
LEMMA AttrsAgree ==
    ASSUME NEW rec \in SlogRecords
    PROVE  /\ Attributes(rec.attrs) \in Seq(FieldPiece)
           /\ Agree(appendSlogAttrs(rec.attrs).out, Attributes(rec.attrs))
<1> DEFINE attrs == rec.attrs
           there(i) == Piece(attrs[i].id, attrs[i].id, 1, IF attrs[i].kind = "known" THEN 1 ELSE 0)
           out == [i \in 1..Len(attrs) |-> there(i)]
           wanted == [i \in 1..Len(attrs) |-> Pair(attrs[i].id, attrs[i].id)]
<1>1. attrs \in Seq(SlogAttr) /\ Len(attrs) \in Nat BY LoggerAssumption
<1>2. ASSUME NEW i \in 1..Len(attrs)
      PROVE  /\ attrs[i].kind \in {"known", "unknown"} /\ attrs[i].id \in Text
             /\ attrs[i].kind = "unknown" => attrs[i].id \in Unvalued
  <2>1. attrs[i] \in SlogAttr /\ attrs[i] \in Range(attrs) BY <1>1 DEF Range
  <2>2. attrs[i].kind \in {"known", "unknown"} /\ attrs[i].id \in Text BY <2>1 DEF SlogAttr, Text
  <2>3. attrs[i] \in UNION {Range(r.attrs) : r \in SlogRecords} BY <2>1
  <2>4. attrs[i].kind = "unknown" => attrs[i].id \in Unvalued BY <2>3, Zenon DEF Unvalued
  <2> QED BY <2>2, <2>4
<1>3. appendSlogAttrs(attrs).out = out /\ Attributes(attrs) = wanted
    BY DEF appendSlogAttrs, Attributes
<1>4. ASSUME NEW i \in 1..Len(attrs) PROVE Pair(attrs[i].id, attrs[i].id) \in FieldPiece
    BY <1>2 DEF Pair, Piece, FieldPiece
<1>5. wanted \in Seq(FieldPiece) BY <1>1, <1>4
<1>6. ASSUME NEW i \in 1..Len(attrs)
      PROVE  \/ out[i] = wanted[i]
             \/ wanted[i].id \in Unvalued /\ out[i] = [wanted[i] EXCEPT !.values = 0]
  <2>1. CASE attrs[i].kind = "known" BY <2>1 DEF Pair
  <2>2. CASE attrs[i].kind = "unknown"
    <3>1. out[i] = [wanted[i] EXCEPT !.values = 0] BY <2>2 DEF Pair, Piece
    <3>2. wanted[i].id = attrs[i].id BY DEF Pair, Piece
    <3> HIDE DEF out, wanted
    <3> QED BY <1>2, <2>2, <3>1, <3>2
  <2> QED BY <1>2, <2>1, <2>2
<1>7. Len(out) = Len(attrs) /\ Len(wanted) = Len(attrs) BY <1>1
<1> HIDE DEF out, wanted
<1>8. Agree(out, wanted) BY <1>6, <1>7 DEF Agree
<1> QED BY <1>3, <1>5, <1>8

-----------------------------------------------------------------------------
(* The scan of countFmtArgs, over characters that occur in formats *)

Character == {"a", "d", "-", "*", ".", "%", "[", "]"} \cup {Digits[i] : i \in 1..10}

ScanState == [in : {"text", "verb", "index"}, val : Nat, cur : Nat, n : Nat]

Started == [in |-> "text", val |-> 0, cur |-> 0, n |-> 0]

ScanStep(s, c) ==
    CASE s.in = "text" -> InText(s, c)
      [] s.in = "verb" -> InVerb(s, c)
      [] s.in = "index" -> InIndex(s, c)

Scan(b) == CHOOSE f : f = [i \in 0..Len(b) |-> IF i = 0 THEN Started ELSE ScanStep(f[i - 1], b[i])]

ScanEnd(b) == Scan(b)[Len(b)]

LEMMA CountIsScan ==
    ASSUME NEW b
    PROVE  countFmtArgs(b) = IF ScanEnd(b).in = "index" THEN IndexEnds(ScanEnd(b)).n ELSE ScanEnd(b).n
BY DEF countFmtArgs, ScanEnd, Scan, ScanStep, Started

LEMMA DigitValue ==
    ASSUME NEW c \in DOMAIN Digit
    PROVE  Digit[c] \in 0..9 /\ Digits[Digit[c] + 1] = c
<1>1. c \in {Digits[i] : i \in 1..10} BY DEF Digit
<1>2. PICK i \in 1..10 : c = Digits[i] BY <1>1
<1>3. i - 1 \in 0..9 /\ Digits[(i - 1) + 1] = c BY <1>2
<1>4. Digit[c] = CHOOSE v \in 0..9 : Digits[v + 1] = c BY <1>1 DEF Digit
<1> QED BY <1>3, <1>4

LEMMA UseType ==
    ASSUME NEW s \in ScanState, NEW arg \in Nat
    PROVE  Use(s, arg) \in ScanState
BY DEF Use, ScanState

LEMMA ScanStepType ==
    ASSUME NEW s \in ScanState, NEW c
    PROVE  ScanStep(s, c) \in ScanState
<1>1. s.in \in {"text", "verb", "index"} /\ s.val \in Nat /\ s.cur \in Nat /\ s.n \in Nat
    BY DEF ScanState
<1>2. \A t \in ScanState : InText(t, c) \in ScanState BY DEF InText, ScanState
<1>3. IndexEnds(s) \in ScanState
  <2>1. [s EXCEPT !.in = "text"] \in ScanState BY DEF ScanState
  <2> QED BY <1>1, <2>1, UseType DEF IndexEnds
<1>4. InVerb(s, c) \in ScanState
  <2>1. s.cur + 1 \in Nat BY <1>1
  <2>2. [s EXCEPT !.in = "text"] \in ScanState BY DEF ScanState
  <2>3. [s EXCEPT !.in = "index", !.val = 0] \in ScanState BY DEF ScanState
  <2>4. Use(s, s.cur + 1) \in ScanState BY <2>1, UseType
  <2> QED BY <2>2, <2>3, <2>4 DEF InVerb
<1>5. InIndex(s, c) \in ScanState
  <2>1. CASE c \in DOMAIN Digit
    <3>1. 10 * s.val + Digit[c] \in Nat BY <1>1, <2>1, DigitValue
    <3>2. [s EXCEPT !.val = 10 * s.val + Digit[c]] \in ScanState BY <3>1 DEF ScanState
    <3>3. InIndex(s, c) = [s EXCEPT !.val = 10 * s.val + Digit[c]] \/ InIndex(s, c) = IndexEnds(s)
        BY <2>1 DEF InIndex
    <3> QED BY <1>3, <3>2, <3>3
  <2>2. CASE c \notin DOMAIN Digit
    <3>1. InIndex(s, c) = IndexEnds(s) \/ InIndex(s, c) = InText(IndexEnds(s), c)
        BY <2>2 DEF InIndex
    <3> QED BY <1>2, <1>3, <3>1
  <2> QED BY <2>1, <2>2
<1> QED BY <1>1, <1>2, <1>4, <1>5 DEF ScanStep

LEMMA ScanDef ==
    ASSUME NEW b \in Seq(Character)
    PROVE  /\ Scan(b)[0] = Started
           /\ \A i \in 1..Len(b) : Scan(b)[i] = ScanStep(Scan(b)[i - 1], b[i])
           /\ \A i \in 0..Len(b) : Scan(b)[i] \in ScanState
<1> DEFINE N == Len(b)
           g == [i \in 1..N |-> [s \in ScanState |-> ScanStep(s, b[i])]]
           Steps(f) == f = [i \in 0..N |-> IF i = 0 THEN Started ELSE ScanStep(f[i - 1], b[i])]
           h == Scan(b)
<1>1. N \in Nat OBVIOUS
<1>2. g \in [1..N -> [ScanState -> ScanState]] BY <1>1, ScanStepType
<1>3. \A i \in 1..N : \A s \in ScanState : g[i][s] = ScanStep(s, b[i]) OBVIOUS
<1>4. Started \in ScanState BY DEF Started, ScanState
<1>5. h = CHOOSE f : Steps(f) BY DEF Scan
<1> HIDE DEF N, g, h
<1>6. PICK f : Built(f, ScanState, Started, N, g) BY <1>1, <1>2, <1>4, RecursionExists
<1>7. Steps(f)
  <2>1. ASSUME NEW i \in 0..N PROVE f[i] = IF i = 0 THEN Started ELSE ScanStep(f[i - 1], b[i])
    <3>1. CASE i = 0 BY <1>6, <3>1 DEF Built
    <3>2. CASE i # 0
      <4>1. i \in 1..N /\ i - 1 \in 0..N BY <1>1, <3>2
      <4>2. f[i - 1] \in ScanState BY <1>6, <4>1 DEF Built
      <4> QED BY <1>3, <1>6, <3>2, <4>1, <4>2 DEF Built
    <3> QED BY <3>1, <3>2
  <2> QED BY <1>6, <2>1 DEF Built
<1>8. Steps(h)
  <2> HIDE DEF Steps
  <2> QED BY <1>5, <1>7
<1>9. h[0] = Started /\ \A i \in 1..N : h[i] = ScanStep(h[i - 1], b[i])
  <2>1. \A i \in 0..N : h[i] = IF i = 0 THEN Started ELSE ScanStep(h[i - 1], b[i]) BY <1>8
  <2>2. 0 \in 0..N /\ \A i \in 1..N : i \in 0..N /\ i # 0 BY <1>1
  <2> QED BY <2>1, <2>2
<1>10. ASSUME NEW i \in 1..N, h[i - 1] \in ScanState PROVE h[i] \in ScanState
    BY <1>1, <1>9, <1>10, ScanStepType
<1>11. \A i \in 0..N : h[i] \in ScanState BY <1>1, <1>4, <1>9, <1>10, Along
<1> QED BY <1>9, <1>11 DEF N, h

LEMMA ScanEmpty == ScanEnd(<<>>) = Started
<1>1. <<>> \in Seq(Character) /\ Len(<<>>) = 0 OBVIOUS
<1> QED BY <1>1, ScanDef DEF ScanEnd

\* One more character is one more step.
LEMMA ScanAppend ==
    ASSUME NEW b \in Seq(Character), NEW c \in Character
    PROVE  /\ ScanEnd(Append(b, c)) = ScanStep(ScanEnd(b), c)
           /\ ScanEnd(b) \in ScanState /\ Append(b, c) \in Seq(Character)
<1> DEFINE t == Append(b, c)
           N == Len(b)
           P == {i \in 0..N : Scan(b)[i] = Scan(t)[i]}
<1>1. /\ t \in Seq(Character) /\ Len(t) = N + 1 /\ t[N + 1] = c /\ N \in Nat
      /\ \A i \in 1..N : t[i] = b[i]
    OBVIOUS
<1> HIDE DEF t
<1>2. 0 \in P BY <1>1, ScanDef
<1>3. ASSUME NEW n \in 0..(N - 1), n \in P PROVE n + 1 \in P
  <2>1. n + 1 \in 0..N /\ n + 1 \in 1..N /\ n + 1 \in 1..Len(t) /\ (n + 1) - 1 = n BY <1>1
  <2>2. Scan(b)[n + 1] = ScanStep(Scan(b)[n], b[n + 1]) BY <2>1, ScanDef
  <2>3. Scan(t)[n + 1] = ScanStep(Scan(t)[n], t[n + 1]) BY <1>1, <2>1, ScanDef
  <2>4. Scan(b)[n] = Scan(t)[n] /\ t[n + 1] = b[n + 1] BY <1>1, <1>3, <2>1
  <2> QED BY <2>1, <2>2, <2>3, <2>4
<1> HIDE DEF P
<1>4. \A n \in 0..N : n \in P BY <1>1, <1>2, <1>3, BoundedInduction
<1>5. Scan(b)[N] = Scan(t)[N]
  <2>1. N \in 0..N BY <1>1
  <2> QED BY <1>4, <2>1 DEF P
<1>6. Scan(t)[N + 1] = ScanStep(Scan(t)[N], c)
  <2>1. N + 1 \in 1..Len(t) /\ (N + 1) - 1 = N BY <1>1
  <2> QED BY <1>1, <2>1, ScanDef
<1>7. ScanEnd(b) \in ScanState
  <2>1. N \in 0..N BY <1>1
  <2> QED BY <2>1, ScanDef DEF ScanEnd
<1>8. ScanEnd(t) = Scan(t)[N + 1] /\ ScanEnd(b) = Scan(b)[N] BY <1>1 DEF ScanEnd
<1>9. ScanEnd(t) = ScanStep(ScanEnd(b), c) BY <1>5, <1>6, <1>8
<1> QED BY <1>1, <1>7, <1>9 DEF t

\* What a verb does with the argument it takes, but for the number it may have had.
Taking(s, r, arg) ==
    /\ r \in ScanState /\ r.in = "text" /\ r.cur = arg
    /\ r.n = IF arg > s.n THEN arg ELSE s.n

LEMMA StepsOfText ==
    ASSUME NEW s \in ScanState, s.in = "text", NEW c, c # "%"
    PROVE  ScanStep(s, c) = s
BY DEF ScanStep, InText

LEMMA StepsOfPercent ==
    ASSUME NEW s \in ScanState, s.in = "text"
    PROVE  LET r == ScanStep(s, "%") IN
           /\ r = [s EXCEPT !.in = "verb"] /\ r \in ScanState
           /\ ScanStep(r, "%") = s
           /\ \A c \in {"d", "-", "*"} : Taking(s, ScanStep(r, c), s.cur + 1)
           /\ ScanStep(r, "[") = [s EXCEPT !.in = "index", !.val = 0]
<1> DEFINE r == [s EXCEPT !.in = "verb"]
<1>1. ScanStep(s, "%") = r BY DEF ScanStep, InText
<1>2. /\ r \in ScanState /\ r.in = "verb" /\ r.cur = s.cur /\ r.n = s.n /\ r.val = s.val
      /\ s.cur \in Nat /\ s.n \in Nat
    BY DEF ScanState
<1>3. ScanStep(r, "%") = s
  <2>1. ScanStep(r, "%") = [r EXCEPT !.in = "text"] BY <1>2 DEF ScanStep, InVerb
  <2>2. [r EXCEPT !.in = "text"] = s BY DEF ScanState
  <2> QED BY <2>1, <2>2
<1>4. ScanStep(r, "[") = [s EXCEPT !.in = "index", !.val = 0]
  <2>1. ScanStep(r, "[") = [r EXCEPT !.in = "index", !.val = 0] BY <1>2 DEF ScanStep, InVerb
  <2>2. [r EXCEPT !.in = "index", !.val = 0] = [s EXCEPT !.in = "index", !.val = 0] BY DEF ScanState
  <2> QED BY <2>1, <2>2
<1>5. ASSUME NEW c \in {"d", "-", "*"} PROVE Taking(s, ScanStep(r, c), s.cur + 1)
  <2>1. ScanStep(r, c) = Use(r, r.cur + 1) BY <1>2 DEF ScanStep, InVerb
  <2>2. Use(r, r.cur + 1) \in ScanState BY <1>2, UseType
  <2>3. /\ Use(r, r.cur + 1).in = "text" /\ Use(r, r.cur + 1).cur = r.cur + 1
        /\ Use(r, r.cur + 1).n = IF r.cur + 1 > r.n THEN r.cur + 1 ELSE r.n
      BY <1>2 DEF Use, ScanState
  <2> HIDE DEF r
  <2> QED BY <1>2, <2>1, <2>2, <2>3 DEF Taking
<1> HIDE DEF r
<1> QED BY <1>1, <1>2, <1>3, <1>4, <1>5 DEF r

LEMMA DigitOf ==
    ASSUME NEW n \in 0..9
    PROVE  Digits[n + 1] \in DOMAIN Digit /\ Digit[Digits[n + 1]] = n
<1> DEFINE c == Digits[n + 1]
<1>1. n + 1 \in 1..10 OBVIOUS
<1>2. c \in DOMAIN Digit BY <1>1 DEF Digit
<1>3. \A v, w \in 0..9 : Digits[v + 1] = Digits[w + 1] => v = w BY DEF Digits
<1>4. Digit[c] \in 0..9 /\ Digits[Digit[c] + 1] = c BY <1>2, DigitValue
<1> QED BY <1>2, <1>3, <1>4

LEMMA StepsOfIndex ==
    ASSUME NEW s \in ScanState, s.in = "text", NEW n \in 1..9
    PROVE  LET q == [s EXCEPT !.in = "index", !.val = 0]
               r == ScanStep(q, Digits[n + 1]) IN
           /\ q \in ScanState /\ r \in ScanState
           /\ Taking(s, ScanStep(r, "]"), n)
<1> DEFINE q == [s EXCEPT !.in = "index", !.val = 0]
           r == [s EXCEPT !.in = "index", !.val = n]
<1>1. q \in ScanState /\ q.in = "index" /\ q.val = 0 /\ s.n \in Nat BY DEF ScanState
<1>2. Digits[n + 1] \in DOMAIN Digit /\ Digit[Digits[n + 1]] = n BY DigitOf
<1>3. ScanStep(q, Digits[n + 1]) = r
  <2>0. \A c \in DOMAIN Digit : c # "]"
    <3>1. DOMAIN Digit = {Digits[i] : i \in 1..10} BY DEF Digit
    <3>2. \A i \in 1..10 : Digits[i] # "]" BY DEF Digits
    <3> QED BY <3>1, <3>2
  <2>1. ScanStep(q, Digits[n + 1]) = InIndex(q, Digits[n + 1]) BY <1>1 DEF ScanStep
  <2>2. InIndex(q, Digits[n + 1]) = [q EXCEPT !.val = 10 * q.val + Digit[Digits[n + 1]]]
      BY <1>2, <2>0 DEF InIndex
  <2>3. 10 * q.val + Digit[Digits[n + 1]] = n BY <1>1, <1>2
  <2>4. [q EXCEPT !.val = n] = r BY DEF ScanState
  <2> QED BY <2>1, <2>2, <2>3, <2>4
<1>4. r \in ScanState /\ r.in = "index" /\ r.val = n /\ r.n = s.n
  <2>1. n \in Nat OBVIOUS
  <2> QED BY <2>1 DEF ScanState
<1>5. ScanStep(r, "]") = Use(r, n)
  <2>1. "]" \notin DOMAIN Digit
    <3>1. DOMAIN Digit = {Digits[i] : i \in 1..10} BY DEF Digit
    <3>2. \A i \in 1..10 : Digits[i] # "]" BY DEF Digits
    <3> QED BY <3>1, <3>2
  <2>2. ScanStep(r, "]") = InIndex(r, "]") BY <1>4 DEF ScanStep
  <2>3. InIndex(r, "]") = IndexEnds(r) BY <2>1 DEF InIndex
  <2>4. IndexEnds(r) = Use(r, n) BY <1>4 DEF IndexEnds
  <2> QED BY <2>2, <2>3, <2>4
<1>6. /\ Use(r, n) \in ScanState /\ Use(r, n).in = "text" /\ Use(r, n).cur = n
      /\ Use(r, n).n = IF n > r.n THEN n ELSE r.n
  <2>1. n \in Nat OBVIOUS
  <2>2. Use(r, n) \in ScanState BY <1>4, <2>1, UseType
  <2> QED BY <1>4, <2>2 DEF Use, ScanState
<1>7. Taking(s, ScanStep(r, "]"), n)
  <2> HIDE DEF r
  <2> QED BY <1>4, <1>5, <1>6 DEF Taking
<1> HIDE DEF r
<1> QED BY <1>1, <1>3, <1>4, <1>7

LEMMA SomeCharacters ==
    /\ "a" \in Character /\ "%" \in Character /\ "d" \in Character /\ "-" \in Character
    /\ "*" \in Character /\ "." \in Character /\ "[" \in Character /\ "]" \in Character
    /\ "5" \in Character /\ \A i \in 1..10 : Digits[i] \in Character
<1>1. Digits[6] = "5" /\ 6 \in 1..10 BY DEF Digits
<1>2. \A i \in 1..10 : Digits[i] \in Character BY DEF Character
<1>3. "5" \in Character BY <1>1, <1>2
<1> QED BY <1>2, <1>3 DEF Character

\* Text without a % leaves the scan where it is.
LEMMA ScanPlain ==
    ASSUME NEW b \in Seq(Character), ScanEnd(b).in = "text",
           NEW t \in Seq(Character), \A i \in 1..Len(t) : t[i] # "%"
    PROVE  b \o t \in Seq(Character) /\ ScanEnd(b \o t) = ScanEnd(b)
<1> DEFINE pre(n) == SubSeq(t, 1, n)
           P == {n \in 0..Len(t) : b \o pre(n) \in Seq(Character) /\ ScanEnd(b \o pre(n)) = ScanEnd(b)}
<1>0. Len(t) \in Nat OBVIOUS
<1>1. 0 \in P
  <2>1. pre(0) = <<>> /\ b \o <<>> = b OBVIOUS
  <2> HIDE DEF pre
  <2>2. b \o pre(0) = b /\ 0 \in 0..Len(t) BY <1>0, <2>1
  <2> QED BY <2>2
<1>2. ASSUME NEW n \in 0..(Len(t) - 1), n \in P PROVE n + 1 \in P
  <2>1. n + 1 \in 0..Len(t) /\ n + 1 \in 1..Len(t) /\ t[n + 1] \in Character /\ pre(n) \in Seq(Character)
      OBVIOUS
  <2>2. pre(n + 1) = Append(pre(n), t[n + 1]) OBVIOUS
  <2>3. b \o pre(n) \in Seq(Character) /\ ScanEnd(b \o pre(n)) = ScanEnd(b) BY <1>2
  <2> DEFINE u == b \o pre(n)
             c == t[n + 1]
  <2>4. b \o pre(n + 1) = Append(u, c) BY <2>1, <2>2, ConcatAppend
  <2>5. c \in Character /\ c # "%" BY <2>1
  <2> HIDE DEF u, c, pre
  <2>6. u \in Seq(Character) /\ ScanEnd(u) = ScanEnd(b) BY <2>3 DEF u
  <2>7. /\ ScanEnd(Append(u, c)) = ScanStep(ScanEnd(u), c) /\ ScanEnd(u) \in ScanState
        /\ Append(u, c) \in Seq(Character)
      BY <2>5, <2>6, ScanAppend
  <2>8. ScanStep(ScanEnd(u), c) = ScanEnd(u) BY <2>5, <2>6, <2>7, StepsOfText
  <2>9. b \o pre(n + 1) \in Seq(Character) /\ ScanEnd(b \o pre(n + 1)) = ScanEnd(b)
      BY <2>4, <2>6, <2>7, <2>8
  <2> QED BY <2>1, <2>9
<1> HIDE DEF P
<1>3. \A n \in 0..Len(t) : n \in P BY <1>0, <1>1, <1>2, BoundedInduction
<1>4. Len(t) \in P /\ pre(Len(t)) = t BY <1>0, <1>3
<1> HIDE DEF pre
<1> QED BY <1>4 DEF P

\* What is behind a % is taken for a verb,
LEMMA ScanVerb ==
    ASSUME NEW b \in Seq(Character), ScanEnd(b).in = "text", NEW c \in {"d", "-", "*"}
    PROVE  /\ b \o <<"%", c>> \in Seq(Character)
           /\ Taking(ScanEnd(b), ScanEnd(b \o <<"%", c>>), ScanEnd(b).cur + 1)
<1> DEFINE s == ScanEnd(b)
           v == ScanStep(s, "%")
           b1 == Append(b, "%")
           b2 == Append(b1, c)
<1>0. "%" \in Character /\ c \in Character BY SomeCharacters
<1>1. s \in ScanState /\ s.in = "text" BY <1>0, ScanAppend
<1>2. b1 \in Seq(Character) /\ ScanEnd(b1) = v BY <1>0, ScanAppend
<1>3. Taking(s, ScanStep(v, c), s.cur + 1) BY <1>1, StepsOfPercent
<1>4. b \o <<"%", c>> = b2
  <2> DEFINE p == "%"
  <2> HIDE DEF p
  <2>1. b \o <<p, c>> = Append(Append(b, p), c) OBVIOUS
  <2> QED BY <2>1 DEF p
<1> HIDE DEF s, v, b1
<1>5. ScanEnd(b2) = ScanStep(v, c) /\ b2 \in Seq(Character) BY <1>0, <1>2, ScanAppend
<1> QED BY <1>3, <1>4, <1>5 DEF s

\* another % for itself,
LEMMA ScanPercent ==
    ASSUME NEW b \in Seq(Character), ScanEnd(b).in = "text"
    PROVE  b \o <<"%", "%">> \in Seq(Character) /\ ScanEnd(b \o <<"%", "%">>) = ScanEnd(b)
<1> DEFINE s == ScanEnd(b)
           p == "%"
           v == ScanStep(s, p)
           b1 == Append(b, p)
           b2 == Append(b1, p)
<1>0. p \in Character BY SomeCharacters
<1>1. s \in ScanState /\ s.in = "text" BY <1>0, ScanAppend
<1>2. b1 \in Seq(Character) /\ ScanEnd(b1) = v BY <1>0, ScanAppend
<1>3. ScanStep(v, p) = s BY <1>1, StepsOfPercent
<1> HIDE DEF p
<1>4. b \o <<p, p>> = b2 OBVIOUS
<1> HIDE DEF s, v, b1
<1>5. ScanEnd(b2) = ScanStep(v, p) /\ b2 \in Seq(Character) BY <1>0, <1>2, ScanAppend
<1> QED BY <1>3, <1>4, <1>5 DEF s, p

\* and a number in brackets for the argument that a verb behind it takes.
LEMMA ScanNumber ==
    ASSUME NEW b \in Seq(Character), ScanEnd(b).in = "text", NEW n \in 1..9
    PROVE  /\ b \o <<"%", "[", Digits[n + 1], "]">> \in Seq(Character)
           /\ Taking(ScanEnd(b), ScanEnd(b \o <<"%", "[", Digits[n + 1], "]">>), n)
<1> DEFINE s == ScanEnd(b)
           c1 == "%"
           c2 == "["
           c3 == Digits[n + 1]
           c4 == "]"
           v == ScanStep(s, c1)
           q == [s EXCEPT !.in = "index", !.val = 0]
           w == ScanStep(q, c3)
           r == ScanStep(w, c4)
           b1 == Append(b, c1)
           b2 == Append(b1, c2)
           b3 == Append(b2, c3)
           b4 == Append(b3, c4)
<1>0. c1 \in Character /\ c2 \in Character /\ c3 \in Character /\ c4 \in Character
  <2>1. n + 1 \in 1..10 OBVIOUS
  <2> QED BY <2>1, SomeCharacters
<1>1. s \in ScanState /\ s.in = "text" BY <1>0, ScanAppend
<1>2. b1 \in Seq(Character) /\ ScanEnd(b1) = v BY <1>0, ScanAppend
<1>3. ScanStep(v, c2) = q BY <1>1, StepsOfPercent
<1>4. Taking(s, r, n) BY <1>1, StepsOfIndex
<1> HIDE DEF c1, c2, c3, c4
<1>5. b \o <<c1, c2, c3, c4>> = b4 BY <1>0, SMTT(30)
<1> HIDE DEF s, v, b1, q
<1>6. b2 \in Seq(Character) /\ ScanEnd(b2) = q BY <1>0, <1>2, <1>3, ScanAppend
<1> HIDE DEF b2, w
<1>7. b3 \in Seq(Character) /\ ScanEnd(b3) = w BY <1>0, <1>6, ScanAppend DEF w
<1> HIDE DEF b3, r
<1>8. b4 \in Seq(Character) /\ ScanEnd(b4) = r BY <1>0, <1>7, ScanAppend DEF r
<1> QED BY <1>4, <1>5, <1>8 DEF s, c1, c2, c3, c4

-----------------------------------------------------------------------------
(* Directives *)

LEMMA DirectiveParts ==
    ASSUME NEW d \in FormatDirective
    PROVE  /\ d.pre \in {"none", "flags", "width", "both"} /\ d.verb \in {"text", "d", "%"}
           /\ d.m \in 0..9 /\ d.n \in 0..9
           /\ d.m > 0 => d.pre \in {"width", "both"}
           /\ d.verb = "text" => d = PlainText
BY DEF FormatDirective, PlainText, Directive

LEMMA PlainParts ==
    PlainText.verb = "text" /\ PlainText.pre = "none" /\ PlainText.m = 0 /\ PlainText.n = 0
BY DEF PlainText, Directive

LEMMA IndexChars ==
    ASSUME NEW n \in 0..9
    PROVE  /\ Index(n) \in Seq(Character)
           /\ n = 0 => Index(n) = <<>>
           /\ n > 0 => Index(n) = <<"[", Digits[n + 1], "]">>
<1>1. n + 1 \in 1..10 OBVIOUS
<1>2. Digits[n + 1] \in Character /\ "[" \in Character /\ "]" \in Character BY <1>1, SomeCharacters
<1> QED BY <1>2 DEF Index

LEMMA CharsType == ASSUME NEW d \in FormatDirective PROVE Chars(d) \in Seq(Character)
<1>1. Index(d.m) \in Seq(Character) /\ Index(d.n) \in Seq(Character) BY DirectiveParts, IndexChars
<1>2. Prefix(d) \in Seq(Character)
  <2>1. /\ <<>> \in Seq(Character) /\ <<"-", "5">> \in Seq(Character) /\ <<"*">> \in Seq(Character)
        /\ <<"*", ".", "*">> \in Seq(Character)
      BY SomeCharacters
  <2>2. Index(d.m) \o <<"*">> \in Seq(Character) /\ Index(d.m) \o <<"*", ".", "*">> \in Seq(Character)
    <3> DEFINE i == Index(d.m)
               s == <<"*">>
               t == <<"*", ".", "*">>
    <3>1. i \in Seq(Character) /\ s \in Seq(Character) /\ t \in Seq(Character) BY <1>1, <2>1
    <3> HIDE DEF i, s, t
    <3>2. i \o s \in Seq(Character) /\ i \o t \in Seq(Character) BY <3>1
    <3> QED BY <3>2 DEF i, s, t
  <2>3. \/ Prefix(d) = <<>> \/ Prefix(d) = <<"-", "5">> \/ Prefix(d) = Index(d.m) \o <<"*">>
        \/ Prefix(d) = Index(d.m) \o <<"*", ".", "*">>
      BY DirectiveParts, Zenon DEF Prefix
  <2> QED BY <2>1, <2>2, <2>3, Zenon
<1>3. CASE d.verb = "text"
  <2>1. Chars(d) = <<"a">> BY <1>3 DEF Chars
  <2> QED BY <2>1, SomeCharacters
<1>4. CASE d.verb # "text"
  <2> DEFINE s == <<"%">>
             t == <<d.verb>>
             i == Index(d.n)
             p == Prefix(d)
  <2>1. s \in Seq(Character) BY SomeCharacters
  <2>2. d.verb \in Character BY <1>4, DirectiveParts, SomeCharacters
  <2>3. t \in Seq(Character) BY <2>2
  <2>4. Chars(d) = s \o p \o i \o t BY <1>4 DEF Chars
  <2> HIDE DEF s, t, i, p
  <2>5. i \in Seq(Character) /\ p \in Seq(Character) BY <1>1, <1>2 DEF i, p
  <2>6. s \o p \in Seq(Character) BY <2>1, <2>5
  <2>7. (s \o p) \o i \in Seq(Character) BY <2>5, <2>6
  <2>8. ((s \o p) \o i) \o t \in Seq(Character) BY <2>3, <2>7
  <2> QED BY <2>4, <2>8
<1> QED BY <1>3, <1>4

LEMMA TwoCharacters ==
    ASSUME NEW x, NEW y
    PROVE  ((<<x>> \o <<>>) \o <<>>) \o <<y>> = <<x, y>>
<1> DEFINE S == {x, y}
<1>1. <<x>> \in Seq(S) /\ <<>> \in Seq(S) /\ y \in S OBVIOUS
<1> HIDE DEF S
<1>2. <<x>> \o <<>> = <<x>> BY <1>1, ConcatEmpty
<1>3. <<x>> \o Append(<<>>, y) = Append(<<x>> \o <<>>, y) BY <1>1, ConcatAppend
<1>4. Append(<<>>, y) = <<y>> /\ Append(<<x>>, y) = <<x, y>> BY AppendShort
<1>5. <<x>> \o <<y>> = <<x, y>> BY <1>2, <1>3, <1>4
<1> QED BY <1>2, <1>5

\* The directives that are not hidden begin with what the scan looks at.
LEMMA CharsOf ==
    ASSUME NEW d \in FormatDirective, d.verb # "text"
    PROVE  /\ d.verb = "%" /\ Exact(d) => Chars(d) = <<"%", "%">>
           /\ d.verb = "d" /\ d.pre = "none" /\ d.n = 0 => Chars(d) = <<"%", "d">>
           /\ d.verb = "d" /\ d.pre = "none" /\ d.n > 0 => Chars(d) = <<"%", "[", Digits[d.n + 1], "]">> \o <<"d">>
           /\ d.verb = "d" /\ d.pre = "flags" /\ d.n = 0 => Chars(d) = <<"%", "-">> \o <<"5", "d">>
           /\ Starred(d) /\ d.m = 0 => \/ Chars(d) = <<"%", "*">> \o <<"d">>
                                       \/ Chars(d) = <<"%", "*">> \o <<".", "*", "d">>
           /\ Starred(d) /\ d.m > 0 =>
                 \/ Chars(d) = <<"%", "[", Digits[d.m + 1], "]">> \o <<"*", "d">>
                 \/ Chars(d) = <<"%", "[", Digits[d.m + 1], "]">> \o <<"*", ".", "*", "d">>
<1> DEFINE D == Digits[d.n + 1]
           M == Digits[d.m + 1]
<1>1. Chars(d) = ((<<"%">> \o Prefix(d)) \o Index(d.n)) \o <<d.verb>> BY DEF Chars
<1>2. /\ d.n = 0 => Index(d.n) = <<>>
      /\ d.n > 0 => Index(d.n) = <<"[", D, "]">>
      /\ d.m = 0 => Index(d.m) = <<>>
      /\ d.m > 0 => Index(d.m) = <<"[", M, "]">>
  <2>1. d.n \in 0..9 /\ d.m \in 0..9 BY DirectiveParts
  <2>2. (d.n = 0 => Index(d.n) = <<>>) /\ (d.n > 0 => Index(d.n) = <<"[", D, "]">>) BY <2>1, IndexChars
  <2>3. (d.m = 0 => Index(d.m) = <<>>) /\ (d.m > 0 => Index(d.m) = <<"[", M, "]">>) BY <2>1, IndexChars
  <2> HIDE DEF D, M
  <2> QED BY <2>2, <2>3
<1> HIDE DEF D, M
<1>3. ASSUME d.verb = "%", Exact(d) PROVE Chars(d) = <<"%", "%">>
  <2>1. d.pre = "none" /\ d.n = 0 BY <1>3, PlainParts DEF Exact
  <2>2. Prefix(d) = <<>> BY <2>1 DEF Prefix
  <2>3. Chars(d) = ((<<"%">> \o <<>>) \o <<>>) \o <<"%">> BY <1>1, <1>2, <1>3, <2>1, <2>2
  <2>4. ((<<"%">> \o <<>>) \o <<>>) \o <<"%">> = <<"%", "%">> BY TwoCharacters
  <2> QED BY <2>3, <2>4
<1>4. ASSUME d.verb = "d", d.pre = "none", d.n = 0 PROVE Chars(d) = <<"%", "d">>
  <2>1. Prefix(d) = <<>> BY <1>4 DEF Prefix
  <2>2. Chars(d) = ((<<"%">> \o <<>>) \o <<>>) \o <<"d">> BY <1>1, <1>2, <1>4, <2>1
  <2>3. ((<<"%">> \o <<>>) \o <<>>) \o <<"d">> = <<"%", "d">> BY TwoCharacters
  <2> QED BY <2>2, <2>3
<1>5. ASSUME d.verb = "d", d.pre = "none", d.n > 0 PROVE Chars(d) = <<"%", "[", D, "]">> \o <<"d">>
  <2>1. Prefix(d) = <<>> BY <1>5 DEF Prefix
  <2>2. Chars(d) = ((<<"%">> \o <<>>) \o <<"[", D, "]">>) \o <<"d">> BY <1>1, <1>2, <1>5, <2>1
  <2> QED BY <2>2
<1>6. ASSUME d.verb = "d", d.pre = "flags", d.n = 0 PROVE Chars(d) = <<"%", "-">> \o <<"5", "d">>
  <2>1. Prefix(d) = <<"-", "5">> BY <1>6 DEF Prefix
  <2>2. Chars(d) = ((<<"%">> \o <<"-", "5">>) \o <<>>) \o <<"d">> BY <1>1, <1>2, <1>6, <2>1
  <2> QED BY <2>2
<1>7. ASSUME Starred(d)
      PROVE  /\ d.verb = "d" /\ d.n = 0
             /\ \/ d.pre = "width" /\ Prefix(d) = Index(d.m) \o <<"*">>
                \/ d.pre = "both" /\ Prefix(d) = Index(d.m) \o <<"*", ".", "*">>
  <2>1. d.verb = "d" /\ d.n = 0 /\ Stars(d) > 0 BY <1>7 DEF Starred
  <2>2. d.pre \in {"width", "both"} BY <2>1, DirectiveParts DEF Stars
  <2> QED BY <2>1, <2>2 DEF Prefix
<1>8. ASSUME Starred(d), d.m = 0
      PROVE  Chars(d) = <<"%", "*">> \o <<"d">> \/ Chars(d) = <<"%", "*">> \o <<".", "*", "d">>
  <2>1. CASE Prefix(d) = Index(d.m) \o <<"*">>
    <3>1. Chars(d) = ((<<"%">> \o (<<>> \o <<"*">>)) \o <<>>) \o <<"d">> BY <1>1, <1>2, <1>7, <1>8, <2>1
    <3>2. ((<<"%">> \o (<<>> \o <<"*">>)) \o <<>>) \o <<"d">> = <<"%", "*">> \o <<"d">> OBVIOUS
    <3> QED BY <3>1, <3>2
  <2>2. CASE Prefix(d) = Index(d.m) \o <<"*", ".", "*">>
    <3>1. Chars(d) = ((<<"%">> \o (<<>> \o <<"*", ".", "*">>)) \o <<>>) \o <<"d">>
        BY <1>1, <1>2, <1>7, <1>8, <2>2
    <3>2. ((<<"%">> \o (<<>> \o <<"*", ".", "*">>)) \o <<>>) \o <<"d">> = <<"%", "*">> \o <<".", "*", "d">>
        OBVIOUS
    <3> QED BY <3>1, <3>2
  <2> QED BY <1>7, <1>8, <2>1, <2>2
<1>9. ASSUME Starred(d), d.m > 0
      PROVE  \/ Chars(d) = <<"%", "[", M, "]">> \o <<"*", "d">>
             \/ Chars(d) = <<"%", "[", M, "]">> \o <<"*", ".", "*", "d">>
  <2>1. CASE Prefix(d) = Index(d.m) \o <<"*">>
    <3>1. Chars(d) = ((<<"%">> \o (<<"[", M, "]">> \o <<"*">>)) \o <<>>) \o <<"d">>
        BY <1>1, <1>2, <1>7, <1>9, <2>1
    <3>2. ((<<"%">> \o (<<"[", M, "]">> \o <<"*">>)) \o <<>>) \o <<"d">> = <<"%", "[", M, "]">> \o <<"*", "d">>
        OBVIOUS
    <3> QED BY <3>1, <3>2
  <2>2. CASE Prefix(d) = Index(d.m) \o <<"*", ".", "*">>
    <3>1. Chars(d) = ((<<"%">> \o (<<"[", M, "]">> \o <<"*", ".", "*">>)) \o <<>>) \o <<"d">>
        BY <1>1, <1>2, <1>7, <1>9, <2>2
    <3>2. ((<<"%">> \o (<<"[", M, "]">> \o <<"*", ".", "*">>)) \o <<>>) \o <<"d">>
              = <<"%", "[", M, "]">> \o <<"*", ".", "*", "d">>
        OBVIOUS
    <3> QED BY <3>1, <3>2
  <2> QED BY <1>7, <1>9, <2>1, <2>2
<1> QED BY <1>3, <1>4, <1>5, <1>6, <1>8, <1>9 DEF D, M

\* What the scan makes of a directive that is not hidden.
Scanned(s, r, d) ==
    /\ r \in ScanState /\ r.in = "text"
    /\ d.verb # "d" => r = s
    /\ d.verb = "d" /\ Exact(d) => Taking(s, r, IF d.n > 0 THEN d.n ELSE s.cur + 1)
    /\ Starred(d) => Taking(s, r, IF d.m > 0 THEN d.m ELSE s.cur + 1)

\* A beginning that takes an argument, and a plain rest.
LEMMA ScanBeginning ==
    ASSUME NEW b \in Seq(Character), NEW u, b \o u \in Seq(Character), u \in Seq(Character), NEW s, NEW arg,
           Taking(s, ScanEnd(b \o u), arg),
           NEW t \in Seq(Character), \A i \in 1..Len(t) : t[i] # "%"
    PROVE  Taking(s, ScanEnd(b \o (u \o t)), arg)
<1>1. ScanEnd(b \o u).in = "text" BY DEF Taking
<1>2. ScanEnd((b \o u) \o t) = ScanEnd(b \o u) BY <1>1, ScanPlain
<1>3. (b \o u) \o t = b \o (u \o t) OBVIOUS
<1> QED BY <1>2, <1>3

LEMMA PlainRests ==
    /\ <<"d">> \in Seq(Character) /\ \A i \in 1..Len(<<"d">>) : <<"d">>[i] # "%"
    /\ <<"5", "d">> \in Seq(Character) /\ \A i \in 1..Len(<<"5", "d">>) : <<"5", "d">>[i] # "%"
    /\ <<"*", "d">> \in Seq(Character) /\ \A i \in 1..Len(<<"*", "d">>) : <<"*", "d">>[i] # "%"
    /\ <<".", "*", "d">> \in Seq(Character)
    /\ \A i \in 1..Len(<<".", "*", "d">>) : <<".", "*", "d">>[i] # "%"
    /\ <<"*", ".", "*", "d">> \in Seq(Character)
    /\ \A i \in 1..Len(<<"*", ".", "*", "d">>) : <<"*", ".", "*", "d">>[i] # "%"
<1>1. <<"d">> \in Seq(Character) /\ \A i \in 1..Len(<<"d">>) : <<"d">>[i] # "%" BY SomeCharacters
<1>2. <<"5", "d">> \in Seq(Character) /\ \A i \in 1..Len(<<"5", "d">>) : <<"5", "d">>[i] # "%"
    BY SomeCharacters
<1>3. <<"*", "d">> \in Seq(Character) /\ \A i \in 1..Len(<<"*", "d">>) : <<"*", "d">>[i] # "%"
    BY SomeCharacters
<1>4. /\ <<".", "*", "d">> \in Seq(Character)
      /\ \A i \in 1..Len(<<".", "*", "d">>) : <<".", "*", "d">>[i] # "%"
    BY SomeCharacters
<1>5. /\ <<"*", ".", "*", "d">> \in Seq(Character)
      /\ \A i \in 1..Len(<<"*", ".", "*", "d">>) : <<"*", ".", "*", "d">>[i] # "%"
    BY SomeCharacters
<1> QED BY <1>1, <1>2, <1>3, <1>4, <1>5

LEMMA Beginnings ==
    /\ \A c \in {"d", "-", "*"} : <<"%", c>> \in Seq(Character)
    /\ \A n \in 1..9 : <<"%", "[", Digits[n + 1], "]">> \in Seq(Character)
<1>1. \A c \in {"d", "-", "*"} : <<"%", c>> \in Seq(Character) BY SomeCharacters
<1>2. ASSUME NEW n \in 1..9 PROVE <<"%", "[", Digits[n + 1], "]">> \in Seq(Character)
  <2> DEFINE D == Digits[n + 1]
  <2>1. n + 1 \in 1..10 OBVIOUS
  <2>2. D \in Character BY <2>1, SomeCharacters
  <2> HIDE DEF D
  <2>3. <<"%", "[", D, "]">> \in Seq(Character) BY <2>2, SomeCharacters
  <2> QED BY <2>3 DEF D
<1> QED BY <1>1, <1>2

LEMMA ScanDirective ==
    ASSUME NEW b \in Seq(Character), NEW d \in FormatDirective, ScanEnd(b).in = "text",
           Exact(d) \/ Starred(d)
    PROVE  Scanned(ScanEnd(b), ScanEnd(b \o Chars(d)), d)
<1> DEFINE s == ScanEnd(b)
           r == ScanEnd(b \o Chars(d))
<1>0. /\ d.pre \in {"none", "flags", "width", "both"} /\ d.verb \in {"text", "d", "%"}
      /\ d.m \in 0..9 /\ d.n \in 0..9 /\ (d.verb = "text" => d = PlainText)
    BY DirectiveParts
<1>1. s \in ScanState /\ s.in = "text" BY SomeCharacters, ScanAppend
<1>2. Starred(d) => d.verb = "d" /\ d.n = 0 BY DEF Starred
<1>3. CASE d.verb = "text"
  <2>1. Chars(d) = <<"a">> BY <1>3 DEF Chars
  <2>2. <<"a">> \in Seq(Character) /\ \A i \in 1..Len(<<"a">>) : <<"a">>[i] # "%" BY SomeCharacters
  <2>3. r = s BY <2>1, <2>2, ScanPlain
  <2> HIDE DEF s, r
  <2> QED BY <1>1, <1>2, <1>3, <2>3 DEF Scanned, s, r
<1>4. CASE d.verb = "%"
  <2>1. Chars(d) = <<"%", "%">> BY <1>2, <1>4, CharsOf
  <2>2. r = s BY <2>1, ScanPercent
  <2> HIDE DEF s, r
  <2> QED BY <1>1, <1>2, <1>4, <2>2 DEF Scanned, s, r
<1>5. ASSUME NEW arg, Taking(s, r, arg), d.verb = "d",
             Exact(d) => arg = IF d.n > 0 THEN d.n ELSE s.cur + 1,
             Starred(d) => arg = IF d.m > 0 THEN d.m ELSE s.cur + 1
      PROVE  Scanned(s, r, d)
  <2>1. r \in ScanState /\ r.in = "text" BY <1>5 DEF Taking
  <2> HIDE DEF s, r
  <2> QED BY <1>5, <2>1 DEF Scanned
<1>6. CASE d.verb = "d" /\ Exact(d)
  <2>1. ~Starred(d)
    <3>1. d.verb # "%" /\ d # PlainText BY <1>6, PlainParts
    <3>2. d.pre = "none" \/ d.pre = "flags" BY <1>6, <3>1 DEF Exact
    <3> QED BY <3>2 DEF Starred, Stars
  <2>2. CASE d.pre = "none" /\ d.n = 0
    <3>1. Chars(d) = <<"%", "d">> BY <1>6, <2>2, CharsOf
    <3>2. Taking(s, r, s.cur + 1) BY <3>1, ScanVerb
    <3> HIDE DEF s, r
    <3> QED BY <1>5, <1>6, <2>1, <2>2, <3>2 DEF s, r
  <2>3. CASE d.pre = "none" /\ d.n > 0
    <3> DEFINE u == <<"%", "[", Digits[d.n + 1], "]">>
    <3>1. Chars(d) = u \o <<"d">> BY <1>6, <2>3, CharsOf
    <3>2. d.n \in 1..9 BY <1>0, <2>3
    <3>3. b \o u \in Seq(Character) /\ Taking(s, ScanEnd(b \o u), d.n) BY <3>2, ScanNumber
    <3>4. u \in Seq(Character) BY <3>2, Beginnings
    <3> HIDE DEF u, s
    <3>5. Taking(s, r, d.n) BY <3>1, <3>3, <3>4, PlainRests, ScanBeginning
    <3> HIDE DEF r
    <3> QED BY <1>5, <1>6, <2>1, <2>3, <3>5 DEF s, r
  <2>4. CASE d.pre = "flags" /\ d.n = 0
    <3> DEFINE u == <<"%", "-">>
    <3>1. Chars(d) = u \o <<"5", "d">> BY <1>6, <2>4, CharsOf
    <3>2. b \o u \in Seq(Character) /\ Taking(s, ScanEnd(b \o u), s.cur + 1) BY ScanVerb
    <3>3. u \in Seq(Character) BY Beginnings
    <3> HIDE DEF u, s
    <3>4. Taking(s, r, s.cur + 1) BY <3>1, <3>2, <3>3, PlainRests, ScanBeginning
    <3> HIDE DEF r
    <3> QED BY <1>5, <1>6, <2>1, <2>4, <3>4 DEF s, r
  <2>5. d.pre = "none" \/ (d.pre = "flags" /\ d.n = 0)
    <3>1. d.verb # "%" /\ d # PlainText BY <1>6, PlainParts
    <3> QED BY <1>6, <3>1 DEF Exact
  <2> QED BY <1>0, <2>2, <2>3, <2>4, <2>5
<1>7. CASE Starred(d)
  <2>1. d.verb = "d" /\ ~Exact(d)
    <3>1. d.verb = "d" /\ d.n = 0 /\ d.verb # "%" /\ d # PlainText BY <1>2, <1>7, PlainParts
    <3>2. d.pre # "none" /\ d.pre # "flags" BY <1>7 DEF Starred, Stars
    <3> QED BY <3>1, <3>2 DEF Exact
  <2>2. CASE d.m = 0
    <3> DEFINE u == <<"%", "*">>
    <3>1. Chars(d) = u \o <<"d">> \/ Chars(d) = u \o <<".", "*", "d">> BY <1>7, <2>1, <2>2, CharsOf
    <3>2. b \o u \in Seq(Character) /\ Taking(s, ScanEnd(b \o u), s.cur + 1) BY ScanVerb
    <3>3. u \in Seq(Character) BY Beginnings
    <3> HIDE DEF u, s
    <3>4. Taking(s, ScanEnd(b \o (u \o <<"d">>)), s.cur + 1)
        BY <3>2, <3>3, PlainRests, ScanBeginning
    <3>5. Taking(s, ScanEnd(b \o (u \o <<".", "*", "d">>)), s.cur + 1)
        BY <3>2, <3>3, PlainRests, ScanBeginning
    <3>6. Taking(s, r, s.cur + 1) BY <3>1, <3>4, <3>5, Zenon
    <3> HIDE DEF r
    <3> QED BY <1>5, <1>7, <2>1, <2>2, <3>6 DEF s, r
  <2>3. CASE d.m > 0
    <3> DEFINE u == <<"%", "[", Digits[d.m + 1], "]">>
    <3>1. Chars(d) = u \o <<"*", "d">> \/ Chars(d) = u \o <<"*", ".", "*", "d">>
        BY <1>7, <2>1, <2>3, CharsOf
    <3>2. d.m \in 1..9 BY <1>0, <2>3
    <3>3. b \o u \in Seq(Character) /\ Taking(s, ScanEnd(b \o u), d.m) BY <3>2, ScanNumber
    <3>4. u \in Seq(Character) BY <3>2, Beginnings
    <3> HIDE DEF u, s
    <3>5. Taking(s, ScanEnd(b \o (u \o <<"*", "d">>)), d.m)
        BY <3>3, <3>4, PlainRests, ScanBeginning
    <3>6. Taking(s, ScanEnd(b \o (u \o <<"*", ".", "*", "d">>)), d.m)
        BY <3>3, <3>4, PlainRests, ScanBeginning
    <3>7. Taking(s, r, d.m) BY <3>1, <3>5, <3>6, Zenon
    <3> HIDE DEF r
    <3> QED BY <1>5, <1>7, <2>1, <2>3, <3>7 DEF s, r
  <2> QED BY <1>0, <2>2, <2>3
<1> QED BY <1>0, <1>2, <1>3, <1>4, <1>6, <1>7

Texts(ds) == CHOOSE f : f = [i \in 0..Len(ds) |-> IF i = 0 THEN <<>> ELSE f[i - 1] \o Chars(ds[i])]

LEMMA FormatIsText == ASSUME NEW ds PROVE Format(ds) = Texts(ds)[Len(ds)]
BY DEF Format, Texts

LEMMA TextsDef ==
    ASSUME NEW ds \in Seq(FormatDirective)
    PROVE  /\ Texts(ds)[0] = <<>>
           /\ \A i \in 1..Len(ds) : Texts(ds)[i] = Texts(ds)[i - 1] \o Chars(ds[i])
           /\ \A i \in 0..Len(ds) : Texts(ds)[i] \in Seq(Character)
<1> DEFINE N == Len(ds)
           S == Seq(Character)
           g == [i \in 1..N |-> [s \in S |-> s \o Chars(ds[i])]]
           Steps(f) == f = [i \in 0..N |-> IF i = 0 THEN <<>> ELSE f[i - 1] \o Chars(ds[i])]
           h == Texts(ds)
<1>1. N \in Nat /\ <<>> \in S OBVIOUS
<1>2. ASSUME NEW i \in 1..N, NEW s \in S PROVE s \o Chars(ds[i]) \in S
  <2>1. Chars(ds[i]) \in S BY CharsType
  <2> QED BY <2>1
<1>3. \A i \in 1..N : \A s \in S : g[i][s] = s \o Chars(ds[i]) OBVIOUS
<1>4. g \in [1..N -> [S -> S]]
  <2> HIDE DEF S
  <2> QED BY <1>2
<1>5. h = CHOOSE f : Steps(f) BY DEF Texts
<1> HIDE DEF N, g, h, S
<1>6. PICK f : Built(f, S, <<>>, N, g) BY <1>1, <1>4, RecursionExists
<1>7. Steps(f)
  <2>1. ASSUME NEW i \in 0..N PROVE f[i] = IF i = 0 THEN <<>> ELSE f[i - 1] \o Chars(ds[i])
    <3>1. CASE i = 0 BY <1>6, <3>1 DEF Built
    <3>2. CASE i # 0
      <4>1. i \in 1..N /\ i - 1 \in 0..N BY <1>1, <3>2
      <4>2. f[i - 1] \in S BY <1>6, <4>1 DEF Built
      <4> QED BY <1>3, <1>6, <3>2, <4>1, <4>2 DEF Built
    <3> QED BY <3>1, <3>2
  <2> QED BY <1>6, <2>1 DEF Built
<1>8. Steps(h)
  <2> HIDE DEF Steps
  <2> QED BY <1>5, <1>7
<1>9. h[0] = <<>> /\ \A i \in 1..N : h[i] = h[i - 1] \o Chars(ds[i])
  <2>1. \A i \in 0..N : h[i] = IF i = 0 THEN <<>> ELSE h[i - 1] \o Chars(ds[i]) BY <1>8
  <2>2. 0 \in 0..N /\ \A i \in 1..N : i \in 0..N /\ i # 0 BY <1>1
  <2> QED BY <2>1, <2>2
<1>10. ASSUME NEW i \in 1..N, h[i - 1] \in S PROVE h[i] \in S BY <1>2, <1>9, <1>10
<1>11. \A i \in 0..N : h[i] \in S BY <1>1, <1>9, <1>10, Along
<1> QED BY <1>9, <1>11 DEF N, h, S

-----------------------------------------------------------------------------
(* The arguments of a format *)

FetchState == [arg : Nat, n : Nat]

FetchStart == [arg |-> 0, n |-> 0]

Fetched(ds) == CHOOSE f : f = [i \in 0..Len(ds) |-> IF i = 0 THEN FetchStart ELSE Fetches(f[i - 1], ds[i])]

LEMMA WantsIsFetched == ASSUME NEW ds PROVE Wants(ds) = Fetched(ds)[Len(ds)].n
BY DEF Wants, Fetched, FetchStart

LEMMA FetchParts ==
    ASSUME NEW s \in FetchState, NEW arg \in Nat
    PROVE  /\ Fetch(s, arg) \in FetchState /\ Fetch(s, arg).arg = arg
           /\ Fetch(s, arg).n = (IF arg > s.n THEN arg ELSE s.n)
BY DEF Fetch, FetchState

LEMMA FetchesType ==
    ASSUME NEW s \in FetchState, NEW d \in FormatDirective
    PROVE  Fetches(s, d) \in FetchState
<1>0. s.arg \in Nat /\ s.n \in Nat /\ d.m \in 0..9 /\ d.n \in 0..9 BY DirectiveParts DEF FetchState
<1> DEFINE s1 == FetchStars(s, d)
           s2 == FetchIndex(s1, d)
<1>1. s1 \in FetchState
  <2>1. Stars(d) \in Nat BY DEF Stars
  <2>2. (IF d.m > 0 THEN d.m - 1 ELSE s.arg) + Stars(d) \in Nat BY <1>0, <2>1
  <2> QED BY <2>2, FetchParts DEF FetchStars
<1> HIDE DEF s1
<1>2. s2 \in FetchState
  <2>1. d.n > 0 => d.n - 1 \in Nat BY <1>0
  <2> QED BY <1>1, <2>1 DEF FetchIndex, FetchState
<1> HIDE DEF s2
<1>3. FetchVerb(s2, d) \in FetchState
  <2>1. s2.arg + 1 \in Nat BY <1>2 DEF FetchState
  <2> QED BY <1>2, <2>1, FetchParts DEF FetchVerb
<1> QED BY <1>3 DEF Fetches, s1, s2

LEMMA FetchedDef ==
    ASSUME NEW ds \in Seq(FormatDirective)
    PROVE  /\ Fetched(ds)[0] = FetchStart
           /\ \A i \in 1..Len(ds) : Fetched(ds)[i] = Fetches(Fetched(ds)[i - 1], ds[i])
           /\ \A i \in 0..Len(ds) : Fetched(ds)[i] \in FetchState
<1> DEFINE N == Len(ds)
           g == [i \in 1..N |-> [s \in FetchState |-> Fetches(s, ds[i])]]
           Steps(f) == f = [i \in 0..N |-> IF i = 0 THEN FetchStart ELSE Fetches(f[i - 1], ds[i])]
           h == Fetched(ds)
<1>1. N \in Nat /\ \A i \in 1..N : ds[i] \in FormatDirective OBVIOUS
<1>2. g \in [1..N -> [FetchState -> FetchState]] BY <1>1, FetchesType
<1>3. \A i \in 1..N : \A s \in FetchState : g[i][s] = Fetches(s, ds[i]) OBVIOUS
<1>4. FetchStart \in FetchState BY DEF FetchStart, FetchState
<1>5. h = CHOOSE f : Steps(f) BY DEF Fetched
<1> HIDE DEF N, g, h
<1>6. PICK f : Built(f, FetchState, FetchStart, N, g) BY <1>1, <1>2, <1>4, RecursionExists
<1>7. Steps(f)
  <2>1. ASSUME NEW i \in 0..N PROVE f[i] = IF i = 0 THEN FetchStart ELSE Fetches(f[i - 1], ds[i])
    <3>1. CASE i = 0 BY <1>6, <3>1 DEF Built
    <3>2. CASE i # 0
      <4>1. i \in 1..N /\ i - 1 \in 0..N BY <1>1, <3>2
      <4>2. f[i - 1] \in FetchState BY <1>6, <4>1 DEF Built
      <4> QED BY <1>3, <1>6, <3>2, <4>1, <4>2 DEF Built
    <3> QED BY <3>1, <3>2
  <2> QED BY <1>6, <2>1 DEF Built
<1>8. Steps(h)
  <2> HIDE DEF Steps
  <2> QED BY <1>5, <1>7
<1>9. h[0] = FetchStart /\ \A i \in 1..N : h[i] = Fetches(h[i - 1], ds[i])
  <2>1. \A i \in 0..N : h[i] = IF i = 0 THEN FetchStart ELSE Fetches(h[i - 1], ds[i]) BY <1>8
  <2>2. 0 \in 0..N /\ \A i \in 1..N : i \in 0..N /\ i # 0 BY <1>1
  <2> QED BY <2>1, <2>2
<1>10. ASSUME NEW i \in 1..N, h[i - 1] \in FetchState PROVE h[i] \in FetchState
    BY <1>1, <1>9, <1>10, FetchesType
<1>11. \A i \in 0..N : h[i] \in FetchState BY <1>1, <1>4, <1>9, <1>10, Along
<1> QED BY <1>9, <1>11 DEF N, h

\* What fmt makes of the directives that are not hidden.
LEMMA FetchesOf ==
    ASSUME NEW s \in FetchState, NEW d \in FormatDirective
    PROVE  /\ d.verb # "d" /\ Exact(d) => Fetches(s, d) = s
           /\ d.verb = "d" /\ Exact(d) => Fetches(s, d).arg = (IF d.n > 0 THEN d.n ELSE s.arg + 1)
           /\ Starred(d) => Fetches(s, d).arg > (IF d.m > 0 THEN d.m ELSE s.arg + 1)
           /\ d.verb = "d" => /\ Fetches(s, d).n >= s.n /\ Fetches(s, d).n >= Fetches(s, d).arg
           /\ d.verb = "d" /\ Exact(d) =>
                 Fetches(s, d).n = IF Fetches(s, d).arg > s.n THEN Fetches(s, d).arg ELSE s.n
<1>0. s.arg \in Nat /\ s.n \in Nat /\ d.m \in 0..9 /\ d.n \in 0..9 BY DirectiveParts DEF FetchState
<1> DEFINE s1 == FetchStars(s, d)
           s2 == FetchIndex(s1, d)
           s3 == FetchVerb(s2, d)
           k == (IF d.m > 0 THEN d.m - 1 ELSE s.arg) + Stars(d)
<1>1. Fetches(s, d) = s3 BY DEF Fetches
<1>2. Stars(d) \in Nat /\ k \in Nat
  <2>1. Stars(d) \in Nat BY DEF Stars
  <2> QED BY <1>0, <2>1
<1>3. /\ Stars(d) = 0 => s1 = s
      /\ Stars(d) > 0 => s1 \in FetchState /\ s1.arg = k /\ s1.n = IF k > s.n THEN k ELSE s.n
  <2>1. Stars(d) > 0 => s1 = Fetch(s, k) BY DEF FetchStars
  <2>2. Stars(d) = 0 => s1 = s BY DEF FetchStars
  <2> HIDE DEF s1, k
  <2> QED BY <1>2, <2>1, <2>2, FetchParts
<1>4. s1 \in FetchState /\ s1.n >= s.n /\ s1.arg \in Nat /\ s1.n \in Nat
  <2> HIDE DEF s1, k
  <2>1. s1 \in FetchState BY <1>2, <1>3
  <2>2. s1.arg \in Nat /\ s1.n \in Nat BY <2>1 DEF FetchState
  <2>3. s1.n >= s.n BY <1>0, <1>2, <1>3
  <2> QED BY <2>1, <2>2, <2>3
<1>5. /\ d.n = 0 => s2 = s1
      /\ d.n > 0 => s2.arg = d.n - 1
      /\ s2 \in FetchState /\ s2.n = s1.n /\ s2.arg \in Nat
  <2> HIDE DEF s1
  <2>1. d.n > 0 => d.n - 1 \in Nat BY <1>0
  <2> QED BY <1>0, <1>4, <2>1 DEF FetchIndex, FetchState
<1>6. /\ d.verb # "d" => s3 = s2
      /\ d.verb = "d" => s3.arg = s2.arg + 1 /\ s3.n = IF s2.arg + 1 > s2.n THEN s2.arg + 1 ELSE s2.n
  <2> HIDE DEF s2
  <2>1. s2.arg + 1 \in Nat BY <1>5
  <2> QED BY <1>5, <2>1, FetchParts DEF FetchVerb
<1> HIDE DEF s1, s2, s3
<1>7. Exact(d) => Stars(d) = 0 /\ (d.verb # "d" => d.n = 0) BY PlainParts DEF Exact, Stars
<1>8. Starred(d) => d.verb = "d" /\ Stars(d) > 0 /\ d.n = 0 BY DEF Starred
<1>9. ASSUME d.verb = "d" PROVE s3.n >= s.n /\ s3.n >= s3.arg BY <1>0, <1>4, <1>5, <1>6, <1>9
<1>10. ASSUME d.verb # "d", Exact(d) PROVE s3 = s BY <1>3, <1>5, <1>6, <1>7, <1>10
<1>11. ASSUME d.verb = "d", Exact(d)
       PROVE  s3.arg = (IF d.n > 0 THEN d.n ELSE s.arg + 1) /\ s3.n = IF s3.arg > s.n THEN s3.arg ELSE s.n
    BY <1>0, <1>3, <1>5, <1>6, <1>7, <1>11
<1>12. ASSUME Starred(d) PROVE s3.arg > (IF d.m > 0 THEN d.m ELSE s.arg + 1)
  <2>1. s3.arg = k + 1 BY <1>3, <1>5, <1>6, <1>8, <1>12
  <2> QED BY <1>0, <1>2, <1>8, <1>12, <2>1
<1> QED BY <1>1, <1>9, <1>10, <1>11, <1>12

LEMMA AllIsNone == ASSUME NEW ds, AllExact(ds) PROVE NoneHidden(ds)
BY DEF AllExact, NoneHidden

\* The scan after i directives: never ahead of fmt, and exactly there if it sees
\* all that these directives use.
ScanFollows(ds, i) ==
    LET e == ScanEnd(Texts(ds)[i])
        w == Fetched(ds)[i] IN
    /\ NoneHidden(ds) => e.in = "text" /\ e.cur <= w.arg /\ e.n <= w.n
    /\ AllExact(ds) => e.cur = w.arg /\ e.n = w.n

LEMMA ScanFollowsStep ==
    ASSUME NEW ds \in Seq(FormatDirective), NEW k \in 0..(Len(ds) - 1), ScanFollows(ds, k)
    PROVE  ScanFollows(ds, k + 1)
<1> DEFINE i == k + 1
           b == Texts(ds)[k]
           e == ScanEnd(b)
           r == ScanEnd(Texts(ds)[i])
           v == Fetched(ds)[k]
           w == Fetched(ds)[i]
           d == ds[i]
<1>1. /\ i \in 1..Len(ds) /\ i \in 0..Len(ds) /\ k \in 0..Len(ds) /\ i - 1 = k
      /\ d \in FormatDirective /\ k \in Nat
    OBVIOUS
<1>2. b \in Seq(Character) /\ Texts(ds)[i] = b \o Chars(d) BY <1>1, TextsDef
<1>3. e \in ScanState BY <1>2, SomeCharacters, ScanAppend
<1>4. v \in FetchState /\ w \in FetchState /\ w = Fetches(v, d) BY <1>1, FetchedDef
<1>5. e.cur \in Nat /\ e.n \in Nat /\ v.arg \in Nat /\ v.n \in Nat /\ w.arg \in Nat /\ w.n \in Nat
    BY <1>3, <1>4 DEF ScanState, FetchState
<1>6. SUFFICES ASSUME NoneHidden(ds)
               PROVE  /\ r.in = "text" /\ r.cur <= w.arg /\ r.n <= w.n
                      /\ AllExact(ds) => r.cur = w.arg /\ r.n = w.n
    BY AllIsNone DEF ScanFollows
<1>7. /\ e.in = "text" /\ e.cur <= v.arg /\ e.n <= v.n
      /\ AllExact(ds) => e.cur = v.arg /\ e.n = v.n
    BY <1>6 DEF ScanFollows
<1>8. (Exact(d) \/ Starred(d)) /\ (AllExact(ds) => Exact(d)) BY <1>1, <1>6 DEF NoneHidden, AllExact
<1>9. Scanned(e, r, d) BY <1>1, <1>2, <1>7, <1>8, ScanDirective
<1>10. Starred(d) => d.verb = "d" BY DEF Starred
<1>11. d.m \in 0..9 /\ d.n \in 0..9 BY <1>1, DirectiveParts
<1> DEFINE arg == IF d.n > 0 THEN d.n ELSE e.cur + 1
           first == IF d.m > 0 THEN d.m ELSE e.cur + 1
<1>12. /\ d.verb # "d" /\ Exact(d) => w = v
       /\ d.verb = "d" /\ Exact(d) => w.arg = (IF d.n > 0 THEN d.n ELSE v.arg + 1)
       /\ Starred(d) => w.arg > (IF d.m > 0 THEN d.m ELSE v.arg + 1)
       /\ d.verb = "d" => w.n >= v.n /\ w.n >= w.arg
       /\ d.verb = "d" /\ Exact(d) => w.n = IF w.arg > v.n THEN w.arg ELSE v.n
    BY <1>1, <1>4, FetchesOf
<1> HIDE DEF i, b, e, r, v, w, d
<1>13. CASE d.verb # "d"
  <2>1. r = e /\ w = v BY <1>8, <1>9, <1>10, <1>12, <1>13 DEF Scanned
  <2> QED BY <1>7, <2>1
<1>14. CASE d.verb = "d" /\ Exact(d)
  <2>1. Taking(e, r, arg) BY <1>9, <1>14 DEF Scanned
  <2>2. r.in = "text" /\ r.cur = arg /\ r.n = IF arg > e.n THEN arg ELSE e.n BY <2>1 DEF Taking
  <2> QED BY <1>5, <1>7, <1>11, <1>12, <1>14, <2>2
<1>15. CASE Starred(d) /\ ~Exact(d)
  <2>1. Taking(e, r, first) BY <1>9, <1>15 DEF Scanned
  <2>2. r.in = "text" /\ r.cur = first /\ r.n = IF first > e.n THEN first ELSE e.n BY <2>1 DEF Taking
  <2>3. ~AllExact(ds) BY <1>8, <1>15
  <2>4. first \in Nat /\ first < w.arg
    <3>1. CASE d.m > 0 BY <1>11, <1>12, <1>15, <3>1
    <3>2. CASE ~(d.m > 0)
      <4>1. first = e.cur + 1 BY <3>2
      <4>2. w.arg > v.arg + 1 BY <1>12, <1>15, <3>2
      <4> HIDE DEF first
      <4>3. e.cur \in Nat /\ v.arg \in Nat /\ w.arg \in Nat /\ e.cur <= v.arg BY <1>5, <1>7
      <4> QED BY <4>1, <4>2, <4>3
    <3> QED BY <3>1, <3>2
  <2>5. w.n >= v.n /\ w.n >= w.arg BY <1>10, <1>12, <1>15
  <2> HIDE DEF first
  <2>6. r.cur <= w.arg /\ r.n <= w.n BY <1>5, <1>7, <2>2, <2>4, <2>5
  <2> QED BY <2>2, <2>3, <2>6
<1> QED BY <1>8, <1>13, <1>14, <1>15

\* countFmtArgs counts the arguments that fmt takes for a format of any length, if
\* it has no directive with a * and none with an index or a % hidden behind flags
\* or a width.  With a * it may count fewer, never more; a hidden index or % may
\* make it count more.  The run of Logger tries all formats of three directives.
THEOREM CountAgreesWithFmt ==
    ASSUME NEW ds \in Seq(FormatDirective)
    PROVE  /\ countFmtArgs(Format(ds)) \in Nat /\ Wants(ds) \in Nat
           /\ AllExact(ds) => countFmtArgs(Format(ds)) = Wants(ds)
           /\ NoneHidden(ds) => countFmtArgs(Format(ds)) <= Wants(ds)
<1> DEFINE N == Len(ds)
           P == {i \in 0..N : ScanFollows(ds, i)}
           e == ScanEnd(Format(ds))
           w == Fetched(ds)[N]
<1>1. N \in Nat /\ N \in 0..N OBVIOUS
<1>2. 0 \in P
  <2>1. Texts(ds)[0] = <<>> /\ Fetched(ds)[0] = FetchStart BY TextsDef, FetchedDef
  <2>2. ScanEnd(<<>>) = Started BY ScanEmpty
  <2>3. /\ Started.in = "text" /\ Started.cur = 0 /\ Started.n = 0
        /\ FetchStart.arg = 0 /\ FetchStart.n = 0
      BY DEF Started, FetchStart
  <2>4. ScanFollows(ds, 0) BY <2>1, <2>2, <2>3 DEF ScanFollows
  <2> QED BY <1>1, <2>4
<1>3. ASSUME NEW k \in 0..(N - 1), k \in P PROVE k + 1 \in P
  <2>1. k + 1 \in 0..N BY <1>1
  <2>2. ScanFollows(ds, k + 1) BY <1>3, ScanFollowsStep
  <2> QED BY <2>1, <2>2
<1> HIDE DEF P
<1>4. \A i \in 0..N : i \in P BY <1>1, <1>2, <1>3, BoundedInduction
<1>5. ScanFollows(ds, N) BY <1>1, <1>4 DEF P
<1>6. Format(ds) = Texts(ds)[N] BY FormatIsText
<1>7. Format(ds) \in Seq(Character) /\ w \in FetchState BY <1>1, <1>6, TextsDef, FetchedDef
<1>8. e \in ScanState BY <1>7, SomeCharacters, ScanAppend
<1>9. /\ NoneHidden(ds) => e.in = "text" /\ e.n <= w.n
      /\ AllExact(ds) => e.n = w.n
    BY <1>5, <1>6 DEF ScanFollows
<1>10. countFmtArgs(Format(ds)) = IF e.in = "index" THEN IndexEnds(e).n ELSE e.n BY CountIsScan
<1>11. Wants(ds) = w.n BY WantsIsFetched
<1> HIDE DEF e, w, N
<1>12. IndexEnds(e).n \in Nat /\ e.n \in Nat /\ w.n \in Nat
  <2>1. e.val \in Nat /\ e.n \in Nat BY <1>8 DEF ScanState
  <2>2. IndexEnds(e) \in ScanState
    <3>1. [e EXCEPT !.in = "text"] \in ScanState BY <1>8 DEF ScanState
    <3> QED BY <1>8, <2>1, <3>1, UseType DEF IndexEnds
  <2> QED BY <1>7, <2>1, <2>2 DEF ScanState, FetchState
<1> QED BY <1>9, <1>10, <1>11, <1>12, AllIsNone

-----------------------------------------------------------------------------
(* The inductive invariant *)

Contents == [map : 0..255, pieces : Seq(FieldPiece)]

Types ==
    /\ fieldData \in [Log -> Buf \cup {NoBuf}] /\ fieldCount \in [Log -> 0..255]
    /\ given \in [Log -> Seq(FieldPiece)]
    /\ logPool \subseteq Log /\ held \subseteq Log /\ handlers \subseteq Log
    /\ bufPool \subseteq Buf
    /\ content \in [Buf -> Contents] /\ DOMAIN expect = Buf
    /\ pc \in [Proc -> {"idle", "copy", "fields", "panic"}] /\ DOMAIN job = Proc
    /\ queue \in Seq(Buf) /\ Len(queue) <= QueueSize
    /\ closed \in BOOLEAN

\* Loggers in the pool, those the application has, and those that calls are
\* about to give it are different ones.
LoggersApart ==
    /\ logPool \cap held = {}
    /\ \A p \in Proc : job[p].new \cap (logPool \cup held) = {}
    /\ \A p, q \in Proc : p # q => job[p].new \cap job[q].new = {}

\* So are the buffers of the pool, the queue, the loggers and the calls.
BuffersApart ==
    /\ bufPool \cap Range(queue) = {}
    /\ \A i, j \in 1..Len(queue) : queue[i] = queue[j] => i = j
    /\ \A l \in Log : fieldData[l] \notin bufPool \cup Range(queue)
    /\ \A k, l \in Log : k # l => fieldData[k] # fieldData[l] \/ fieldData[k] = NoBuf
    /\ \A p \in Proc : job[p].buf \notin bufPool \cup Range(queue)
    /\ \A p \in Proc, l \in Log : job[p].buf # fieldData[l] \/ job[p].buf = NoBuf
    /\ \A p, q \in Proc : p # q => job[p].buf # job[q].buf \/ job[p].buf = NoBuf

\* The pool has emptied its buffers.
PoolEmpty == \A b \in bufPool : content[b] = Empty

\* A logger has the fields it was given; one that nobody has yet has none.
LoggerKeeps(l) ==
    /\ Agree(Has(l), given[l])
    /\ fieldCount[l] = Byte(Keys(Has(l)))
    /\ l \notin held => fieldData[l] = NoBuf

\* The fields of a call itself, counted.
CallFields(j) == j.tail \in Seq(FieldPiece) /\ j.n = Byte(Keys(j.tail))

\* The fields that a logger is to have: those that l was given, and those of the call.
Inherited(l, j) == \E f \in Seq(FieldPiece) : j.fields = given[l] \o f /\ Agree(j.tail, f)

Copying(p) ==
    LET j == job[p] IN
    /\ CallFields(j) /\ j.buf \in Buf /\ content[j.buf] = Empty /\ j.count = 0
    /\ \E l \in held, k \in Log : j.logger = {l} /\ j.new = {k} /\ Inherited(l, j)

\* What a record should have: its base, the fields g, and those of the call.
Promised(e, base, g, tail) ==
    /\ e.base = base
    /\ e.exact => \E f \in Seq(FieldPiece) : e.rest = g \o f /\ Agree(tail, f)

\* A record without its fields, and what it will have.
LoggingOf(p, l) ==
    LET j == job[p] IN
    /\ j.logger = {l} /\ j.data = fieldData[l] /\ j.count = fieldCount[l]
    /\ content[j.buf] = [map |-> 3, pieces |-> Base]
    /\ Promised(expect[j.buf], Base, given[l], j.tail)

Measuring(p) ==
    LET j == job[p] IN
    /\ j.logger = {} /\ j.count = 0
    /\ content[j.buf] = Empty
    /\ Promised(expect[j.buf], <<>>, <<>>, j.tail)

Logging(p) ==
    /\ CallFields(job[p]) /\ job[p].buf \in Buf /\ job[p].new = {}
    /\ Measuring(p) \/ \E l \in held : LoggingOf(p, l)

Panicking(p) ==
    LET j == job[p] IN
    /\ j.buf = NoBuf /\ j.new = {} /\ j.count = 0
    /\ \E l \in held : j.logger = {l}
    /\ j.n < Wants(j.format) \/ ~NoneHidden(j.format)

CallOK(p) ==
    /\ pc[p] = "idle" => job[p] = NoJob
    /\ pc[p] = "copy" => Copying(p)
    /\ pc[p] = "fields" => Logging(p)
    /\ pc[p] = "panic" => Panicking(p)

Faithful(x, e) ==
    /\ x.map = Byte(Keys(x.pieces))
    /\ e.base \in Seq(FieldPiece)
    /\ e.exact /\ Keys(e.base \o e.rest) <= 255 => Agree(x.pieces, e.base \o e.rest)

RecordFaithful(b) == Faithful(content[b], expect[b])

Inv ==
    /\ Types
    /\ LoggersApart /\ BuffersApart /\ PoolEmpty
    /\ \A l \in Log : LoggerKeeps(l)
    /\ \A p \in Proc : CallOK(p)
    /\ \A b \in Range(queue) : RecordFaithful(b)

-----------------------------------------------------------------------------
(* What a step leaves alone *)

LEMMA LoggerFrame ==
    ASSUME NEW l \in Log, LoggerKeeps(l),
           fieldData'[l] = fieldData[l], fieldCount'[l] = fieldCount[l], given'[l] = given[l],
           l \notin held' => l \notin held \/ fieldData[l] = NoBuf,
           fieldData[l] # NoBuf => content'[fieldData[l]] = content[fieldData[l]]
    PROVE  LoggerKeeps(l)'
<1>1. Has(l)' = Has(l) BY DEF Has
<1>2. Agree(Has(l), given[l])' BY <1>1 DEF LoggerKeeps
<1> QED BY <1>1, <1>2 DEF LoggerKeeps

LEMMA CallFrame ==
    ASSUME NEW p \in Proc, CallOK(p), pc'[p] = pc[p], job'[p] = job[p],
           \A l \in held : l \in job[p].logger =>
               /\ l \in held' /\ fieldData'[l] = fieldData[l] /\ fieldCount'[l] = fieldCount[l]
               /\ given'[l] = given[l],
           job[p].buf \in Buf => /\ content'[job[p].buf] = content[job[p].buf]
                                 /\ expect'[job[p].buf] = expect[job[p].buf]
    PROVE  CallOK(p)'
<1>1. pc[p] = "idle" => (job[p] = NoJob)' BY DEF CallOK
<1>2. ASSUME pc[p] = "copy" PROVE Copying(p)'
  <2>1. Copying(p) BY <1>2 DEF CallOK
  <2>2. PICK l \in held, k \in Log :
            job[p].logger = {l} /\ job[p].new = {k} /\ Inherited(l, job[p])
      BY <2>1 DEF Copying
  <2>3. l \in held' /\ given'[l] = given[l] BY <2>2
  <2>4. job'[p].logger = {l} /\ job'[p].new = {k} /\ Inherited(l, job[p])'
      BY <2>2, <2>3 DEF Inherited
  <2>5. /\ CallFields(job[p])' /\ job'[p].buf \in Buf /\ content'[job'[p].buf] = Empty
        /\ job'[p].count = 0
      BY <2>1 DEF Copying, CallFields
  <2> QED BY <2>3, <2>4, <2>5 DEF Copying
<1>3. ASSUME pc[p] = "fields" PROVE Logging(p)'
  <2>1. Logging(p) BY <1>3 DEF CallOK
  <2>2. CallFields(job[p])' /\ job'[p].buf \in Buf /\ job'[p].new = {} BY <2>1 DEF Logging, CallFields
  <2>3. CASE Measuring(p)
    <3>1. Measuring(p)' BY <2>2, <2>3 DEF Measuring, Promised
    <3> QED BY <2>2, <3>1 DEF Logging
  <2>4. ASSUME NEW l \in held, LoggingOf(p, l) PROVE Logging(p)'
    <3>1. l \in held' /\ l \in job[p].logger BY <2>4 DEF LoggingOf
    <3>2. Promised(expect[job[p].buf], Base, given[l], job[p].tail)'
      <4>1. Promised(expect[job[p].buf], Base, given[l], job[p].tail) BY <2>4 DEF LoggingOf
      <4>2. expect'[job'[p].buf] = expect[job[p].buf] /\ given'[l] = given[l] /\ job'[p].tail = job[p].tail
          BY <2>2, <3>1
      <4> QED BY <4>1, <4>2
    <3>3. LoggingOf(p, l)' BY <2>2, <2>4, <3>1, <3>2 DEF LoggingOf
    <3> QED BY <2>2, <3>1, <3>3 DEF Logging
  <2> QED BY <2>1, <2>3, <2>4 DEF Logging
<1>4. ASSUME pc[p] = "panic" PROVE Panicking(p)'
  <2>1. Panicking(p) BY <1>4 DEF CallOK
  <2> QED BY <2>1 DEF Panicking
<1> QED BY <1>1, <1>2, <1>3, <1>4 DEF CallOK

\* A call that is not under way has neither a buffer nor loggers.
LEMMA IdleHasNothing ==
    ASSUME NEW p \in Proc, CallOK(p), pc[p] = "idle"
    PROVE  job[p].buf = NoBuf /\ job[p].new = {} /\ job[p].logger = {} /\ job[p].count = 0
BY DEF CallOK, NoJob

LEMMA InitInv == Init => Inv
<1> SUFFICES ASSUME Init PROVE Inv OBVIOUS
<1>0. Empty \in Contents
  <2>1. <<>> \in Seq(FieldPiece) /\ 0 \in 0..255 OBVIOUS
  <2> QED BY <2>1 DEF Empty, Contents
<1>1. <<>> \in Seq(FieldPiece) /\ <<>> \in Seq(Buf) /\ Len(<<>>) = 0 OBVIOUS
<1>2. Types
  <2>1. fieldData \in [Log -> Buf \cup {NoBuf}] /\ fieldCount \in [Log -> 0..255] BY DEF Init
  <2>2. given \in [Log -> Seq(FieldPiece)] /\ DOMAIN expect = Buf BY <1>1 DEF Init
  <2>3. content \in [Buf -> Contents] BY <1>0 DEF Init
  <2>4. pc \in [Proc -> {"idle", "copy", "fields", "panic"}] /\ DOMAIN job = Proc BY DEF Init
  <2>5. queue \in Seq(Buf) /\ Len(queue) <= QueueSize BY <1>1, LoggerAssumption DEF Init
  <2>6. /\ logPool \subseteq Log /\ held \subseteq Log /\ handlers \subseteq Log
        /\ bufPool \subseteq Buf /\ closed \in BOOLEAN
      BY DEF Init
  <2> QED BY <2>1, <2>2, <2>3, <2>4, <2>5, <2>6 DEF Types
<1>3. \A p \in Proc : job[p] = NoJob /\ job[p].new = {} /\ job[p].buf = NoBuf BY DEF Init, NoJob
<1>4. Range(queue) = {} /\ Len(queue) = 0 BY <1>1 DEF Init, Range
<1>5. LoggersApart BY <1>3 DEF Init, LoggersApart
<1>6. BuffersApart BY <1>3, <1>4, LoggerAssumption DEF Init, BuffersApart
<1>7. PoolEmpty BY DEF Init, PoolEmpty
<1>8. \A l \in Log : LoggerKeeps(l)
  <2>1. Byte(0) = 0 BY ByteSmall
  <2>2. ASSUME NEW l \in Log PROVE Has(l) = <<>> /\ given[l] = <<>> /\ fieldCount[l] = 0
      BY DEF Init, Has
  <2> QED BY <2>1, <2>2, KeysEmpty, AgreeSame DEF Init, LoggerKeeps
<1>9. \A p \in Proc : CallOK(p) BY <1>3 DEF Init, CallOK
<1> QED BY <1>2, <1>4, <1>5, <1>6, <1>7, <1>8, <1>9 DEF Inv

-----------------------------------------------------------------------------
(* Taking and releasing loggers *)

\* The application gets a logger from the pool, as it is there.
LEMMA TakeLogger ==
    ASSUME Inv, logPool # {}, logPool' = logPool \ {SomeLog}, held' = held \cup {SomeLog},
           handlers' \subseteq Log,
           UNCHANGED <<fieldData, fieldCount, given, bufPool, content, calls, queue, closed, expect>>
    PROVE  Inv'
<1>1. SomeLog \in logPool BY DEF SomeLog
<1>2. /\ UNCHANGED fieldData /\ UNCHANGED fieldCount /\ UNCHANGED given /\ UNCHANGED bufPool
      /\ UNCHANGED content /\ UNCHANGED pc /\ UNCHANGED job /\ UNCHANGED queue
      /\ UNCHANGED closed /\ UNCHANGED expect
    BY DEF calls
<1>3. Types' BY <1>1, <1>2, SMTT(30) DEF Inv, Types
<1>4. LoggersApart'
  <2>1. logPool' \cap held' = {} BY <1>1 DEF Inv, LoggersApart
  <2>2. \A p \in Proc : job'[p].new \cap (logPool' \cup held') = {} BY <1>1, <1>2 DEF Inv, LoggersApart
  <2> QED BY <1>2, <2>1, <2>2 DEF Inv, LoggersApart
<1>5. BuffersApart' BY <1>2 DEF Inv, BuffersApart
<1>6. PoolEmpty' BY <1>2 DEF Inv, PoolEmpty
<1>7. ASSUME NEW l \in Log PROVE LoggerKeeps(l)'
    BY <1>2, LoggerFrame DEF Inv
<1>8. ASSUME NEW p \in Proc PROVE CallOK(p)'
    BY <1>2, CallFrame DEF Inv
<1>9. \A b \in Range(queue)' : RecordFaithful(b)' BY <1>2 DEF Inv, RecordFaithful
<1> QED BY <1>3, <1>4, <1>5, <1>6, <1>7, <1>8, <1>9 DEF Inv

LEMMA AcquireInv == ASSUME Inv, NEW p \in Proc, Acquire(p) PROVE Inv'
<1>1. handlers' \subseteq Log BY DEF Acquire, Inv, Types
<1> QED BY <1>1, TakeLogger DEF Acquire, promised

LEMMA WithNothingInv == ASSUME Inv, NEW p \in Proc, NEW l \in Log, WithNothing(p, l) PROVE Inv'
<1>1. SomeLog \in Log BY DEF SomeLog, WithNothing, Inv, Types
<1>2. handlers' \subseteq Log BY <1>1 DEF WithNothing, Inv, Types
<1> QED BY <1>2, TakeLogger DEF WithNothing

LEMMA ReleaseInv == ASSUME Inv, NEW p \in Proc, NEW l \in Log, Release(p, l) PROVE Inv'
<1> DEFINE d == fieldData[l]
<1>1. /\ l \in held /\ l \notin handlers /\ (\A q \in Proc : l \notin job[q].logger)
      /\ fieldData' = [fieldData EXCEPT ![l] = NoBuf] /\ fieldCount' = [fieldCount EXCEPT ![l] = 0]
      /\ given' = [given EXCEPT ![l] = <<>>]
      /\ logPool' = logPool \cup {l} /\ held' = held \ {l}
      /\ UNCHANGED handlers /\ UNCHANGED pc /\ UNCHANGED job /\ UNCHANGED queue /\ UNCHANGED closed
    BY DEF Release, Busy, calls
<1>2. /\ Types /\ LoggersApart /\ BuffersApart /\ PoolEmpty /\ (\A k \in Log : LoggerKeeps(k))
      /\ (\A q \in Proc : CallOK(q)) /\ (\A b \in Range(queue) : RecordFaithful(b))
    BY DEF Inv
<1>3. /\ fieldData'[l] = NoBuf /\ fieldCount'[l] = 0 /\ given'[l] = <<>>
      /\ \A k \in Log : k # l => /\ fieldData'[k] = fieldData[k] /\ fieldCount'[k] = fieldCount[k]
                                 /\ given'[k] = given[k]
    BY <1>1, <1>2 DEF Types
<1>4. \/ d # NoBuf /\ d \in Buf /\ Put(d)
      \/ d = NoBuf /\ UNCHANGED bufPool /\ UNCHANGED content /\ UNCHANGED expect
    BY <1>2 DEF Release, Types
\* The buffers that others have are as before.
<1>5. /\ bufPool' = bufPool \cup ({d} \ {NoBuf}) /\ bufPool' \subseteq Buf
      /\ content' \in [Buf -> Contents] /\ DOMAIN expect' = Buf
      /\ \A b \in Buf : b # d => content'[b] = content[b] /\ expect'[b] = expect[b]
      /\ d # NoBuf => content'[d] = Empty
  <2>1. Empty \in Contents
    <3>1. <<>> \in Seq(FieldPiece) /\ 0 \in 0..255 OBVIOUS
    <3> QED BY <3>1 DEF Empty, Contents
  <2>2. CASE d # NoBuf /\ d \in Buf /\ Put(d) BY <1>2, <2>1, <2>2 DEF Put, Types
  <2>3. CASE d = NoBuf /\ UNCHANGED bufPool /\ UNCHANGED content /\ UNCHANGED expect
      BY <1>2, <2>3 DEF Types
  <2> QED BY <1>4, <2>2, <2>3
<1>6. Types'
  <2>1. fieldData' \in [Log -> Buf \cup {NoBuf}] /\ fieldCount' \in [Log -> 0..255]
    <3>1. fieldData' \in [Log -> Buf \cup {NoBuf}] BY <1>1, <1>2 DEF Types
    <3>2. 0 \in 0..255 /\ fieldCount \in [Log -> 0..255] BY <1>2 DEF Types
    <3>3. fieldCount' \in [Log -> 0..255] BY <1>1, <3>2
    <3> QED BY <3>1, <3>3
  <2>2. given' \in [Log -> Seq(FieldPiece)]
    <3>1. <<>> \in Seq(FieldPiece) OBVIOUS
    <3> QED BY <1>1, <1>2, <3>1 DEF Types
  <2> QED BY <1>1, <1>2, <1>5, <2>1, <2>2 DEF Types
<1>7. LoggersApart'
  <2>1. logPool' \cap held' = {} BY <1>1, <1>2 DEF LoggersApart
  <2>2. \A q \in Proc : job'[q].new \cap (logPool' \cup held') = {} BY <1>1, <1>2 DEF LoggersApart
  <2> QED BY <1>1, <1>2, <2>1, <2>2 DEF LoggersApart
<1> HIDE DEF d
<1>8. \A k \in Log : k # l /\ fieldData[k] # NoBuf => fieldData[k] # d
    BY <1>2 DEF BuffersApart, d
<1>9. d \notin Range(queue) /\ \A q \in Proc : job[q].buf # NoBuf => job[q].buf # d
    BY <1>2 DEF BuffersApart, d
<1>10. BuffersApart'
  <2>1. bufPool' \cap Range(queue') = {} BY <1>1, <1>2, <1>5, <1>9 DEF BuffersApart
  <2>2. \A i, j \in 1..Len(queue') : queue'[i] = queue'[j] => i = j BY <1>1, <1>2 DEF BuffersApart
  <2>3. NoBuf \notin bufPool' \cup Range(queue')
    <3>1. \A i \in 1..Len(queue) : queue[i] \in Buf BY <1>2 DEF Types
    <3>2. NoBuf \notin Range(queue) BY <1>2, <3>1, LoggerAssumption DEF Range, Types
    <3> QED BY <1>1, <1>5, <3>2, LoggerAssumption
  <2>4. ASSUME NEW k \in Log PROVE fieldData'[k] \notin bufPool' \cup Range(queue')
    <3>1. CASE k = l BY <1>3, <2>3, <3>1
    <3>2. CASE k # l
      <4>1. fieldData'[k] = fieldData[k] /\ fieldData[k] \notin bufPool \cup Range(queue)
          BY <1>2, <1>3, <3>2 DEF BuffersApart
      <4> QED BY <1>1, <1>5, <1>8, <3>2, <4>1
    <3> QED BY <3>1, <3>2
  <2>5. \A k, m \in Log : k # m => fieldData'[k] # fieldData'[m] \/ fieldData'[k] = NoBuf
      BY <1>2, <1>3 DEF BuffersApart
  <2>6. ASSUME NEW q \in Proc PROVE job'[q].buf \notin bufPool' \cup Range(queue')
    <3>1. job[q].buf \notin bufPool \cup Range(queue) BY <1>2 DEF BuffersApart
    <3> QED BY <1>1, <1>5, <1>9, <3>1
  <2>7. \A q \in Proc, k \in Log : job'[q].buf # fieldData'[k] \/ job'[q].buf = NoBuf
      BY <1>1, <1>2, <1>3 DEF BuffersApart
  <2>8. \A q, r \in Proc : q # r => job'[q].buf # job'[r].buf \/ job'[q].buf = NoBuf
      BY <1>1, <1>2 DEF BuffersApart
  <2> QED BY <2>1, <2>2, <2>4, <2>5, <2>6, <2>7, <2>8 DEF BuffersApart
<1>11. PoolEmpty'
  <2>1. ASSUME NEW b \in bufPool' PROVE content'[b] = Empty
    <3>1. CASE b = d BY <1>5, <2>1, <3>1, LoggerAssumption
    <3>2. CASE b # d
      <4>1. b \in bufPool /\ b \in Buf BY <1>2, <1>5, <2>1, <3>2 DEF Types
      <4> QED BY <1>2, <1>5, <3>2, <4>1 DEF PoolEmpty
    <3> QED BY <3>1, <3>2
  <2> QED BY <2>1 DEF PoolEmpty
<1>12. ASSUME NEW k \in Log PROVE LoggerKeeps(k)'
  <2>1. CASE k = l
    <3>1. Byte(0) = 0 BY ByteSmall
    <3>2. Has(k)' = <<>> /\ given'[k] = <<>> BY <1>3, <2>1 DEF Has
    <3>3. Agree(Has(k), given[k])' BY <3>2, AgreeSame
    <3> QED BY <1>3, <2>1, <3>1, <3>2, <3>3, KeysEmpty DEF LoggerKeeps
  <2>2. CASE k # l
    <3>1. k \notin held' => k \notin held BY <1>1, <2>2
    <3>2. fieldData[k] # NoBuf => content'[fieldData[k]] = content[fieldData[k]]
      <4>1. fieldData[k] # NoBuf => fieldData[k] \in Buf BY <1>2 DEF Types
      <4> QED BY <1>5, <1>8, <2>2, <4>1
    <3>3. LoggerKeeps(k) BY <1>2
    <3> QED BY <1>3, <2>2, <3>1, <3>2, <3>3, LoggerFrame
  <2> QED BY <2>1, <2>2
<1>13. ASSUME NEW q \in Proc PROVE CallOK(q)'
  <2>1. CallOK(q) /\ pc'[q] = pc[q] /\ job'[q] = job[q] BY <1>1, <1>2
  <2>2. \A k \in held : k \in job[q].logger =>
            /\ k \in held' /\ fieldData'[k] = fieldData[k] /\ fieldCount'[k] = fieldCount[k]
            /\ given'[k] = given[k]
      BY <1>1, <1>2, <1>3 DEF Types
  <2>3. job[q].buf \in Buf => content'[job[q].buf] = content[job[q].buf] /\ expect'[job[q].buf] = expect[job[q].buf]
      BY <1>5, <1>9, LoggerAssumption
  <2> QED BY <2>1, <2>2, <2>3, CallFrame
<1>14. ASSUME NEW b \in Range(queue)' PROVE RecordFaithful(b)'
  <2>1. b \in Range(queue) /\ b \in Buf BY <1>1, <1>2 DEF Range, Types
  <2>2. content'[b] = content[b] /\ expect'[b] = expect[b] BY <1>5, <1>9, <2>1
  <2> QED BY <1>2, <2>1, <2>2 DEF RecordFaithful
<1> QED BY <1>6, <1>7, <1>10, <1>11, <1>12, <1>13, <1>14 DEF Inv

-----------------------------------------------------------------------------
(* Deriving loggers *)

LEMMA DeriveInv ==
    ASSUME Inv, NEW p \in Proc, NEW l \in Log, NEW added, NEW fields \in Seq(FieldPiece),
           added.out \in Seq(FieldPiece), added.n = Byte(Keys(added.out)),
           Agree(added.out, fields),
           Derive(p, l, added, fields), handlers' \subseteq Log
    PROVE  Inv'
<1> DEFINE b == SomeBuf
           k == SomeLog
           j == [NoJob EXCEPT !.logger = {l}, !.new = {k}, !.buf = b, !.tail = added.out,
                              !.n = added.n, !.fields = given[l] \o fields]
<1>1. /\ pc[p] = "idle" /\ l \in held /\ b \in bufPool /\ k \in logPool
      /\ logPool' = logPool \ {k} /\ bufPool' = bufPool \ {b}
      /\ pc' = [pc EXCEPT ![p] = "copy"] /\ job' = [job EXCEPT ![p] = j]
      /\ UNCHANGED fieldData /\ UNCHANGED fieldCount /\ UNCHANGED held /\ UNCHANGED given
      /\ UNCHANGED content /\ UNCHANGED queue /\ UNCHANGED closed /\ UNCHANGED expect
    BY DEF Derive, Start, SomeBuf, SomeLog, promised
<1>2. /\ Types /\ LoggersApart /\ BuffersApart /\ PoolEmpty /\ (\A m \in Log : LoggerKeeps(m))
      /\ (\A q \in Proc : CallOK(q)) /\ (\A c \in Range(queue) : RecordFaithful(c))
    BY DEF Inv
<1>3. /\ j.logger = {l} /\ j.new = {k} /\ j.buf = b /\ j.tail = added.out /\ j.n = added.n
      /\ j.fields = given[l] \o fields /\ j.count = 0
    BY DEF NoJob
<1> HIDE DEF b, k, j
<1>4. /\ pc'[p] = "copy" /\ job'[p] = j /\ b \in Buf /\ k \in Log
      /\ \A q \in Proc : q # p => pc'[q] = pc[q] /\ job'[q] = job[q]
    BY <1>1, <1>2 DEF Types
<1>5. Types' BY <1>1, <1>2 DEF Types
<1>6. LoggersApart'
  <2>1. logPool' \cap held' = {} BY <1>1, <1>2 DEF LoggersApart
  <2>2. \A q \in Proc : job'[q].new \cap (logPool' \cup held') = {}
      BY <1>1, <1>2, <1>3, <1>4 DEF LoggersApart
  <2>3. ASSUME NEW q \in Proc, NEW r \in Proc, q # r PROVE job'[q].new \cap job'[r].new = {}
    <3>1. \A s \in Proc : k \notin job[s].new BY <1>1, <1>2 DEF LoggersApart
    <3> QED BY <1>2, <1>3, <1>4, <2>3, <3>1 DEF LoggersApart
  <2> QED BY <2>1, <2>2, <2>3 DEF LoggersApart
<1>7. BuffersApart'
  <2>1. /\ b \notin Range(queue) /\ (\A m \in Log : fieldData[m] # b)
        /\ \A q \in Proc : job[q].buf # b
      BY <1>1, <1>2 DEF BuffersApart
  <2>2. bufPool' \cap Range(queue') = {} /\ \A m \in Log : fieldData'[m] \notin bufPool' \cup Range(queue')
      BY <1>1, <1>2 DEF BuffersApart
  <2>3. \A q \in Proc : job'[q].buf \notin bufPool' \cup Range(queue')
      BY <1>1, <1>2, <1>3, <1>4, <2>1 DEF BuffersApart
  <2>4. \A q \in Proc, m \in Log : job'[q].buf # fieldData'[m] \/ job'[q].buf = NoBuf
      BY <1>1, <1>2, <1>3, <1>4, <2>1 DEF BuffersApart
  <2>5. \A q, r \in Proc : q # r => job'[q].buf # job'[r].buf \/ job'[q].buf = NoBuf
      BY <1>2, <1>3, <1>4, <2>1 DEF BuffersApart
  <2> QED BY <1>1, <1>2, <2>2, <2>3, <2>4, <2>5 DEF BuffersApart
<1>8. PoolEmpty' BY <1>1, <1>2 DEF PoolEmpty
<1>9. ASSUME NEW m \in Log PROVE LoggerKeeps(m)' BY <1>1, <1>2, LoggerFrame
<1>10. ASSUME NEW q \in Proc PROVE CallOK(q)'
  <2>1. CASE q = p
    <3>1. content[b] = Empty BY <1>1, <1>2 DEF PoolEmpty
    <3>2. Inherited(l, job[p])' BY <1>1, <1>3, <1>4 DEF Inherited
    <3>3. CallFields(job[p])' BY <1>3, <1>4 DEF CallFields
    <3>4. Copying(p)' BY <1>1, <1>3, <1>4, <3>1, <3>2, <3>3 DEF Copying
    <3> QED BY <1>4, <2>1, <3>4 DEF CallOK
  <2>2. CASE q # p
    <3>1. CallOK(q) /\ pc'[q] = pc[q] /\ job'[q] = job[q] BY <1>2, <1>4, <2>2
    <3> QED BY <1>1, <3>1, CallFrame
  <2> QED BY <2>1, <2>2
<1>11. \A c \in Range(queue)' : RecordFaithful(c)' BY <1>1, <1>2 DEF RecordFaithful
<1> QED BY <1>5, <1>6, <1>7, <1>8, <1>9, <1>10, <1>11 DEF Inv

LEMMA WithInv == ASSUME Inv, NEW p \in Proc, NEW l \in Log, With(p, l) PROVE Inv'
<1>1. PICK args \in FieldArguments : Derive(p, l, appendArgs(args), Fields(args)) /\ UNCHANGED handlers
    BY DEF With
<1>2. args \in Seq(CallArgument) /\ Paired(args) BY <1>1, LoggerAssumption
<1>3. /\ appendArgs(args).out \in Seq(FieldPiece)
      /\ appendArgs(args).n = Byte(Keys(appendArgs(args).out))
    BY <1>2, ArgsCounted
<1>4. Fields(args) = appendArgs(args).out BY <1>2, FieldsOfArgs
<1>5. Fields(args) \in Seq(FieldPiece) /\ Agree(appendArgs(args).out, Fields(args))
    BY <1>3, <1>4, AgreeSame
<1>6. handlers' \subseteq Log BY <1>1 DEF Inv, Types
<1> QED BY <1>1, <1>3, <1>5, <1>6, DeriveInv

LEMMA WithAttrsInv == ASSUME Inv, NEW p \in Proc, NEW l \in Log, WithAttrs(p, l) PROVE Inv'
<1>1. PICK rec \in SlogRecords :
          /\ Derive(p, l, appendSlogAttrs(rec.attrs), Attributes(rec.attrs))
          /\ handlers' = handlers \cup {SomeLog}
    BY DEF WithAttrs
<1>2. rec.attrs \in Seq(SlogAttr) BY <1>1, LoggerAssumption
<1>3. /\ appendSlogAttrs(rec.attrs).out \in Seq(FieldPiece)
      /\ appendSlogAttrs(rec.attrs).n = Byte(Keys(appendSlogAttrs(rec.attrs).out))
    BY <1>2, AttrsCounted
<1>4. SomeLog \in Log BY <1>1 DEF Derive, SomeLog, Inv, Types
<1>5. handlers' \subseteq Log BY <1>1, <1>4 DEF Inv, Types
<1>6. Attributes(rec.attrs) \in Seq(FieldPiece) /\ Agree(appendSlogAttrs(rec.attrs).out, Attributes(rec.attrs))
    BY AttrsAgree
<1> QED BY <1>1, <1>3, <1>5, <1>6, DeriveInv

LEMMA SlogHandlerInv == ASSUME Inv, NEW p \in Proc, NEW l \in Log, SlogHandler(p, l) PROVE Inv'
<1>1. /\ handlers' = handlers \cup {l} /\ UNCHANGED fieldData /\ UNCHANGED fieldCount
      /\ UNCHANGED logPool /\ UNCHANGED held /\ UNCHANGED given /\ UNCHANGED bufPool
      /\ UNCHANGED content /\ UNCHANGED pc /\ UNCHANGED job /\ UNCHANGED queue
      /\ UNCHANGED closed /\ UNCHANGED expect
    BY DEF SlogHandler, calls, promised
<1>2. Types' BY <1>1 DEF Inv, Types
<1>3. LoggersApart' /\ BuffersApart' /\ PoolEmpty'
    BY <1>1 DEF Inv, LoggersApart, BuffersApart, PoolEmpty
<1>4. ASSUME NEW m \in Log PROVE LoggerKeeps(m)' BY <1>1, LoggerFrame DEF Inv
<1>5. ASSUME NEW q \in Proc PROVE CallOK(q)' BY <1>1, CallFrame DEF Inv
<1>6. \A c \in Range(queue)' : RecordFaithful(c)' BY <1>1 DEF Inv, RecordFaithful
<1> QED BY <1>2, <1>3, <1>4, <1>5, <1>6 DEF Inv

LEMMA HasType == ASSUME Types, NEW l \in Log PROVE Has(l) \in Seq(FieldPiece)
<1>1. <<>> \in Seq(FieldPiece) OBVIOUS
<1>2. ASSUME fieldData[l] # NoBuf PROVE content[fieldData[l]].pieces \in Seq(FieldPiece)
    BY <1>2 DEF Types, Contents
<1> QED BY <1>1, <1>2 DEF Has

LEMMA DeriveCopyInv == ASSUME Inv, NEW p \in Proc, DeriveCopy(p) PROVE Inv'
<1>1. /\ Types /\ LoggersApart /\ BuffersApart /\ PoolEmpty /\ (\A m \in Log : LoggerKeeps(m))
      /\ (\A q \in Proc : CallOK(q)) /\ (\A c \in Range(queue) : RecordFaithful(c))
    BY DEF Inv
<1>2. pc[p] = "copy" /\ Copying(p) BY <1>1 DEF DeriveCopy, CallOK
<1>3. PICK l \in held, k \in Log :
          job[p].logger = {l} /\ job[p].new = {k} /\ Inherited(l, job[p])
    BY <1>2 DEF Copying
<1>0. PICK f \in Seq(FieldPiece) : job[p].fields = given[l] \o f /\ Agree(job[p].tail, f)
    BY <1>3 DEF Inherited
<1> DEFINE b == job[p].buf
           t == job[p].tail
           parent == fieldData[l] # NoBuf
           has == Has(l)
           more == IF parent THEN content[fieldData[l]].pieces ELSE <<>>
           count == Byte((IF parent THEN fieldCount[l] ELSE fieldCount[k]) + job[p].n)
<1>4. /\ fieldData' = [fieldData EXCEPT ![k] = b] /\ fieldCount' = [fieldCount EXCEPT ![k] = count]
      /\ content' = [content EXCEPT ![b].pieces = content[b].pieces \o more \o t]
      /\ held' = held \cup {k} /\ given' = [given EXCEPT ![k] = given[l] \o f]
      /\ pc' = [pc EXCEPT ![p] = "idle"] /\ job' = [job EXCEPT ![p] = NoJob]
      /\ UNCHANGED logPool /\ UNCHANGED handlers /\ UNCHANGED bufPool /\ UNCHANGED queue
      /\ UNCHANGED closed /\ UNCHANGED expect
  <2>1. PICK l1 \in job[p].logger, k1 \in job[p].new :
          /\ fieldData' = [fieldData EXCEPT ![k1] = b]
          /\ fieldCount' = [fieldCount EXCEPT ![k1] =
                 Byte((IF fieldData[l1] # NoBuf THEN fieldCount[l1] ELSE fieldCount[k1]) + job[p].n)]
          /\ content' = [content EXCEPT ![b].pieces =
                 content[b].pieces \o (IF fieldData[l1] # NoBuf THEN content[fieldData[l1]].pieces ELSE <<>>) \o t]
          /\ held' = held \cup {k1} /\ given' = [given EXCEPT ![k1] = job[p].fields]
      BY <1>1 DEF DeriveCopy, Types
  <2>2. l1 = l /\ k1 = k BY <1>3, <2>1
  <2>3. /\ pc' = [pc EXCEPT ![p] = "idle"] /\ job' = [job EXCEPT ![p] = NoJob]
        /\ UNCHANGED logPool /\ UNCHANGED handlers /\ UNCHANGED bufPool /\ UNCHANGED queue
        /\ UNCHANGED closed /\ UNCHANGED expect
      BY DEF DeriveCopy, Finish
  <2> QED BY <1>0, <2>1, <2>2, <2>3
<1>5. /\ b \in Buf /\ content[b] = Empty /\ t \in Seq(FieldPiece) /\ job[p].n = Byte(Keys(t))
      /\ l \in Log /\ k \in job[p].new /\ k \notin held \cup logPool /\ k # l
    BY <1>1, <1>2, <1>3 DEF Copying, CallFields, LoggersApart, Types
<1>6. /\ given[l] \in Seq(FieldPiece) /\ has \in Seq(FieldPiece) /\ Agree(has, given[l]) /\ more = has
      /\ fieldData[k] = NoBuf /\ fieldCount[k] = 0
  <2>1. given[l] \in Seq(FieldPiece) BY <1>1, <1>5 DEF Types
  <2>2. LoggerKeeps(l) /\ LoggerKeeps(k) BY <1>1, <1>5
  <2>3. more = has /\ Agree(has, given[l]) /\ fieldData[k] = NoBuf BY <1>5, <2>2 DEF LoggerKeeps, Has
  <2>4. Has(k) = <<>> /\ fieldCount[k] = Byte(Keys(Has(k))) BY <2>2, <2>3 DEF LoggerKeeps, Has
  <2>5. fieldCount[k] = 0 BY <2>4, KeysEmpty, ByteSmall
  <2>6. has \in Seq(FieldPiece) BY <1>1, <1>5, HasType
  <2> QED BY <2>1, <2>3, <2>5, <2>6
<1>7. count = Byte(Keys(has \o t)) /\ count \in 0..255
  <2>1. Keys(has) \in Nat /\ Keys(t) \in Nat /\ Keys(has \o t) = Keys(has) + Keys(t)
      BY <1>5, <1>6, KeysType, KeysConcat
  <2>2. (IF parent THEN fieldCount[l] ELSE fieldCount[k]) = Byte(Keys(has))
    <3>1. LoggerKeeps(l) BY <1>1, <1>5
    <3>2. CASE parent BY <3>1, <3>2 DEF LoggerKeeps
    <3>3. CASE ~parent
      <4>1. has = <<>> BY <3>3 DEF Has
      <4>2. Byte(Keys(has)) = 0 BY <4>1, KeysEmpty, ByteSmall
      <4> QED BY <1>6, <3>3, <4>2
    <3> QED BY <3>2, <3>3
  <2>3. Byte(Byte(Keys(has)) + Byte(Keys(t))) = Byte(Keys(has) + Keys(t)) BY <2>1, ByteAdd
  <2>4. Keys(has) + Keys(t) \in Nat BY <2>1
  <2>5. count = Byte(Keys(has \o t)) BY <1>5, <2>1, <2>2, <2>3
  <2> QED BY <2>1, <2>4, <2>5, ByteType
<1> HIDE DEF b, t, has, more, count, parent
<1>8. /\ content'[b].pieces = has \o t /\ content'[b] \in Contents
      /\ \A c \in Buf : c # b => content'[c] = content[c]
      /\ content' \in [Buf -> Contents]
  <2>1. content[b].pieces = <<>> /\ content[b].map = 0 /\ DOMAIN content = Buf
      BY <1>1, <1>5 DEF Empty, Types
  <2>2. content[b].pieces \o more \o t = has \o t /\ has \o t \in Seq(FieldPiece)
      BY <1>5, <1>6, <2>1, ConcatEmpty
  <2>3. content' = [content EXCEPT ![b] = [content[b] EXCEPT !.pieces = has \o t]] BY <1>4, <2>2
  <2>4. [content[b] EXCEPT !.pieces = has \o t] \in Contents
    <3>1. content[b] \in Contents BY <1>1, <1>5 DEF Types
    <3> QED BY <2>2, <3>1 DEF Contents
  <2>5. content'[b] = [content[b] EXCEPT !.pieces = has \o t] BY <1>5, <2>1, <2>3
  <2>6. content'[b].pieces = has \o t
    <3>1. content[b] \in Contents BY <1>1, <1>5 DEF Types
    <3> QED BY <2>5, <3>1 DEF Contents
  <2>7. \A c \in Buf : c # b => content'[c] = content[c] BY <2>1, <2>3
  <2>8. content' \in [Buf -> Contents] BY <1>1, <2>3, <2>4 DEF Types
  <2> QED BY <2>4, <2>5, <2>6, <2>7, <2>8
<1>9. /\ fieldData'[k] = b /\ fieldCount'[k] = count /\ given'[k] = given[l] \o f
      /\ \A m \in Log : m # k => /\ fieldData'[m] = fieldData[m] /\ fieldCount'[m] = fieldCount[m]
                                 /\ given'[m] = given[m]
    BY <1>1, <1>3, <1>4 DEF Types
<1>10. /\ pc'[p] = "idle" /\ job'[p] = NoJob /\ NoJob.buf = NoBuf /\ NoJob.new = {}
       /\ \A q \in Proc : q # p => pc'[q] = pc[q] /\ job'[q] = job[q]
  <2>1. NoJob.buf = NoBuf /\ NoJob.new = {} BY DEF NoJob
  <2> QED BY <1>1, <1>4, <2>1 DEF Types
<1>11. /\ b # NoBuf /\ b \notin bufPool /\ b \notin Range(queue) /\ (\A m \in Log : fieldData[m] # b)
       /\ \A q \in Proc : q # p => job[q].buf # b
  <2>1. b # NoBuf BY <1>5, LoggerAssumption
  <2> QED BY <1>1, <2>1 DEF BuffersApart, b
<1>12. Types'
  <2>1. fieldData' \in [Log -> Buf \cup {NoBuf}] BY <1>1, <1>4, <1>5 DEF Types
  <2>2. fieldCount' \in [Log -> 0..255] BY <1>1, <1>4, <1>7 DEF Types
  <2>3. given' \in [Log -> Seq(FieldPiece)]
    <3>1. given[l] \o f \in Seq(FieldPiece) BY <1>6
    <3> QED BY <1>1, <1>4, <3>1 DEF Types
  <2>4. pc' \in [Proc -> {"idle", "copy", "fields", "panic"}] /\ DOMAIN job' = Proc BY <1>1, <1>4 DEF Types
  <2> QED BY <1>1, <1>4, <1>8, <2>1, <2>2, <2>3, <2>4 DEF Types
<1>13. LoggersApart'
  <2>1. logPool' \cap held' = {} BY <1>1, <1>4, <1>5 DEF LoggersApart
  <2>2. \A q \in Proc : job'[q].new \cap (logPool' \cup held') = {}
    <3>1. \A q \in Proc : q # p => k \notin job[q].new BY <1>1, <1>5 DEF LoggersApart
    <3> QED BY <1>1, <1>4, <1>10, <3>1 DEF LoggersApart
  <2>3. \A q, r \in Proc : q # r => job'[q].new \cap job'[r].new = {} BY <1>1, <1>10 DEF LoggersApart
  <2> QED BY <2>1, <2>2, <2>3 DEF LoggersApart
<1>14. BuffersApart'
  <2>1. bufPool' \cap Range(queue') = {} /\ \A i, j \in 1..Len(queue') : queue'[i] = queue'[j] => i = j
      BY <1>1, <1>4 DEF BuffersApart
  <2>2. \A m \in Log : fieldData'[m] \notin bufPool' \cup Range(queue')
      BY <1>1, <1>4, <1>9, <1>11 DEF BuffersApart
  <2>3. \A m, n \in Log : m # n => fieldData'[m] # fieldData'[n] \/ fieldData'[m] = NoBuf
      BY <1>1, <1>9, <1>11 DEF BuffersApart
  <2>4. NoBuf \notin bufPool \cup Range(queue)
    <3>1. \A i \in 1..Len(queue) : queue[i] \in Buf BY <1>1 DEF Types
    <3>2. NoBuf \notin Range(queue) BY <1>1, <3>1, LoggerAssumption DEF Range, Types
    <3> QED BY <1>1, <3>2, LoggerAssumption DEF Types
  <2>5. \A q \in Proc : job'[q].buf \notin bufPool' \cup Range(queue')
      BY <1>1, <1>4, <1>10, <2>4 DEF BuffersApart
  <2>6. \A q \in Proc, m \in Log : job'[q].buf # fieldData'[m] \/ job'[q].buf = NoBuf
      BY <1>1, <1>9, <1>10, <1>11 DEF BuffersApart
  <2>7. \A q, r \in Proc : q # r => job'[q].buf # job'[r].buf \/ job'[q].buf = NoBuf
      BY <1>1, <1>10 DEF BuffersApart
  <2> QED BY <2>1, <2>2, <2>3, <2>5, <2>6, <2>7 DEF BuffersApart
<1>15. PoolEmpty' BY <1>1, <1>4, <1>8, <1>11 DEF PoolEmpty, Types
<1>16. ASSUME NEW m \in Log PROVE LoggerKeeps(m)'
  <2>1. CASE m = k
    <3>1. k \in held' BY <1>4
    <3>2. Has(k)' = has \o t BY <1>8, <1>9, <1>11 DEF Has
    <3>3. Agree(has \o t, given[l] \o f) BY <1>0, <1>5, <1>6, AgreeConcat DEF t
    <3>4. Agree(Has(k), given[k])' BY <1>9, <3>2, <3>3
    <3> QED BY <1>7, <1>9, <2>1, <3>1, <3>2, <3>4 DEF LoggerKeeps
  <2>2. CASE m # k
    <3>1. fieldData[m] # NoBuf => content'[fieldData[m]] = content[fieldData[m]]
        BY <1>1, <1>8, <1>11 DEF Types
    <3>2. LoggerKeeps(m) /\ (m \notin held' => m \notin held) BY <1>1, <1>4
    <3> QED BY <1>9, <2>2, <3>1, <3>2, LoggerFrame
  <2> QED BY <2>1, <2>2
<1>17. ASSUME NEW q \in Proc PROVE CallOK(q)'
  <2>1. CASE q = p BY <1>10, <2>1 DEF CallOK
  <2>2. CASE q # p
    <3>1. CallOK(q) /\ pc'[q] = pc[q] /\ job'[q] = job[q] /\ job[q].buf # b BY <1>1, <1>10, <1>11, <2>2
    <3>2. \A m \in held : m \in held' /\ m \in Log /\ m # k BY <1>1, <1>4, <1>5 DEF Types
    <3>3. UNCHANGED expect BY <1>4
    <3> QED BY <1>8, <1>9, <3>1, <3>2, <3>3, CallFrame
  <2> QED BY <2>1, <2>2
<1>18. ASSUME NEW c \in Range(queue)' PROVE RecordFaithful(c)'
  <2>1. c \in Range(queue) /\ c \in Buf BY <1>1, <1>4 DEF Range, Types
  <2>2. content'[c] = content[c] /\ UNCHANGED expect BY <1>4, <1>8, <1>11, <2>1
  <2> QED BY <1>1, <2>1, <2>2 DEF RecordFaithful
<1> QED BY <1>12, <1>13, <1>14, <1>15, <1>16, <1>17, <1>18 DEF Inv

-----------------------------------------------------------------------------
(* Beginning a record *)

\* Of the calls, p's alone is at another place.
OnlyCall(p) ==
    /\ pc' \in [Proc -> {"idle", "copy", "fields", "panic"}] /\ DOMAIN job' = Proc
    /\ \A q \in Proc : q # p => pc'[q] = pc[q] /\ job'[q] = job[q]

LEMMA CallStarts ==
    ASSUME Inv, NEW p \in Proc, NEW where \in {"idle", "copy", "fields", "panic"}, NEW j,
           pc' = [pc EXCEPT ![p] = where], job' = [job EXCEPT ![p] = j]
    PROVE  OnlyCall(p) /\ pc'[p] = where /\ job'[p] = j
BY DEF Inv, Types, OnlyCall

\* A call takes a buffer of the pool for its record.
LEMMA TakeBuffer ==
    ASSUME Inv, NEW p \in Proc, NEW b \in bufPool, bufPool' = bufPool \ {b},
           OnlyCall(p), job[p].buf = NoBuf, job'[p].buf = b, job'[p].new = {},
           content' \in [Buf -> Contents], DOMAIN expect' = Buf,
           \A c \in Buf : c # b => content'[c] = content[c] /\ expect'[c] = expect[c],
           CallOK(p)', UNCHANGED loggers, UNCHANGED queue, UNCHANGED closed
    PROVE  Inv'
<1>1. /\ UNCHANGED fieldData /\ UNCHANGED fieldCount /\ UNCHANGED logPool /\ UNCHANGED held
      /\ UNCHANGED handlers /\ UNCHANGED given
    BY DEF loggers, promised
<1>2. /\ Types /\ LoggersApart /\ BuffersApart /\ PoolEmpty /\ (\A m \in Log : LoggerKeeps(m))
      /\ (\A q \in Proc : CallOK(q)) /\ (\A c \in Range(queue) : RecordFaithful(c))
    BY DEF Inv
<1>3. b \in Buf /\ \A q \in Proc : q # p => pc'[q] = pc[q] /\ job'[q] = job[q]
    BY <1>2 DEF Types, OnlyCall
<1>4. /\ b \notin Range(queue) /\ (\A m \in Log : fieldData[m] # b)
      /\ \A q \in Proc : job[q].buf # b
    BY <1>2 DEF BuffersApart
<1>5. Types'
  <2>1. pc' \in [Proc -> {"idle", "copy", "fields", "panic"}] /\ DOMAIN job' = Proc BY DEF OnlyCall
  <2> QED BY <1>1, <1>2, <2>1 DEF Types
<1>6. LoggersApart'
  <2>1. \A q \in Proc : job'[q].new \cap (logPool' \cup held') = {} BY <1>1, <1>2, <1>3 DEF LoggersApart
  <2>2. \A q, r \in Proc : q # r => job'[q].new \cap job'[r].new = {} BY <1>2, <1>3 DEF LoggersApart
  <2> QED BY <1>1, <1>2, <2>1, <2>2 DEF LoggersApart
<1>7. BuffersApart'
  <2>1. bufPool' \cap Range(queue') = {} /\ \A m \in Log : fieldData'[m] \notin bufPool' \cup Range(queue')
      BY <1>1, <1>2 DEF BuffersApart
  <2>2. \A q \in Proc : job'[q].buf \notin bufPool' \cup Range(queue')
      BY <1>2, <1>3, <1>4 DEF BuffersApart
  <2>3. \A q \in Proc, m \in Log : job'[q].buf # fieldData'[m] \/ job'[q].buf = NoBuf
      BY <1>1, <1>2, <1>3, <1>4 DEF BuffersApart
  <2>4. \A q, r \in Proc : q # r => job'[q].buf # job'[r].buf \/ job'[q].buf = NoBuf
      BY <1>2, <1>3, <1>4 DEF BuffersApart
  <2> QED BY <1>1, <1>2, <2>1, <2>2, <2>3, <2>4 DEF BuffersApart
<1>8. PoolEmpty' BY <1>2 DEF PoolEmpty, Types
<1>9. ASSUME NEW m \in Log PROVE LoggerKeeps(m)'
  <2>1. LoggerKeeps(m) BY <1>2
  <2>2. fieldData[m] # NoBuf => content'[fieldData[m]] = content[fieldData[m]]
      BY <1>2, <1>4 DEF Types
  <2> QED BY <1>1, <2>1, <2>2, LoggerFrame
<1>10. ASSUME NEW q \in Proc PROVE CallOK(q)'
  <2>1. CASE q = p BY <2>1
  <2>2. CASE q # p
    <3>1. CallOK(q) /\ pc'[q] = pc[q] /\ job'[q] = job[q] /\ job[q].buf # b BY <1>2, <1>3, <1>4, <2>2
    <3> QED BY <1>1, <3>1, CallFrame
  <2> QED BY <2>1, <2>2
<1>11. ASSUME NEW c \in Range(queue)' PROVE RecordFaithful(c)'
  <2>1. c \in Range(queue) /\ c \in Buf BY <1>2 DEF Range, Types
  <2>2. content'[c] = content[c] /\ expect'[c] = expect[c] BY <1>4, <2>1
  <2> QED BY <1>2, <2>1, <2>2 DEF RecordFaithful
<1> QED BY <1>5, <1>6, <1>7, <1>8, <1>9, <1>10, <1>11 DEF Inv

LEMMA BeginInv ==
    ASSUME Inv, NEW p \in Proc, NEW l \in Log, pc[p] \in {"idle", "panic"},
           NEW tail \in Seq(FieldPiece), NEW fields, NEW exact,
           exact => fields \in Seq(FieldPiece) /\ Agree(tail, fields),
           Begin(p, l, tail, Byte(Keys(tail)), fields, exact)
    PROVE  Inv'
<1> DEFINE b == SomeBuf
           n == Byte(Keys(tail))
           j == [NoJob EXCEPT !.logger = {l}, !.buf = b, !.data = fieldData[l],
                              !.count = fieldCount[l], !.tail = tail, !.n = n]
           x == [map |-> 3, pieces |-> Base]
           e == Record(Base, dropped[l], given[l] \o fields, exact)
<1>1. Types /\ PoolEmpty /\ CallOK(p) BY DEF Inv
<1>2. /\ l \in held /\ b \in bufPool /\ bufPool' = bufPool \ {b}
      /\ content' = [content EXCEPT ![b] = [map |-> Byte(content[b].map + 3),
                                            pieces |-> content[b].pieces \o Base]]
      /\ pc' = [pc EXCEPT ![p] = "fields"] /\ job' = [job EXCEPT ![p] = j]
      /\ expect' = [expect EXCEPT ![b] = e]
      /\ UNCHANGED loggers /\ UNCHANGED queue /\ UNCHANGED closed
    BY DEF Begin, Start, SomeBuf
<1>3. /\ j.logger = {l} /\ j.buf = b /\ j.data = fieldData[l] /\ j.count = fieldCount[l]
      /\ j.tail = tail /\ j.n = n /\ j.new = {}
    BY DEF NoJob
<1> HIDE DEF b, j, n
<1>4. job[p].buf = NoBuf
  <2>1. CASE pc[p] = "idle" BY <1>1, <2>1, IdleHasNothing
  <2>2. CASE pc[p] = "panic" BY <1>1, <2>2 DEF CallOK, Panicking
  <2> QED BY <2>1, <2>2
<1>5. content' = [content EXCEPT ![b] = x] /\ x \in Contents
  <2>1. content[b].map = 0 /\ content[b].pieces = <<>> BY <1>1, <1>2 DEF PoolEmpty, Empty
  <2>2. Byte(0 + 3) = 3 BY ByteSmall
  <2>3. <<>> \o Base = Base /\ Base \in Seq(FieldPiece) /\ 3 \in 0..255 BY BaseCounted, ConcatEmpty
  <2>4. x \in Contents BY <2>3 DEF Contents
  <2> QED BY <1>2, <2>1, <2>2, <2>3, <2>4
<1>6. Promised(e, Base, given[l], tail)
  <2>1. e.base = Base /\ e.rest = given[l] \o fields /\ e.exact = exact BY DEF Record
  <2> HIDE DEF e
  <2> QED BY <2>1 DEF Promised
<1> HIDE DEF x, e
<1>7. /\ content' \in [Buf -> Contents] /\ DOMAIN expect' = Buf
      /\ content'[b] = x /\ expect'[b] = e /\ b \in Buf
      /\ \A c \in Buf : c # b => content'[c] = content[c] /\ expect'[c] = expect[c]
    BY <1>1, <1>2, <1>5 DEF Types
<1>8. OnlyCall(p) /\ pc'[p] = "fields" /\ job'[p] = j
  <2>1. "fields" \in {"idle", "copy", "fields", "panic"} OBVIOUS
  <2> QED BY <1>2, <2>1, CallStarts
<1>9. CallOK(p)'
  <2>1. pc'[p] = "fields" /\ job'[p] = j BY <1>8
  <2>2. UNCHANGED fieldData /\ UNCHANGED fieldCount /\ UNCHANGED given /\ UNCHANGED held
      BY <1>2 DEF loggers, promised
  <2>3. LoggingOf(p, l)'
    <3>1. Promised(expect[job[p].buf], Base, given[l], job[p].tail)' BY <1>3, <1>6, <1>7, <2>1, <2>2
    <3> QED BY <1>3, <1>7, <2>1, <2>2, <3>1 DEF LoggingOf, x
  <2>4. CallFields(job[p])' BY <1>3, <2>1 DEF CallFields, n
  <2>5. Logging(p)' BY <1>2, <1>3, <1>7, <2>1, <2>2, <2>3, <2>4 DEF Logging
  <2> QED BY <2>1, <2>5 DEF CallOK
<1>10. job'[p].buf = b /\ job'[p].new = {} BY <1>3, <1>8
<1> QED BY <1>2, <1>4, <1>7, <1>8, <1>9, <1>10, TakeBuffer

\* Fields of a call, with a stack trace behind them.
LEMMA WithTrace ==
    ASSUME NEW out \in Seq(FieldPiece), NEW sev, NEW n, n = Byte(Keys(out))
    PROVE  /\ out \o StackTrace(sev) \in Seq(FieldPiece)
           /\ Byte(n + Len(StackTrace(sev))) = Byte(Keys(out \o StackTrace(sev)))
<1> DEFINE t == StackTrace(sev)
<1>1. t \in Seq(FieldPiece) /\ Keys(t) = Len(t) /\ Len(t) \in Nat BY TraceCounted
<1> HIDE DEF t
<1>2. Keys(out \o t) = Keys(out) + Len(t) /\ Keys(out) \in Nat BY <1>1, KeysConcat, KeysType
<1>3. Byte(n + Len(t)) = Byte(Keys(out \o t)) BY <1>1, <1>2, ByteAdd
<1>4. out \o t \in Seq(FieldPiece) BY <1>1
<1> QED BY <1>3, <1>4 DEF t

LEMMA LogMessageInv == ASSUME Inv, NEW p \in Proc, NEW l \in Log, LogMessage(p, l) PROVE Inv'
<1> DEFINE K(m) == countFmtArgs(Format(m.format))
           A(m) == appendArgs(SubSeq(m.args, K(m) + 1, Len(m.args)))
           T(m) == StackTrace(m.sev)
           R(m) == SubSeq(m.args, Wants(m.format) + 1, Len(m.args))
<1>1. PICK m \in Messages :
          /\ pc[p] = "idle" /\ K(m) <= Len(m.args)
          /\ Begin(p, l, A(m).out \o T(m), Byte(A(m).n + Len(T(m))), Fields(R(m)) \o T(m),
                   AllExact(m.format) /\ Paired(R(m)))
    BY DEF LogMessage
<1>2. m.format \in Seq(FormatDirective) /\ m.args \in Seq(CallArgument) BY <1>1, LoggerAssumption
<1>3. K(m) \in Nat /\ (AllExact(m.format) => K(m) = Wants(m.format)) BY <1>2, CountAgreesWithFmt
<1> DEFINE args == SubSeq(m.args, K(m) + 1, Len(m.args))
           exact == AllExact(m.format) /\ Paired(R(m))
           out == appendArgs(args).out
           tail == out \o T(m)
           fields == Fields(R(m)) \o T(m)
<1>4. args \in Seq(CallArgument)
  <2> HIDE DEF K
  <2> QED BY <1>1, <1>2, <1>3
<1>5. out \in Seq(FieldPiece) /\ appendArgs(args).n = Byte(Keys(out)) BY <1>4, ArgsCounted
<1>6. ASSUME exact PROVE fields = tail
  <2>1. R(m) = args BY <1>3, <1>6
  <2>2. Paired(args) BY <1>6, <2>1
  <2> HIDE DEF args
  <2>3. Fields(args) = appendArgs(args).out BY <1>4, <2>2, FieldsOfArgs
  <2> QED BY <2>1, <2>3
<1>7. tail \in Seq(FieldPiece) /\ Byte(A(m).n + Len(T(m))) = Byte(Keys(tail)) BY <1>5, WithTrace
<1>8. Begin(p, l, tail, Byte(Keys(tail)), fields, exact) BY <1>1, <1>7
<1>9. pc[p] \in {"idle", "panic"} BY <1>1
<1> HIDE DEF tail, fields, exact
<1>10. exact => fields \in Seq(FieldPiece) /\ Agree(tail, fields) BY <1>6, <1>7, AgreeSame
<1> QED BY <1>7, <1>8, <1>9, <1>10, BeginInv

LEMMA HandleInv == ASSUME Inv, NEW p \in Proc, NEW l \in Log, Handle(p, l) PROVE Inv'
<1>1. PICK rec \in SlogRecords :
          LET added == appendSlogAttrs(rec.attrs)
              trace == StackTrace(Level[rec.level]) IN
          Begin(p, l, added.out \o trace, Byte(added.n + Len(trace)), Attributes(rec.attrs) \o trace,
                TRUE)
    BY DEF Handle
<1>2. rec.attrs \in Seq(SlogAttr) BY LoggerAssumption
<1> DEFINE added == appendSlogAttrs(rec.attrs)
           trace == StackTrace(Level[rec.level])
           tail == added.out \o trace
           fields == Attributes(rec.attrs) \o trace
<1>3. added.out \in Seq(FieldPiece) /\ added.n = Byte(Keys(added.out)) BY <1>2, AttrsCounted
<1>4. tail \in Seq(FieldPiece) /\ Byte(added.n + Len(trace)) = Byte(Keys(tail))
    BY <1>3, WithTrace
<1>5. Begin(p, l, tail, Byte(Keys(tail)), fields, TRUE) BY <1>1, <1>4
<1>6. pc[p] \in {"idle", "panic"} BY DEF Handle
<1>7. fields \in Seq(FieldPiece) /\ Agree(tail, fields)
  <2>1. Attributes(rec.attrs) \in Seq(FieldPiece) /\ Agree(added.out, Attributes(rec.attrs))
      BY AttrsAgree
  <2>2. trace \in Seq(FieldPiece) /\ Agree(trace, trace) BY TraceCounted, AgreeSame
  <2> HIDE DEF added, trace
  <2>3. fields \in Seq(FieldPiece) BY <2>1, <2>2
  <2> QED BY <1>3, <2>1, <2>2, <2>3, AgreeConcat
<1> HIDE DEF tail, fields
<1> QED BY <1>4, <1>5, <1>6, <1>7, BeginInv

LEMMA MetricsInv == ASSUME Inv, NEW p \in Proc, Metrics(p) PROVE Inv'
<1>1. PICK m \in Messages :
          /\ pc[p] = "idle" /\ bufPool # {} /\ bufPool' = bufPool \ {SomeBuf}
          /\ Start(p, "fields", [NoJob EXCEPT !.buf = SomeBuf, !.tail = appendArgs(m.args).out,
                                              !.n = appendArgs(m.args).n])
          /\ expect' = [expect EXCEPT ![SomeBuf] = Record(<<>>, <<>>, Fields(m.args), Paired(m.args))]
          /\ UNCHANGED <<loggers, content, queue, closed>>
    BY DEF Metrics
<1> DEFINE b == SomeBuf
           tail == appendArgs(m.args).out
           n == appendArgs(m.args).n
           j == [NoJob EXCEPT !.buf = b, !.tail = tail, !.n = n]
           e == Record(<<>>, <<>>, Fields(m.args), Paired(m.args))
<1>2. m.args \in Seq(CallArgument) BY LoggerAssumption
<1>3. tail \in Seq(FieldPiece) /\ n = Byte(Keys(tail)) /\ Promised(e, <<>>, <<>>, tail)
  <2>1. tail \in Seq(FieldPiece) /\ n = Byte(Keys(tail)) BY <1>2, ArgsCounted
  <2>2. Paired(m.args) => Fields(m.args) = tail BY <1>2, FieldsOfArgs
  <2>3. e.base = <<>> /\ e.rest = Fields(m.args) /\ e.exact = Paired(m.args) BY DEF Record
  <2> HIDE DEF tail, n, e
  <2>4. tail = <<>> \o tail /\ Agree(tail, tail) BY <2>1, ConcatEmpty, AgreeSame
  <2> QED BY <2>1, <2>2, <2>3, <2>4 DEF Promised
<1>4. /\ b \in bufPool /\ bufPool' = bufPool \ {b}
      /\ pc' = [pc EXCEPT ![p] = "fields"] /\ job' = [job EXCEPT ![p] = j]
      /\ expect' = [expect EXCEPT ![b] = e]
      /\ UNCHANGED loggers /\ UNCHANGED content /\ UNCHANGED queue /\ UNCHANGED closed
    BY <1>1 DEF Start, SomeBuf
<1>5. /\ j.logger = {} /\ j.buf = b /\ j.count = 0 /\ j.tail = tail /\ j.n = n /\ j.new = {}
    BY DEF NoJob
<1> HIDE DEF b, tail, n, j, e
<1>6. Types /\ PoolEmpty /\ CallOK(p) BY DEF Inv
<1>7. job[p].buf = NoBuf BY <1>1, <1>6, IdleHasNothing
<1>8. /\ content' \in [Buf -> Contents] /\ DOMAIN expect' = Buf
      /\ content'[b] = Empty /\ expect'[b] = e /\ b \in Buf
      /\ \A c \in Buf : c # b => content'[c] = content[c] /\ expect'[c] = expect[c]
    BY <1>4, <1>6 DEF Types, PoolEmpty
<1>9. OnlyCall(p) /\ pc'[p] = "fields" /\ job'[p] = j
  <2>1. "fields" \in {"idle", "copy", "fields", "panic"} OBVIOUS
  <2> QED BY <1>4, <2>1, CallStarts
<1>10. CallOK(p)'
  <2>1. pc'[p] = "fields" /\ job'[p] = j BY <1>9
  <2>2. Measuring(p)'
    <3>1. Promised(expect[job[p].buf], <<>>, <<>>, job[p].tail)' BY <1>3, <1>5, <1>8, <2>1
    <3> QED BY <1>5, <1>8, <2>1, <3>1 DEF Measuring
  <2>3. CallFields(job[p])' BY <1>3, <1>5, <2>1 DEF CallFields
  <2>4. Logging(p)' BY <1>5, <1>8, <2>1, <2>2, <2>3 DEF Logging
  <2> QED BY <2>1, <2>4 DEF CallOK
<1> QED BY <1>4, <1>5, <1>7, <1>8, <1>10, <1>9, TakeBuffer

\* A call changes its state only, and has no buffer.
LEMMA CallMoves ==
    ASSUME Inv, NEW p \in Proc, OnlyCall(p), job'[p].buf = NoBuf, job'[p].new = {}, CallOK(p)',
           UNCHANGED <<loggers, bufPool, content, queue, closed, expect>>
    PROVE  Inv'
<1>1. /\ UNCHANGED fieldData /\ UNCHANGED fieldCount /\ UNCHANGED logPool /\ UNCHANGED held
      /\ UNCHANGED handlers /\ UNCHANGED given /\ UNCHANGED bufPool /\ UNCHANGED content
      /\ UNCHANGED queue /\ UNCHANGED closed /\ UNCHANGED expect
    BY DEF loggers, promised
<1>2. /\ Types /\ LoggersApart /\ BuffersApart /\ PoolEmpty /\ (\A m \in Log : LoggerKeeps(m))
      /\ (\A q \in Proc : CallOK(q)) /\ (\A c \in Range(queue) : RecordFaithful(c))
    BY DEF Inv
<1>3. \A q \in Proc : q # p => pc'[q] = pc[q] /\ job'[q] = job[q] BY DEF OnlyCall
<1>4. Types'
  <2>1. pc' \in [Proc -> {"idle", "copy", "fields", "panic"}] /\ DOMAIN job' = Proc BY DEF OnlyCall
  <2> QED BY <1>1, <1>2, <2>1 DEF Types
<1>5. LoggersApart' BY <1>1, <1>2, <1>3 DEF LoggersApart
<1>6. BuffersApart'
  <2>1. NoBuf \notin bufPool \cup Range(queue)
    <3>1. \A i \in 1..Len(queue) : queue[i] \in Buf BY <1>2 DEF Types
    <3>2. NoBuf \notin Range(queue) BY <1>2, <3>1, LoggerAssumption DEF Range, Types
    <3> QED BY <1>2, <3>2, LoggerAssumption DEF Types
  <2>2. \A q \in Proc : job'[q].buf = NoBuf \/ (q # p /\ job'[q].buf = job[q].buf) BY <1>3
  <2>3. \A q \in Proc : job'[q].buf \notin bufPool' \cup Range(queue')
      BY <1>1, <1>2, <2>1, <2>2 DEF BuffersApart
  <2>4. \A q \in Proc, m \in Log : job'[q].buf # fieldData'[m] \/ job'[q].buf = NoBuf
      BY <1>1, <1>2, <2>2 DEF BuffersApart
  <2>5. \A q, r \in Proc : q # r => job'[q].buf # job'[r].buf \/ job'[q].buf = NoBuf
      BY <1>2, <2>2 DEF BuffersApart
  <2> QED BY <1>1, <1>2, <2>3, <2>4, <2>5 DEF BuffersApart
<1>7. PoolEmpty' BY <1>1, <1>2 DEF PoolEmpty
<1>8. ASSUME NEW m \in Log PROVE LoggerKeeps(m)' BY <1>1, <1>2, LoggerFrame
<1>9. ASSUME NEW q \in Proc PROVE CallOK(q)'
  <2>1. CASE q = p BY <2>1
  <2>2. CASE q # p
    <3>1. CallOK(q) /\ pc'[q] = pc[q] /\ job'[q] = job[q] BY <1>2, <1>3, <2>2
    <3> QED BY <1>1, <3>1, CallFrame
  <2> QED BY <2>1, <2>2
<1>10. \A c \in Range(queue)' : RecordFaithful(c)' BY <1>1, <1>2 DEF RecordFaithful
<1> QED BY <1>4, <1>5, <1>6, <1>7, <1>8, <1>9, <1>10 DEF Inv

LEMMA LogPanicsInv == ASSUME Inv, NEW p \in Proc, NEW l \in Log, LogPanics(p, l) PROVE Inv'
<1>1. PICK m \in Messages :
          /\ countFmtArgs(Format(m.format)) > Len(m.args)
          /\ Start(p, "panic", [NoJob EXCEPT !.logger = {l}, !.n = Len(m.args), !.format = m.format])
    BY DEF LogPanics
<1> DEFINE j == [NoJob EXCEPT !.logger = {l}, !.n = Len(m.args), !.format = m.format]
<1>2. m.format \in Seq(FormatDirective) /\ Len(m.args) \in Nat
  <2>1. m.args \in Seq(CallArgument) BY LoggerAssumption
  <2> QED BY <2>1, LoggerAssumption
<1>3. Len(m.args) < Wants(m.format) \/ ~NoneHidden(m.format)
  <2>1. /\ countFmtArgs(Format(m.format)) \in Nat /\ Wants(m.format) \in Nat
        /\ NoneHidden(m.format) => countFmtArgs(Format(m.format)) <= Wants(m.format)
      BY <1>2, CountAgreesWithFmt
  <2> QED BY <1>1, <1>2, <2>1
<1>4. /\ j.logger = {l} /\ j.n = Len(m.args) /\ j.format = m.format /\ j.buf = NoBuf
      /\ j.new = {} /\ j.count = 0
    BY DEF NoJob
<1>5. pc' = [pc EXCEPT ![p] = "panic"] /\ job' = [job EXCEPT ![p] = j] BY <1>1 DEF Start
<1> HIDE DEF j
<1>6. UNCHANGED <<loggers, bufPool, content, queue, closed, expect>> /\ l \in held /\ UNCHANGED held
    BY DEF LogPanics, loggers
<1>7. OnlyCall(p) /\ pc'[p] = "panic" /\ job'[p] = j
  <2>1. "panic" \in {"idle", "copy", "fields", "panic"} OBVIOUS
  <2> QED BY <1>5, <2>1, CallStarts
<1>8. CallOK(p)'
  <2>1. pc'[p] = "panic" /\ job'[p] = j BY <1>7
  <2>2. Panicking(p)' BY <1>2, <1>3, <1>4, <1>6, <2>1 DEF Panicking
  <2> QED BY <2>1, <2>2 DEF CallOK
<1> QED BY <1>4, <1>5, <1>6, <1>8, <1>7, CallMoves

LEMMA RecoverInv == ASSUME Inv, NEW p \in Proc, NEW l \in Log, Recover(p, l) PROVE Inv'
<1> DEFINE trace == StackTrace(CRIT)
<1>1. pc[p] \in {"idle", "panic"} BY DEF Recover
<1>2. \/ Begin(p, l, trace, Len(trace), trace, TRUE)
      \/ Finish(p) /\ UNCHANGED <<loggers, bufPool, content, queue, closed, expect>>
    BY DEF Recover
<1>3. CASE Begin(p, l, trace, Len(trace), trace, TRUE)
  <2>1. trace \in Seq(FieldPiece) /\ Keys(trace) = Len(trace) /\ Len(trace) \in 0..1 BY TraceCounted
  <2> HIDE DEF trace
  <2>2. Len(trace) \in 0..255
    <3>1. \A n \in 0..1 : n \in 0..255 OBVIOUS
    <3> QED BY <2>1, <3>1
  <2>3. Byte(Keys(trace)) = Len(trace) BY <2>1, <2>2, ByteSmall
  <2>4. Begin(p, l, trace, Byte(Keys(trace)), trace, TRUE) BY <1>3, <2>3
  <2>5. Agree(trace, trace) BY AgreeSame
  <2> QED BY <1>1, <2>1, <2>4, <2>5, BeginInv
<1>4. CASE Finish(p) /\ UNCHANGED <<loggers, bufPool, content, queue, closed, expect>>
  <2>1. pc' = [pc EXCEPT ![p] = "idle"] /\ job' = [job EXCEPT ![p] = NoJob] BY <1>4 DEF Finish
  <2>2. NoJob.buf = NoBuf /\ NoJob.new = {} BY DEF NoJob
  <2>3. OnlyCall(p) /\ pc'[p] = "idle" /\ job'[p] = NoJob
    <3>1. "idle" \in {"idle", "copy", "fields", "panic"} OBVIOUS
    <3> QED BY <2>1, <3>1, CallStarts
  <2>4. CallOK(p)' BY <2>3 DEF CallOK
  <2> QED BY <1>4, <2>1, <2>2, <2>3, <2>4, CallMoves
<1> QED BY <1>2, <1>3, <1>4

-----------------------------------------------------------------------------
(* Completing a record, and sending it *)

\* The fields that LogFields appends for the logger: those it has, unless their
\* number has wrapped to none.
Extra(j) == IF j.count > 0 THEN content[j.data].pieces ELSE <<>>

LEMMA ExtraFields ==
    ASSUME Inv, NEW p \in Proc, NEW l \in held, LoggingOf(p, l)
    PROVE  /\ Has(l) \in Seq(FieldPiece) /\ given[l] \in Seq(FieldPiece) /\ Agree(Has(l), given[l])
           /\ Extra(job[p]) \in Seq(FieldPiece) /\ job[p].count = Byte(Keys(Extra(job[p])))
           /\ job[p].count > 0 => job[p].data # NoBuf
           /\ Keys(Has(l)) <= 255 => Extra(job[p]) = Has(l)
<1> DEFINE h == Has(l)
           c == job[p].count
<1>1. l \in Log /\ LoggerKeeps(l) /\ h \in Seq(FieldPiece) /\ given[l] \in Seq(FieldPiece)
    BY HasType DEF Inv, Types
<1>2. c = fieldCount[l] /\ job[p].data = fieldData[l] BY DEF LoggingOf
<1>3. c = Byte(Keys(h)) /\ Keys(h) \in Nat /\ Agree(h, given[l]) BY <1>1, <1>2, KeysType DEF LoggerKeeps
<1>4. ASSUME c > 0 PROVE fieldData[l] # NoBuf /\ Extra(job[p]) = h
  <2>1. fieldData[l] # NoBuf
    <3>1. SUFFICES ASSUME fieldData[l] = NoBuf PROVE FALSE OBVIOUS
    <3>2. h = <<>> BY <3>1 DEF Has
    <3>3. c = 0 BY <1>3, <3>2, KeysEmpty, ByteSmall
    <3> HIDE DEF c
    <3> QED BY <1>4, <3>3
  <2>2. h = content[fieldData[l]].pieces BY <2>1 DEF Has
  <2> QED BY <1>2, <1>4, <2>1, <2>2 DEF Extra
<1>5. ASSUME ~(c > 0) PROVE Extra(job[p]) = <<>> BY <1>5 DEF Extra
<1>6. <<>> \in Seq(FieldPiece) OBVIOUS
<1>7. ASSUME ~(c > 0) PROVE c = 0
  <2>1. c \in Nat BY <1>3, ByteType
  <2> HIDE DEF c
  <2> QED BY <1>7, <2>1
<1>8. ASSUME ~(c > 0), Keys(h) <= 255 PROVE h = <<>>
  <2>1. Keys(h) \in 0..255 BY <1>3, <1>8
  <2>2. c = Keys(h) BY <1>3, <2>1, ByteSmall
  <2>3. Keys(h) = 0 BY <1>7, <1>8, <2>2
  <2> QED BY <1>1, <2>3, KeysZero
<1>9. c = Byte(Keys(Extra(job[p])))
  <2>1. CASE c > 0 BY <1>3, <1>4, <2>1
  <2>2. CASE ~(c > 0)
    <3>1. Byte(Keys(<<>>)) = 0 BY KeysEmpty, ByteSmall
    <3> QED BY <1>5, <1>7, <2>2, <3>1
  <2> QED BY <2>1, <2>2
<1> HIDE DEF h, c
<1>10. Extra(job[p]) \in Seq(FieldPiece) BY <1>1, <1>4, <1>5, <1>6
<1>11. Keys(h) <= 255 => Extra(job[p]) = h BY <1>4, <1>5, <1>8
<1>12. c > 0 => job[p].data # NoBuf BY <1>2, <1>4
<1> QED BY <1>1, <1>3, <1>9, <1>10, <1>11, <1>12 DEF h, c

\* The record as it is queued.
Completed(j) ==
    [map |-> Byte(content[j.buf].map + j.count + j.n),
     pieces |-> content[j.buf].pieces \o Extra(j) \o j.tail]

LEMMA SmallSum ==
    ASSUME NEW k \in Nat, NEW m \in Nat, NEW n \in Nat
    PROVE  /\ k + m \in Nat /\ k + m + n \in Nat
           /\ k + m + n <= 255 => m <= 255
OBVIOUS

LEMMA ByteSum ==
    ASSUME NEW k \in Nat, NEW m \in Nat, NEW n \in Nat
    PROVE  /\ Byte(k + Byte(m) + Byte(n)) = Byte(k + m + n)
           /\ Byte(k + m + n) \in 0..255
<1>1. Byte(m) \in Nat /\ Byte(n) \in Nat BY ByteType
<1>2. k + Byte(m) \in Nat /\ k + m \in Nat /\ k + m + n \in Nat BY <1>1, SmallSum
<1>3. Byte(k + Byte(m)) = Byte(k + m) BY ByteAdd
<1>4. /\ Byte((k + Byte(m)) + Byte(n)) = Byte((k + Byte(m)) + n)
      /\ Byte((k + Byte(m)) + n) = Byte(Byte(k + Byte(m)) + n)
      /\ Byte(Byte(k + m) + n) = Byte((k + m) + n)
    BY <1>1, <1>2, ByteAdd
<1>5. Byte(k + m + n) \in 0..255 BY <1>2, ByteType
<1> QED BY <1>3, <1>4, <1>5

LEMMA CompletedFaithful ==
    ASSUME Inv, NEW p \in Proc, pc[p] = "fields"
    PROVE  Completed(job[p]) \in Contents /\ Faithful(Completed(job[p]), expect[job[p].buf])
<1> DEFINE j == job[p]
           b == j.buf
           t == j.tail
           x == Completed(j)
           e == expect[b]
<1>1. Logging(p) /\ Types BY DEF Inv, CallOK
<1>2. t \in Seq(FieldPiece) /\ j.n = Byte(Keys(t)) /\ Keys(t) \in Nat /\ b \in Buf
    BY <1>1, KeysType DEF Logging, CallFields
<1>3. x.map = Byte(content[b].map + j.count + j.n) /\ x.pieces = content[b].pieces \o Extra(j) \o t
    BY DEF Completed
<1>4. ASSUME x.map \in 0..255, x.pieces \in Seq(FieldPiece) PROVE x \in Contents
  <2>1. x = [map |-> x.map, pieces |-> x.pieces] BY DEF Completed
  <2> HIDE DEF x
  <2> QED BY <1>4, <2>1 DEF Contents
<1>5. ASSUME Measuring(p) PROVE x \in Contents /\ Faithful(x, e)
  <2>1. /\ content[b].map = 0 /\ content[b].pieces = <<>> /\ j.count = 0
        /\ Promised(e, <<>>, <<>>, t)
      BY <1>5 DEF Measuring, Empty
  <2>2. Extra(j) = <<>> BY <2>1 DEF Extra
  <2>3. <<>> \o <<>> \o t = t BY <1>2, ConcatEmpty
  <2>4. Byte(Keys(t)) \in 0..255 BY <1>2, ByteType
  <2>5. 0 + 0 + j.n = Byte(Keys(t))
    <3>1. j.n \in Nat BY <1>2, ByteType
    <3> QED BY <1>2, <3>1
  <2>6. x.pieces = t /\ x.map = Byte(Byte(Keys(t))) BY <1>3, <2>1, <2>2, <2>3, <2>5
  <2>7. x.map = Byte(Keys(t)) BY <2>4, <2>6, ByteSmall
  <2> HIDE DEF x, j, b, t, e
  <2>8. x \in Contents BY <1>2, <1>4, <2>4, <2>6, <2>7
  <2>9. e.base = <<>> /\ <<>> \in Seq(FieldPiece) BY <2>1 DEF Promised
  <2>10. ASSUME e.exact PROVE Agree(x.pieces, e.base \o e.rest)
    <3>1. PICK f \in Seq(FieldPiece) : e.rest = <<>> \o f /\ Agree(t, f) BY <2>1, <2>10 DEF Promised
    <3>2. e.base \o e.rest = f BY <2>9, <3>1, ConcatEmpty
    <3> QED BY <2>6, <3>1, <3>2
  <2> QED BY <2>6, <2>7, <2>8, <2>9, <2>10 DEF Faithful
<1>6. ASSUME NEW l \in held, LoggingOf(p, l) PROVE x \in Contents /\ Faithful(x, e)
  <2> DEFINE h == Has(l)
             g == given[l]
             y == Extra(j)
  <2>1. /\ content[b].map = 3 /\ content[b].pieces = Base
        /\ Promised(e, Base, g, t)
      BY <1>6 DEF LoggingOf
  <2>2. /\ h \in Seq(FieldPiece) /\ g \in Seq(FieldPiece) /\ Agree(h, g) /\ y \in Seq(FieldPiece)
        /\ j.count = Byte(Keys(y)) /\ (Keys(h) <= 255 => y = h)
      BY <1>6, ExtraFields
  <2>3. Base \in Seq(FieldPiece) /\ Keys(Base) = 3 BY BaseCounted
  <2>4. x.map = Byte(3 + j.count + j.n) /\ x.pieces = Base \o y \o t BY <1>3, <2>1
  <2> HIDE DEF j, b, t, x, e, g, h, y
  <2>5. Keys(y) \in Nat /\ Keys(g) \in Nat /\ Keys(h) = Keys(g) BY <2>2, KeysType, AgreeKeys
  <2>6. Base \o y \in Seq(FieldPiece) /\ Base \o y \o t \in Seq(FieldPiece)
    <3>1. Base \o y \in Seq(FieldPiece) BY <2>2, <2>3
    <3> QED BY <1>2, <3>1
  <2>7. Keys(Base \o y \o t) = 3 + Keys(y) + Keys(t)
    <3>1. Keys(Base \o y) = 3 + Keys(y) BY <2>2, <2>3, KeysConcat
    <3> QED BY <1>2, <2>6, <3>1, KeysConcat
  <2>8. x.map = Byte(Keys(x.pieces)) /\ x.map \in 0..255
    <3>1. 3 \in Nat OBVIOUS
    <3>2. /\ Byte(3 + Byte(Keys(y)) + Byte(Keys(t))) = Byte(3 + Keys(y) + Keys(t))
          /\ Byte(3 + Keys(y) + Keys(t)) \in 0..255
        BY <1>2, <2>5, <3>1, ByteSum
    <3> QED BY <1>2, <2>2, <2>4, <2>7, <3>2
  <2>9. x \in Contents BY <1>4, <2>4, <2>6, <2>8
  <2>10. e.base = Base BY <2>1 DEF Promised
  <2>11. ASSUME e.exact, Keys(e.base \o e.rest) <= 255 PROVE Agree(x.pieces, e.base \o e.rest)
    <3>1. PICK f \in Seq(FieldPiece) : e.rest = g \o f /\ Agree(t, f) BY <2>1, <2>11 DEF Promised
    <3>2. g \o f \in Seq(FieldPiece) /\ Keys(f) \in Nat BY <2>2, <3>1, KeysType
    <3>3. Keys(g \o f) = Keys(g) + Keys(f) BY <2>2, <3>1, KeysConcat
    <3>4. Keys(e.base \o e.rest) = 3 + (Keys(g) + Keys(f)) BY <2>3, <2>10, <3>1, <3>2, <3>3, KeysConcat
    <3>5. Keys(g) <= 255
      <4>1. 3 + (Keys(g) + Keys(f)) <= 255 BY <2>11, <3>4
      <4> QED BY <2>5, <3>2, <4>1
    <3>6. y = h BY <2>2, <2>5, <3>5
    <3>7. Agree(Base \o h, Base \o g) BY <2>2, <2>3, AgreeSame, AgreeConcat
    <3>8. Base \o h \in Seq(FieldPiece) /\ Base \o g \in Seq(FieldPiece) BY <2>2, <2>3
    <3>9. Agree((Base \o h) \o t, (Base \o g) \o f) BY <1>2, <3>1, <3>7, <3>8, AgreeConcat
    <3>10. (Base \o g) \o f = Base \o (g \o f)
      <4>1. Base \in Seq(FieldPiece) /\ g \in Seq(FieldPiece) /\ f \in Seq(FieldPiece) BY <2>2, <2>3
      <4> QED BY <4>1, SMT
    <3> QED BY <2>4, <2>10, <3>1, <3>6, <3>9, <3>10
  <2> QED BY <2>3, <2>8, <2>9, <2>10, <2>11 DEF Faithful
<1>7. Measuring(p) \/ \E l \in held : LoggingOf(p, l) BY <1>1 DEF Logging
<1> HIDE DEF x, e
<1>8. x \in Contents /\ Faithful(x, e) BY <1>5, <1>6, <1>7
<1> QED BY <1>8 DEF x, e

LEMMA LogFieldsInv == ASSUME Inv, NEW p \in Proc, LogFields(p) PROVE Inv'
<1> DEFINE b == job[p].buf
           x == Completed(job[p])
<1>1. /\ Types /\ LoggersApart /\ BuffersApart /\ PoolEmpty /\ (\A m \in Log : LoggerKeeps(m))
      /\ (\A q \in Proc : CallOK(q)) /\ (\A c \in Range(queue) : RecordFaithful(c))
    BY DEF Inv
<1>2. /\ pc[p] = "fields" /\ pc' = [pc EXCEPT ![p] = "idle"] /\ job' = [job EXCEPT ![p] = NoJob]
      /\ UNCHANGED fieldData /\ UNCHANGED fieldCount /\ UNCHANGED logPool /\ UNCHANGED held
      /\ UNCHANGED handlers /\ UNCHANGED given /\ UNCHANGED closed
    BY DEF LogFields, Finish, loggers, promised
<1>3. \/ /\ Len(queue) < QueueSize /\ content' = [content EXCEPT ![b] = x]
         /\ queue' = Append(queue, b) /\ UNCHANGED bufPool /\ UNCHANGED expect
      \/ Put(b) /\ UNCHANGED queue
    BY DEF LogFields, Completed, Extra
<1>4. x \in Contents /\ Faithful(x, expect[b]) BY <1>2, CompletedFaithful
<1>5. b \in Buf
  <2>1. Logging(p) BY <1>1, <1>2 DEF CallOK
  <2> QED BY <2>1 DEF Logging
<1> HIDE DEF b, x
<1>6. OnlyCall(p) /\ pc'[p] = "idle" /\ job'[p] = NoJob /\ NoJob.buf = NoBuf /\ NoJob.new = {}
  <2>1. "idle" \in {"idle", "copy", "fields", "panic"} OBVIOUS
  <2>2. NoJob.buf = NoBuf /\ NoJob.new = {} BY DEF NoJob
  <2> QED BY <1>2, <2>1, <2>2, CallStarts
<1>7. /\ b # NoBuf /\ b \notin bufPool /\ b \notin Range(queue) /\ (\A m \in Log : fieldData[m] # b)
      /\ \A q \in Proc : q # p => job[q].buf # b
  <2>1. b # NoBuf BY <1>5, LoggerAssumption
  <2> QED BY <1>1, <2>1 DEF BuffersApart, b
\* The buffer goes to the queue, completed, or to the pool, empty.
<1>8. /\ content' \in [Buf -> Contents] /\ DOMAIN expect' = Buf
      /\ \A c \in Buf : c # b => content'[c] = content[c] /\ expect'[c] = expect[c]
  <2>1. Empty \in Contents
    <3>1. <<>> \in Seq(FieldPiece) /\ 0 \in 0..255 OBVIOUS
    <3> QED BY <3>1 DEF Empty, Contents
  <2> QED BY <1>1, <1>3, <1>4, <1>5, <2>1, ZenonT(30) DEF Types, Put
<1>9. /\ queue' \in Seq(Buf) /\ Len(queue') <= QueueSize /\ bufPool' \subseteq Buf
      /\ bufPool' \cap Range(queue') = {}
      /\ bufPool' \cup Range(queue') = bufPool \cup Range(queue) \cup {b}
      /\ \A i, j \in 1..Len(queue') : queue'[i] = queue'[j] => i = j
      /\ \A c \in bufPool' : c \in bufPool \/ (c = b /\ content'[b] = Empty)
      /\ \A c \in Range(queue') : c \in Range(queue) \/ (c = b /\ content'[b] = x /\ UNCHANGED expect)
  <2>0. queue \in Seq(Buf) /\ Len(queue) \in Nat /\ Len(queue) <= QueueSize BY <1>1 DEF Types
  <2>1. CASE /\ Len(queue) < QueueSize /\ content' = [content EXCEPT ![b] = x]
             /\ queue' = Append(queue, b) /\ UNCHANGED bufPool /\ UNCHANGED expect
    <3>1. Range(queue') = Range(queue) \cup {b} /\ queue' \in Seq(Buf) BY <1>5, <2>0, <2>1, RangeAppend
    <3>2. Len(queue') <= QueueSize BY <2>0, <2>1, LoggerAssumption
    <3>3. content'[b] = x BY <1>1, <1>5, <2>1 DEF Types
    <3>4. ASSUME NEW i \in 1..Len(queue'), NEW j \in 1..Len(queue'), queue'[i] = queue'[j] PROVE i = j
      <4>1. Len(queue') = Len(queue) + 1 /\ queue'[Len(queue) + 1] = b
            /\ \A m \in 1..Len(queue) : queue'[m] = queue[m] /\ queue[m] \in Range(queue)
          BY <1>5, <2>0, <2>1 DEF Range
      <4>2. \A m \in 1..Len(queue') : m \in 1..Len(queue) \/ m = Len(queue) + 1 BY <2>0, <4>1
      <4>3. \A m, n \in 1..Len(queue) : queue[m] = queue[n] => m = n BY <1>1 DEF BuffersApart
      <4>4. i \in 1..Len(queue) \/ i = Len(queue) + 1 BY <4>2
      <4>5. j \in 1..Len(queue) \/ j = Len(queue) + 1 BY <4>2
      <4> QED BY <1>7, <3>4, <4>1, <4>3, <4>4, <4>5
    <3>5. bufPool' = bufPool /\ bufPool \cap Range(queue) = {} /\ bufPool \subseteq Buf
        BY <1>1, <2>1 DEF BuffersApart, Types
    <3>6. bufPool' \cap Range(queue') = {} BY <1>7, <3>1, <3>5
    <3> QED BY <2>1, <3>1, <3>2, <3>3, <3>4, <3>5, <3>6
  <2>2. CASE Put(b) /\ UNCHANGED queue
    <3>1. bufPool' = bufPool \cup {b} /\ content'[b] = Empty /\ queue' = queue
        BY <1>1, <1>5, <2>2 DEF Put, Types
    <3>2. bufPool \cap Range(queue) = {} /\ bufPool \subseteq Buf BY <1>1 DEF BuffersApart, Types
    <3>3. \A i, j \in 1..Len(queue') : queue'[i] = queue'[j] => i = j BY <1>1, <3>1 DEF BuffersApart
    <3> QED BY <1>5, <1>7, <2>0, <3>1, <3>2, <3>3
  <2> QED BY <1>3, <2>1, <2>2
<1>10. Types'
  <2>1. pc' \in [Proc -> {"idle", "copy", "fields", "panic"}] /\ DOMAIN job' = Proc BY <1>6 DEF OnlyCall
  <2> QED BY <1>1, <1>2, <1>8, <1>9, <2>1 DEF Types
<1>11. \A q \in Proc : q # p => pc'[q] = pc[q] /\ job'[q] = job[q] BY <1>6 DEF OnlyCall
<1>12. LoggersApart' BY <1>1, <1>2, <1>6, <1>11 DEF LoggersApart
<1>13. BuffersApart'
  <2>1. NoBuf \notin bufPool \cup Range(queue)
    <3>1. \A i \in 1..Len(queue) : queue[i] \in Buf BY <1>1 DEF Types
    <3>2. NoBuf \notin Range(queue) BY <1>1, <3>1, LoggerAssumption DEF Range, Types
    <3> QED BY <1>1, <3>2, LoggerAssumption DEF Types
  <2>2. \A q \in Proc : job'[q].buf = NoBuf \/ (q # p /\ job'[q].buf = job[q].buf) BY <1>6, <1>11
  <2>3. \A m \in Log : fieldData'[m] \notin bufPool' \cup Range(queue')
      BY <1>1, <1>2, <1>7, <1>9 DEF BuffersApart
  <2>4. \A q \in Proc : job'[q].buf \notin bufPool' \cup Range(queue')
      BY <1>1, <1>7, <1>9, <2>1, <2>2 DEF BuffersApart
  <2>5. \A q \in Proc, m \in Log : job'[q].buf # fieldData'[m] \/ job'[q].buf = NoBuf
      BY <1>1, <1>2, <2>2 DEF BuffersApart
  <2>6. \A q, r \in Proc : q # r => job'[q].buf # job'[r].buf \/ job'[q].buf = NoBuf
      BY <1>1, <2>2 DEF BuffersApart
  <2> QED BY <1>1, <1>2, <1>9, <2>3, <2>4, <2>5, <2>6 DEF BuffersApart
<1>14. PoolEmpty'
  <2>1. ASSUME NEW c \in bufPool' PROVE content'[c] = Empty
    <3>1. CASE c \in bufPool
      <4>1. c \in Buf /\ c # b /\ content[c] = Empty BY <1>1, <1>7, <3>1 DEF Types, PoolEmpty
      <4> QED BY <1>8, <4>1
    <3> QED BY <1>9, <3>1
  <2> QED BY <2>1 DEF PoolEmpty
<1>15. ASSUME NEW m \in Log PROVE LoggerKeeps(m)'
  <2>1. LoggerKeeps(m) BY <1>1
  <2>2. fieldData[m] # NoBuf => content'[fieldData[m]] = content[fieldData[m]]
      BY <1>1, <1>7, <1>8 DEF Types
  <2> QED BY <1>2, <2>1, <2>2, LoggerFrame
<1>16. ASSUME NEW q \in Proc PROVE CallOK(q)'
  <2>1. CASE q = p BY <1>6, <2>1 DEF CallOK
  <2>2. CASE q # p
    <3>1. CallOK(q) /\ pc'[q] = pc[q] /\ job'[q] = job[q] /\ job[q].buf # b BY <1>1, <1>7, <1>11, <2>2
    <3> QED BY <1>2, <1>8, <3>1, CallFrame
  <2> QED BY <2>1, <2>2
<1>17. ASSUME NEW c \in Range(queue)' PROVE RecordFaithful(c)'
  <2>1. CASE c \in Range(queue)
    <3>1. c \in Buf /\ c # b BY <1>1, <1>7, <2>1 DEF Range, Types
    <3>2. content'[c] = content[c] /\ expect'[c] = expect[c] BY <1>8, <3>1
    <3>3. RecordFaithful(c) BY <1>1, <2>1
    <3> QED BY <3>2, <3>3 DEF RecordFaithful
  <2>2. CASE c = b /\ content'[b] = x /\ UNCHANGED expect BY <1>4, <2>2 DEF RecordFaithful
  <2> QED BY <1>9, <1>17, <2>1, <2>2
<1> QED BY <1>10, <1>12, <1>13, <1>14, <1>15, <1>16, <1>17 DEF Inv

LEMMA WorkerSendsInv == ASSUME Inv, WorkerSends PROVE Inv'
<1> DEFINE b == Head(queue)
<1>1. /\ Types /\ LoggersApart /\ BuffersApart /\ PoolEmpty /\ (\A m \in Log : LoggerKeeps(m))
      /\ (\A q \in Proc : CallOK(q)) /\ (\A c \in Range(queue) : RecordFaithful(c))
    BY DEF Inv
<1>2. /\ queue # <<>> /\ queue' = Tail(queue) /\ Put(b) /\ UNCHANGED fieldData /\ UNCHANGED fieldCount
      /\ UNCHANGED logPool /\ UNCHANGED held /\ UNCHANGED handlers /\ UNCHANGED given
      /\ UNCHANGED pc /\ UNCHANGED job /\ UNCHANGED closed
    BY DEF WorkerSends, loggers, promised, calls
<1>3. /\ queue \in Seq(Buf) /\ b \in Buf /\ b = queue[1] /\ queue' \in Seq(Buf)
      /\ Len(queue) = Len(queue') + 1 /\ Len(queue') \in Nat
      /\ \A i \in 1..Len(queue') : queue'[i] = queue[i + 1]
  <2>1. queue \in Seq(Buf) BY <1>1 DEF Types
  <2>2. Tail(queue) \in Seq(Buf) /\ Len(Tail(queue)) \in Nat BY <1>2, <2>1
  <2> QED BY <1>2, <2>1, <2>2, HeadTail
<1> HIDE DEF b
<1>4. \A i, j \in 1..Len(queue) : queue[i] = queue[j] => i = j BY <1>1 DEF BuffersApart
<1>5. b \in Range(queue) /\ Range(queue') \subseteq Range(queue) /\ b \notin Range(queue')
  <2>1. 1 \in 1..Len(queue) /\ \A i \in 1..Len(queue') : i + 1 \in 1..Len(queue) /\ i + 1 # 1 BY <1>3
  <2>2. \A i \in 1..Len(queue') : queue'[i] # b BY <1>3, <1>4, <2>1
  <2>3. DOMAIN queue = 1..Len(queue) /\ DOMAIN queue' = 1..Len(queue') BY <1>3
  <2> QED BY <1>3, <2>1, <2>2, <2>3 DEF Range
<1>6. /\ bufPool' = bufPool \cup {b} /\ content'[b] = Empty
      /\ content' \in [Buf -> Contents] /\ DOMAIN expect' = Buf
      /\ \A c \in Buf : c # b => content'[c] = content[c] /\ expect'[c] = expect[c]
  <2>1. Empty \in Contents
    <3>1. <<>> \in Seq(FieldPiece) /\ 0 \in 0..255 OBVIOUS
    <3> QED BY <3>1 DEF Empty, Contents
  <2> QED BY <1>1, <1>2, <1>3, <2>1 DEF Types, Put
<1>7. (\A m \in Log : fieldData[m] # b) /\ (\A q \in Proc : job[q].buf # b) /\ b \notin bufPool
    BY <1>1, <1>5 DEF BuffersApart
<1>8. Types'
  <2>1. Len(queue') <= QueueSize BY <1>1, <1>3, LoggerAssumption DEF Types
  <2> QED BY <1>1, <1>2, <1>3, <1>6, <2>1 DEF Types
<1>9. LoggersApart' BY <1>1, <1>2 DEF LoggersApart
<1>10. BuffersApart'
  <2>1. bufPool' \cap Range(queue') = {} BY <1>1, <1>5, <1>6 DEF BuffersApart
  <2>2. ASSUME NEW i \in 1..Len(queue'), NEW j \in 1..Len(queue'), queue'[i] = queue'[j] PROVE i = j
    <3>1. i + 1 \in 1..Len(queue) /\ j + 1 \in 1..Len(queue) BY <1>3
    <3>2. i + 1 = j + 1 BY <1>3, <1>4, <2>2, <3>1
    <3> QED BY <3>2
  <2>3. bufPool' \cup Range(queue') \subseteq bufPool \cup Range(queue) BY <1>5, <1>6
  <2>4. \A m \in Log : fieldData'[m] \notin bufPool' \cup Range(queue') BY <1>1, <1>2, <2>3 DEF BuffersApart
  <2>5. \A q \in Proc : job'[q].buf \notin bufPool' \cup Range(queue') BY <1>1, <1>2, <2>3 DEF BuffersApart
  <2> QED BY <1>1, <1>2, <2>1, <2>2, <2>4, <2>5 DEF BuffersApart
<1>11. PoolEmpty' BY <1>1, <1>6, <1>7 DEF PoolEmpty, Types
<1>12. ASSUME NEW m \in Log PROVE LoggerKeeps(m)'
  <2>1. LoggerKeeps(m) BY <1>1
  <2>2. fieldData[m] # NoBuf => content'[fieldData[m]] = content[fieldData[m]] BY <1>1, <1>6, <1>7 DEF Types
  <2> QED BY <1>2, <2>1, <2>2, LoggerFrame
<1>13. ASSUME NEW q \in Proc PROVE CallOK(q)'
  <2>1. CallOK(q) BY <1>1
  <2> QED BY <1>2, <1>6, <1>7, <2>1, CallFrame
<1>14. ASSUME NEW c \in Range(queue)' PROVE RecordFaithful(c)'
  <2>1. c \in Range(queue) /\ c \in Buf /\ c # b BY <1>3, <1>5 DEF Range
  <2>2. content'[c] = content[c] /\ expect'[c] = expect[c] BY <1>6, <2>1
  <2> QED BY <1>1, <2>1, <2>2 DEF RecordFaithful
<1> QED BY <1>8, <1>9, <1>10, <1>11, <1>12, <1>13, <1>14 DEF Inv

\* Steps that change no more than closed.
LEMMA CloseInv ==
    ASSUME Inv, closed' \in BOOLEAN, UNCHANGED <<loggers, bufPool, content, calls, queue, expect>>
    PROVE  Inv'
<1>1. /\ UNCHANGED fieldData /\ UNCHANGED fieldCount /\ UNCHANGED logPool /\ UNCHANGED held
      /\ UNCHANGED handlers /\ UNCHANGED given /\ UNCHANGED bufPool /\ UNCHANGED content
      /\ UNCHANGED pc /\ UNCHANGED job /\ UNCHANGED queue /\ UNCHANGED expect
    BY DEF loggers, promised, calls
<1>2. Types' BY <1>1 DEF Inv, Types
<1>3. LoggersApart' /\ BuffersApart' /\ PoolEmpty' BY <1>1 DEF Inv, LoggersApart, BuffersApart, PoolEmpty
<1>4. ASSUME NEW m \in Log PROVE LoggerKeeps(m)' BY <1>1, LoggerFrame DEF Inv
<1>5. ASSUME NEW q \in Proc PROVE CallOK(q)' BY <1>1, CallFrame DEF Inv
<1>6. \A c \in Range(queue)' : RecordFaithful(c)' BY <1>1 DEF Inv, RecordFaithful
<1> QED BY <1>2, <1>3, <1>4, <1>5, <1>6 DEF Inv

LEMMA NextInv == Inv /\ [Next]_vars => Inv'
<1> SUFFICES ASSUME Inv, [Next]_vars PROVE Inv' OBVIOUS
<1>1. ASSUME NEW p \in Proc, Acquire(p) \/ DeriveCopy(p) \/ Metrics(p) \/ LogFields(p) PROVE Inv'
    BY <1>1, AcquireInv, DeriveCopyInv, MetricsInv, LogFieldsInv
<1>2. ASSUME NEW p \in Proc, NEW l \in Log,
             Release(p, l) \/ With(p, l) \/ WithNothing(p, l) \/ SlogHandler(p, l) \/ WithAttrs(p, l)
      PROVE  Inv'
    BY <1>2, ReleaseInv, WithInv, WithNothingInv, SlogHandlerInv, WithAttrsInv
<1>3. ASSUME NEW p \in Proc, NEW l \in Log,
             LogMessage(p, l) \/ LogPanics(p, l) \/ Recover(p, l) \/ Handle(p, l)
      PROVE  Inv'
    BY <1>3, LogMessageInv, LogPanicsInv, RecoverInv, HandleInv
<1>4. CASE WorkerSends BY <1>4, WorkerSendsInv
<1>5. CASE Close
  <2>1. closed' \in BOOLEAN /\ UNCHANGED <<loggers, bufPool, content, calls, queue, expect>>
      BY <1>5 DEF Close
  <2> QED BY <2>1, CloseInv
<1>6. CASE UNCHANGED vars
  <2>1. closed' \in BOOLEAN /\ UNCHANGED <<loggers, bufPool, content, calls, queue, expect>>
      BY <1>6 DEF vars, Inv, Types
  <2> QED BY <2>1, CloseInv
<1> QED BY <1>1, <1>2, <1>3, <1>4, <1>5, <1>6 DEF Next

-----------------------------------------------------------------------------
(* The theorems *)

\* The invariant is kept by every step of every goroutine, of the worker, and by
\* Close.
THEOREM Invariant == Spec => []Inv
<1>1. Init => Inv BY InitInv
<1>2. Inv /\ [Next]_vars => Inv' BY NextInv
<1> QED BY <1>1, <1>2, PTL DEF Spec

LEMMA InvTypeOK == ASSUME Inv PROVE TypeOK
<1>1. Types BY DEF Inv
<1>2. ASSUME NEW b \in Buf PROVE content[b].map \in 0..255 /\ Pieces(content[b].pieces)
  <2>1. content[b] \in Contents BY <1>1 DEF Types
  <2>2. content[b].map \in 0..255 /\ content[b].pieces \in Seq(FieldPiece) BY <2>1 DEF Contents
  <2>3. \A i \in 1..Len(content[b].pieces) : content[b].pieces[i] \in FieldPiece BY <2>2
  <2> QED BY <2>2, <2>3, PieceKeys DEF Pieces
<1> QED BY <1>1, <1>2 DEF TypeOK, Types

\* Every variable has its type, whatever is logged: no count outgrows the byte
\* that the code has for it.
THEOREM TypeCorrect == Spec => []TypeOK
<1>1. Inv => TypeOK BY InvTypeOK
<1> QED BY <1>1, Invariant, PTL

LEMMA InvOneOwner == ASSUME Inv PROVE OneOwner
<1> DEFINE Owned(o, b) == CASE o = "pool" -> b \in bufPool [] o = "queue" -> b \in Range(queue)
                            [] o \in Log -> fieldData[o] = b [] o \in Proc -> job[o].buf = b
           Owners == {"pool", "queue"} \cup Log \cup Proc
<1>1. BuffersApart /\ LoggersApart BY DEF Inv
<1>2. \A o \in Log : o # "pool" /\ o # "queue" /\ o \notin Proc BY LoggerAssumption
<1>3. \A o \in Proc : o # "pool" /\ o # "queue" /\ o \notin Log BY LoggerAssumption
<1>4. ASSUME NEW b \in Buf
      PROVE  /\ Owned("pool", b) <=> b \in bufPool
             /\ Owned("queue", b) <=> b \in Range(queue)
             /\ \A o \in Log : Owned(o, b) <=> fieldData[o] = b
             /\ \A o \in Proc : Owned(o, b) <=> job[o].buf = b
  <2>1. Owned("pool", b) <=> b \in bufPool BY <1>2, <1>3
  <2>2. Owned("queue", b) <=> b \in Range(queue) BY <1>2, <1>3
  <2>3. ASSUME NEW o \in Log PROVE Owned(o, b) <=> fieldData[o] = b BY <1>2
  <2>4. ASSUME NEW o \in Proc PROVE Owned(o, b) <=> job[o].buf = b BY <1>3
  <2> HIDE DEF Owned
  <2> QED BY <2>1, <2>2, <2>3, <2>4
<1> HIDE DEF Owned
<1>5. ASSUME NEW b \in Buf, NEW o1 \in Owners, NEW o2 \in Owners, Owned(o1, b), Owned(o2, b)
      PROVE  o1 = o2
  <2>1. b # NoBuf BY LoggerAssumption
  <2>2. CASE o1 = "pool"
    <3>1. b \in bufPool BY <1>4, <1>5, <2>2
    <3> QED BY <1>1, <1>4, <1>5, <2>2, <3>1 DEF BuffersApart
  <2>3. CASE o1 = "queue"
    <3>1. b \in Range(queue) BY <1>4, <1>5, <2>3
    <3> QED BY <1>1, <1>4, <1>5, <2>3, <3>1 DEF BuffersApart
  <2>4. CASE o1 \in Log
    <3>1. fieldData[o1] = b BY <1>4, <1>5, <2>4
    <3> QED BY <1>1, <1>4, <1>5, <2>1, <2>4, <3>1 DEF BuffersApart
  <2>5. CASE o1 \in Proc
    <3>1. job[o1].buf = b BY <1>4, <1>5, <2>5
    <3> QED BY <1>1, <1>4, <1>5, <2>1, <2>5, <3>1 DEF BuffersApart
  <2> QED BY <2>2, <2>3, <2>4, <2>5
<1> QED BY <1>1, <1>5 DEF OneOwner, Owned, BuffersApart, LoggersApart

\* A buffer is never used by two: not by a record and a logger, not by two
\* calls, and not by anybody after it has gone back to the pool.
THEOREM BuffersHaveOneOwner == Spec => []OneOwner
<1>1. Inv => OneOwner BY InvOneOwner
<1> QED BY <1>1, Invariant, PTL

LEMMA InvLoggersKeep == ASSUME Inv PROVE LoggersKeep
<1> SUFFICES ASSUME NEW l \in held
             PROVE  /\ \/ Agree(Has(l), dropped[l] \o given[l])
                       \/ dropped[l] # <<>> /\ Agree(Has(l), given[l])
                    /\ fieldCount[l] = Byte(Keys(Has(l)))
    BY DEF LoggersKeep
<1>1. l \in Log /\ LoggerKeeps(l) /\ given[l] \in Seq(FieldPiece) BY DEF Inv, Types
<1>2. dropped[l] = <<>> => dropped[l] \o given[l] = given[l] BY <1>1, ConcatEmpty
<1> QED BY <1>1, <1>2 DEF LoggerKeeps

\* A logger has the fields it was promised, and their number, while others of its
\* chain are released and reused; except behind a With without arguments or a
\* WithGroup, which drop those of the logger they are called on: then it has those
\* it was given since.
THEOREM LoggersKeepFields == Spec => []LoggersKeep
<1>1. Inv => LoggersKeep BY InvLoggersKeep
<1> QED BY <1>1, Invariant, PTL

LEMMA InvRecords == ASSUME Inv PROVE RecordsFaithful
<1> SUFFICES ASSUME NEW b \in Range(queue)
             PROVE  LET s == content[b].pieces
                        e == expect[b] IN
                    /\ content[b].map = Byte(Keys(s))
                    /\ e.exact /\ Keys(e.base \o e.rest) <= 255 =>
                          \/ Agree(s, e.base \o e.dropped \o e.rest)
                          \/ e.dropped # <<>> /\ Agree(s, e.base \o e.rest)
    BY DEF RecordsFaithful
<1>1. Faithful(content[b], expect[b]) BY DEF Inv, RecordFaithful
<1>2. expect[b].dropped = <<>> => expect[b].base \o expect[b].dropped = expect[b].base
    BY <1>1, ConcatEmpty DEF Faithful
<1> QED BY <1>1, <1>2 DEF Faithful

\* The map of a queued record says how many fields it has.  If they are at most
\* 255, they are its base, those its logger was promised (with the exception
\* above), and those of the call, in order, whatever the arguments behind the
\* format are, if they are in pairs: key and value, or in a slog record the key
\* alone of an attribute whose value AppendAny does not know.  It says nothing of
\* the fields of calls whose format countFmtArgs miscounts (see
\* CountAgreesWithFmt).
THEOREM RecordsAreFaithful == Spec => []RecordsFaithful
<1>1. Inv => RecordsFaithful BY InvRecords
<1> QED BY <1>1, Invariant, PTL

LEMMA InvPanics == ASSUME Inv PROVE PanicsOnlyIfMissing
<1> SUFFICES ASSUME NEW p \in Proc
             PROVE  /\ pc[p] = "panic" => \/ job[p].n < Wants(job[p].format)
                                          \/ ~NoneHidden(job[p].format)
                    /\ job[p].count > 0 => job[p].data # NoBuf
    BY DEF PanicsOnlyIfMissing
<1>1. CallOK(p) /\ pc[p] \in {"idle", "copy", "fields", "panic"} BY DEF Inv, Types
<1>2. pc[p] = "panic" => job[p].n < Wants(job[p].format) \/ ~NoneHidden(job[p].format)
    BY <1>1 DEF CallOK, Panicking
<1>3. CASE pc[p] = "fields" /\ ~Measuring(p)
  <2>1. PICK l \in held : LoggingOf(p, l) BY <1>1, <1>3 DEF CallOK, Logging
  <2>2. job[p].count > 0 => job[p].data # NoBuf BY <2>1, ExtraFields
  <2> QED BY <1>2, <2>2
<1>4. CASE pc[p] # "fields" \/ Measuring(p)
  <2>1. job[p].count = 0 BY <1>1, <1>4, IdleHasNothing DEF CallOK, Copying, Panicking, Measuring
  <2> QED BY <1>2, <2>1
<1> QED BY <1>3, <1>4

\* A log call panics only if it has fewer arguments than fmt takes for its format,
\* or if that format, of any length, has a directive with an index or a % hidden
\* behind flags or a width (%#[1]x, %5%); and it never has a number of fields
\* without the buffer they are in.
THEOREM PanicsAreDeserved == Spec => []PanicsOnlyIfMissing
<1>1. Inv => PanicsOnlyIfMissing BY InvPanics
<1> QED BY <1>1, Invariant, PTL

=============================================================================
