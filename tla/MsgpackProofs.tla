---------------------------- MODULE MsgpackProofs ----------------------------
(***************************************************************************)
(* Proofs about Msgpack: what the encoders write is read back, value by    *)
(* value (RoundTrip); the readers, which go through buffers of any number  *)
(* of values, are always where a value begins (Inv).                       *)
(***************************************************************************)
EXTENDS Msgpack, SequenceLemmas

USE SMT

-----------------------------------------------------------------------------
(* Bytes and 64-bit integers *)

LEMMA Bytes1 ==
    ASSUME NEW n \in Nat, n < 256
    PROVE  Len(Bytes(n, 1)) = 1 /\ Bytes(n, 1)[1] = n
BY DEF Bytes

LEMMA Bytes2 ==
    ASSUME NEW n \in Nat, n < 65536
    PROVE  /\ Len(Bytes(n, 2)) = 2
           /\ Bytes(n, 2)[1] = n \div 256 /\ Bytes(n, 2)[2] = n % 256
BY DEF Bytes

LEMMA Bytes3 ==
    ASSUME NEW n \in Nat
    PROVE  /\ Len(Bytes(n, 3)) = 3
           /\ Bytes(n, 3)[1] = (n \div 65536) % 256 /\ Bytes(n, 3)[2] = (n \div 256) % 256
           /\ Bytes(n, 3)[3] = n % 256
BY DEF Bytes

\* The digits of a number, as operators of their own.
D3(n) == (n \div 16777216) % 256
D2(n) == (n \div 65536) % 256
D1(n) == (n \div 256) % 256
D0(n) == n % 256

LEMMA Bytes4 ==
    ASSUME NEW n \in Nat
    PROVE  /\ Len(Bytes(n, 4)) = 4
           /\ Bytes(n, 4)[1] = D3(n) /\ Bytes(n, 4)[2] = D2(n)
           /\ Bytes(n, 4)[3] = D1(n) /\ Bytes(n, 4)[4] = D0(n)
BY DEF Bytes, D3, D2, D1, D0

LEMMA DigitType ==
    ASSUME NEW n \in Nat
    PROVE  D3(n) \in Byte /\ D2(n) \in Byte /\ D1(n) \in Byte /\ D0(n) \in Byte
BY DEF D3, D2, D1, D0, Byte, Below

LEMMA Bytes4Type ==
    ASSUME NEW n \in Nat, NEW i \in 1..4
    PROVE  Bytes(n, 4)[i] \in Byte
<1>1. /\ Bytes(n, 4)[1] \in Byte /\ Bytes(n, 4)[2] \in Byte
      /\ Bytes(n, 4)[3] \in Byte /\ Bytes(n, 4)[4] \in Byte
    BY Bytes4, DigitType, Zenon
<1>2. i = 1 \/ i = 2 \/ i = 3 \/ i = 4 OBVIOUS
<1> QED BY <1>1, <1>2

LEMMA Digits ==
    ASSUME NEW n \in Nat, n < Huge
    PROVE  /\ D3(n) = n \div 16777216 /\ D3(n) < 64
           /\ D3(n) * 16777216 + D2(n) * 65536 + D1(n) * 256 + D0(n) = n
           /\ n < 65536 => D3(n) = 0 /\ D2(n) = 0 /\ D1(n) = n \div 256
           /\ n < 256 => D1(n) = 0 /\ D0(n) = n
BY DEF Huge, D3, D2, D1, D0

LEMMA NumIs ==
    ASSUME NEW b, NEW n \in Nat, n < Huge,
           b[1] = D3(n), b[2] = D2(n), b[3] = D1(n), b[4] = D0(n)
    PROVE  Num(b) = n
<1>1. /\ D3(n) * 16777216 + D2(n) * 65536 + D1(n) * 256 + D0(n) = n /\ D3(n) < 64
    BY Digits
<1>2. /\ D3(n) \in Nat /\ D3(n) < 256 /\ D2(n) \in Nat /\ D2(n) < 256
      /\ D1(n) \in Nat /\ D1(n) < 256 /\ D0(n) \in Nat /\ D0(n) < 256
    BY DigitType DEF Byte, Below
<1> QED BY <1>1, <1>2 DEF Num, Unknown, Huge

LEMMA Least ==
    ASSUME NEW P, P \subseteq 1..8, P # {}
    PROVE  \E i \in P : \A j \in 1..(i - 1) : j \notin P
<1>1. 1 \in P \/ 2 \in P \/ 3 \in P \/ 4 \in P \/ 5 \in P \/ 6 \in P \/ 7 \in P \/ 8 \in P
  <2>1. PICK i \in P : TRUE BY Zenon
  <2>2. i \in 1..8 BY <2>1
  <2>3. i = 1 \/ i = 2 \/ i = 3 \/ i = 4 \/ i = 5 \/ i = 6 \/ i = 7 \/ i = 8 BY <2>2
  <2> QED BY <2>1, <2>3
<1> QED BY <1>1

LEMMA SameWord ==
    ASSUME NEW S, NEW w \in [1..8 -> S], NEW u \in [1..8 -> S], \A i \in 1..8 : w[i] = u[i]
    PROVE  w = u
OBVIOUS

\* Comparison with a number whose bytes are zeros, x, and then only 255.
LEMMA AtMostIs ==
    ASSUME NEW w \in Word64, NEW u \in Word64, NEW m \in 1..8, NEW x \in Byte, u[m] = x,
           \A j \in 1..(m - 1) : u[j] = 0, \A j \in (m + 1)..8 : u[j] = 255
    PROVE  AtMost(w, u) <=> w[m] <= x /\ \A j \in 1..(m - 1) : w[j] = 0
<1> USE DEF Word64, Byte, Below
<1>1. ASSUME AtMost(w, u) PROVE w[m] <= x /\ \A j \in 1..(m - 1) : w[j] = 0
  <2>1. CASE w = u BY <2>1
  <2>2. CASE w # u
    <3>1. PICK i \in 1..8 : w[i] < u[i] /\ \A j \in 1..(i - 1) : w[j] = u[j]
        BY <1>1, <2>2 DEF AtMost
    <3>2. i >= m
      <4>1. CASE i < m
        <5>1. i \in 1..(m - 1) BY <4>1
        <5>2. u[i] = 0 BY <5>1
        <5>3. w[i] \in Nat /\ w[i] < 256 OBVIOUS
        <5> QED BY <3>1, <5>2, <5>3
      <4> QED BY <4>1
    <3>3. CASE i = m
      <4>1. w[m] \in Nat /\ u[m] \in Nat OBVIOUS
      <4>2. \A j \in 1..(m - 1) : w[j] = u[j] BY <3>1, <3>3
      <4> QED BY <3>1, <3>3, <4>1, <4>2
    <3>4. CASE i > m
      <4>1. m \in 1..(i - 1) /\ \A j \in 1..(m - 1) : j \in 1..(i - 1) BY <3>4
      <4>2. w[m] = u[m] /\ \A j \in 1..(m - 1) : w[j] = u[j] BY <3>1, <4>1
      <4> QED BY <4>2
    <3> QED BY <3>2, <3>3, <3>4
  <2> QED BY <2>1, <2>2
<1>2. ASSUME w[m] <= x, \A j \in 1..(m - 1) : w[j] = 0 PROVE AtMost(w, u)
  <2> DEFINE P == {i \in 1..8 : w[i] # u[i]}
  <2>1. CASE P = {}
    <3>1. \A i \in 1..8 : w[i] = u[i] BY <2>1
    <3>2. w = u BY <3>1, SameWord
    <3> QED BY <3>2 DEF AtMost
  <2>2. CASE P # {}
    <3>0. P \subseteq 1..8 OBVIOUS
    <3>1. PICK i \in P : \A j \in 1..(i - 1) : j \notin P
      <4> HIDE DEF P
      <4> QED BY <2>2, <3>0, Least, Zenon
    <3>2. i \in 1..8 /\ w[i] # u[i] /\ \A j \in 1..(i - 1) : w[j] = u[j] BY <3>1
    <3>3. i >= m BY <1>2, <3>2
    <3>4. w[i] < u[i]
      <4>1. w[i] \in Nat /\ u[i] \in Nat /\ w[i] < 256 /\ u[i] < 256 BY <3>2
      <4>2. CASE i = m BY <1>2, <3>2, <4>1, <4>2
      <4>3. CASE i > m
        <5>1. u[i] = 255 BY <3>2, <4>3
        <5> QED BY <3>2, <4>1, <5>1
      <4> QED BY <3>3, <4>2, <4>3
    <3> QED BY <3>2, <3>4 DEF AtMost
  <2> QED BY <2>1, <2>2
<1> QED BY <1>1, <1>2

\* Comparison with a number whose bytes are 255, x, and then only zeros.
LEMMA AtLeastIs ==
    ASSUME NEW w \in Word64, NEW u \in Word64, NEW m \in 1..8, NEW x \in Byte, u[m] = x,
           \A j \in 1..(m - 1) : u[j] = 255, \A j \in (m + 1)..8 : u[j] = 0
    PROVE  AtMost(u, w) <=> w[m] >= x /\ \A j \in 1..(m - 1) : w[j] = 255
<1> USE DEF Word64, Byte, Below
<1>1. ASSUME AtMost(u, w) PROVE w[m] >= x /\ \A j \in 1..(m - 1) : w[j] = 255
  <2>1. CASE w = u BY <2>1
  <2>2. CASE w # u
    <3>1. PICK i \in 1..8 : u[i] < w[i] /\ \A j \in 1..(i - 1) : u[j] = w[j]
        BY <1>1, <2>2 DEF AtMost
    <3>2. i >= m
      <4>1. CASE i < m
        <5>1. i \in 1..(m - 1) BY <4>1
        <5>2. u[i] = 255 BY <5>1
        <5>3. w[i] \in Nat /\ w[i] < 256 OBVIOUS
        <5> QED BY <3>1, <5>2, <5>3
      <4> QED BY <4>1
    <3>3. CASE i = m
      <4>1. w[m] \in Nat /\ u[m] \in Nat OBVIOUS
      <4>2. \A j \in 1..(m - 1) : w[j] = u[j] BY <3>1, <3>3
      <4> QED BY <3>1, <3>3, <4>1, <4>2
    <3>4. CASE i > m
      <4>1. m \in 1..(i - 1) /\ \A j \in 1..(m - 1) : j \in 1..(i - 1) BY <3>4
      <4>2. w[m] = u[m] /\ \A j \in 1..(m - 1) : w[j] = u[j] BY <3>1, <4>1
      <4> QED BY <4>2
    <3> QED BY <3>2, <3>3, <3>4
  <2> QED BY <2>1, <2>2
<1>2. ASSUME w[m] >= x, \A j \in 1..(m - 1) : w[j] = 255 PROVE AtMost(u, w)
  <2> DEFINE P == {i \in 1..8 : w[i] # u[i]}
  <2>1. CASE P = {}
    <3>1. \A i \in 1..8 : w[i] = u[i] BY <2>1
    <3>2. w = u BY <3>1, SameWord
    <3> QED BY <3>2 DEF AtMost
  <2>2. CASE P # {}
    <3>0. P \subseteq 1..8 OBVIOUS
    <3>1. PICK i \in P : \A j \in 1..(i - 1) : j \notin P
      <4> HIDE DEF P
      <4> QED BY <2>2, <3>0, Least, Zenon
    <3>2. i \in 1..8 /\ w[i] # u[i] /\ \A j \in 1..(i - 1) : w[j] = u[j] BY <3>1
    <3>3. i >= m BY <1>2, <3>2
    <3>4. u[i] < w[i]
      <4>1. w[i] \in Nat /\ u[i] \in Nat /\ w[i] < 256 /\ u[i] < 256 BY <3>2
      <4>2. CASE i = m BY <1>2, <3>2, <4>1, <4>2
      <4>3. CASE i > m
        <5>1. u[i] = 0 BY <3>2, <4>3
        <5> QED BY <3>2, <4>1, <5>1
      <4> QED BY <3>3, <4>2, <4>3
    <3> QED BY <3>2, <3>4 DEF AtMost
  <2> QED BY <2>1, <2>2
<1> QED BY <1>1, <1>2


LEMMA LowIs ==
    ASSUME NEW S, NEW w \in [1..8 -> S], NEW k \in 1..8
    PROVE  Len(Low(w, k)) = k /\ \A j \in 1..k : Low(w, k)[j] = w[8 - k + j] /\ Low(w, k)[j] \in S
BY DEF Low

LEMMA FillIs ==
    ASSUME NEW S, NEW b, NEW m \in 1..8, Len(b) = m, NEW x, NEW w \in [1..8 -> S],
           \A i \in 1..8 : w[i] = IF i <= 8 - m THEN x ELSE b[i - 8 + m]
    PROVE  Fill(b, x) = w
BY DEF Fill

LEMMA FillType ==
    ASSUME NEW S, NEW b, Len(b) \in 1..8, NEW x \in S, \A i \in 1..Len(b) : b[i] \in S
    PROVE  Fill(b, x) \in [1..8 -> S]
<1> DEFINE m == Len(b)
<1>1. ASSUME NEW i \in 1..8, ~(i <= 8 - m) PROVE b[i - 8 + m] \in S
  <2>1. i - 8 + m \in 1..m BY <1>1
  <2> QED BY <2>1
<1> QED BY <1>1 DEF Fill

LEMMA WordType ==
    ASSUME NEW n \in Nat
    PROVE  Word(n) \in Word64 /\ \A i \in 1..4 : Word(n)[i] = 0 /\ Word(n)[4 + i] = Bytes(n, 4)[i]
<1> DEFINE b == Bytes(n, 4)
<1>1. Len(b) = 4 /\ \A i \in 1..4 : b[i] \in Byte BY Bytes4, Bytes4Type
<1>2. 0 \in Byte BY DEF Byte, Below
<1> HIDE DEF b
<1>3. Fill(b, 0) \in [1..8 -> Byte] BY <1>1, <1>2, FillType
<1>4. \A i \in 1..4 : Fill(b, 0)[i] = 0 BY <1>1 DEF Fill
<1>5. ASSUME NEW i \in 1..4 PROVE Fill(b, 0)[4 + i] = b[i]
  <2>1. 4 + i \in 1..8 /\ ~(4 + i <= 8 - 4) /\ (4 + i) - 8 + 4 = i OBVIOUS
  <2> QED BY <1>1, <2>1 DEF Fill
<1> QED BY <1>3, <1>4, <1>5 DEF Word, ZeroExtend, Word64, b

LEMMA WordIs ==
    ASSUME NEW n \in Nat
    PROVE  /\ Word(n)[5] = D3(n) /\ Word(n)[6] = D2(n)
           /\ Word(n)[7] = D1(n) /\ Word(n)[8] = D0(n)
<1>1. /\ Word(n)[5] = Bytes(n, 4)[1] /\ Word(n)[6] = Bytes(n, 4)[2]
      /\ Word(n)[7] = Bytes(n, 4)[3] /\ Word(n)[8] = Bytes(n, 4)[4]
  <2>1. \A i \in 1..4 : Word(n)[4 + i] = Bytes(n, 4)[i] BY WordType
  <2> QED BY <2>1
<1> QED BY <1>1, Bytes4

\* What the encoders of integers compare with.
LEMMA UintLimits ==
    ASSUME NEW w \in Word64
    PROVE  /\ AtMost(w, Word(127)) <=> w[8] <= 127 /\ \A i \in 1..7 : w[i] = 0
           /\ AtMost(w, Word(255)) <=> \A i \in 1..7 : w[i] = 0
           /\ AtMost(w, Word(65535)) <=> \A i \in 1..6 : w[i] = 0
<1>0. \A i \in 1..8 : w[i] \in 0..255 BY SMTT(30) DEF Word64, Byte, Below
<1>1. AtMost(w, Word(127)) <=> w[8] <= 127 /\ \A i \in 1..7 : w[i] = 0
  <2>1. ASSUME NEW j \in 1..7 PROVE Word(127)[j] = 0
    <3>1. j \in 1..4 \/ j = 5 \/ j = 6 \/ j = 7 OBVIOUS
    <3>2. Word(127)[5] = 0 /\ Word(127)[6] = 0 /\ Word(127)[7] = 0 BY WordIs DEF D3, D2, D1, D0
    <3>3. \A i \in 1..4 : Word(127)[i] = 0 BY WordType
    <3> QED BY <3>1, <3>2, <3>3
  <2>2. Word(127)[8] = 127 /\ Word(127) \in Word64 BY WordIs, WordType DEF D3, D2, D1, D0
  <2>3. 127 \in Byte /\ (8 + 1)..8 = {} /\ 1..(8 - 1) = 1..7 BY DEF Byte, Below
  <2> QED BY <2>1, <2>2, <2>3, AtMostIs
<1>2. AtMost(w, Word(255)) <=> \A i \in 1..7 : w[i] = 0
  <2>1. ASSUME NEW j \in 1..7 PROVE Word(255)[j] = 0
    <3>1. j \in 1..4 \/ j = 5 \/ j = 6 \/ j = 7 OBVIOUS
    <3>2. Word(255)[5] = 0 /\ Word(255)[6] = 0 /\ Word(255)[7] = 0 BY WordIs DEF D3, D2, D1, D0
    <3>3. \A i \in 1..4 : Word(255)[i] = 0 BY WordType
    <3> QED BY <3>1, <3>2, <3>3
  <2>2. Word(255)[8] = 255 /\ Word(255) \in Word64 BY WordIs, WordType DEF D3, D2, D1, D0
  <2>3. 255 \in Byte /\ (8 + 1)..8 = {} /\ 1..(8 - 1) = 1..7 BY DEF Byte, Below
  <2> QED BY <1>0, <2>1, <2>2, <2>3, AtMostIs
<1>3. AtMost(w, Word(65535)) <=> \A i \in 1..6 : w[i] = 0
  <2>1. ASSUME NEW j \in 1..6 PROVE Word(65535)[j] = 0
    <3>1. j \in 1..4 \/ j = 5 \/ j = 6 OBVIOUS
    <3>2. Word(65535)[5] = 0 /\ Word(65535)[6] = 0 BY WordIs DEF D3, D2, D1, D0
    <3>3. \A i \in 1..4 : Word(65535)[i] = 0 BY WordType
    <3> QED BY <3>1, <3>2, <3>3
  <2>2. Word(65535)[7] = 255 /\ Word(65535)[8] = 255 /\ Word(65535) \in Word64 BY WordIs, WordType DEF D3, D2, D1, D0
  <2>3. 255 \in Byte /\ (7 + 1)..8 = {8} /\ 1..(7 - 1) = 1..6 BY DEF Byte, Below
  <2> QED BY <1>0, <2>1, <2>2, <2>3, AtMostIs, SMTT(30)
<1> QED BY <1>1, <1>2, <1>3


LEMMA AtLeastFill ==
    ASSUME NEW w \in Word64, NEW b, Len(b) \in 1..8, b[1] \in Byte, b[1] >= 128,
           \A i \in 2..Len(b) : b[i] = 0
    PROVE  AtMost(SignExtend(b), w)
             <=> w[9 - Len(b)] >= b[1] /\ \A j \in 1..(8 - Len(b)) : w[j] = 255
<1>0. PICK y \in Byte, m \in 1..8, k \in 1..8 : y = 255 /\ Len(b) = m /\ k = 9 - m
  <2>1. PICK m \in 1..8 : Len(b) = m OBVIOUS
  <2>2. 9 - m \in 1..8 /\ 255 \in Byte BY DEF Byte, Below
  <2> QED BY <2>1, <2>2
<1> DEFINE u == Fill(b, y)
<1>1. SignExtend(b) = u BY <1>0 DEF SignExtend
<1>2. \A i \in 1..m : b[i] \in Byte
  <2>1. \A i \in 1..m : i = 1 \/ i \in 2..m OBVIOUS
  <2> QED BY <1>0, <2>1 DEF Byte, Below
<1>3. /\ u \in [1..8 -> Byte]
      /\ \A i \in 1..(8 - m) : u[i] = y
      /\ \A i \in 1..m : u[8 - m + i] = b[i]
  <2>1. Len(b) \in 1..8 /\ \A i \in 1..Len(b) : b[i] \in Byte BY <1>0, <1>2
  <2>2. u \in [1..8 -> Byte] BY <2>1, FillType
  <2>3. \A i \in 1..(8 - m) : u[i] = y BY <1>0 DEF Fill
  <2>4. ASSUME NEW i \in 1..m PROVE u[8 - m + i] = b[i]
    <3>1. 8 - m + i \in 1..8 /\ ~(8 - m + i <= 8 - m) /\ (8 - m + i) - 8 + m = i OBVIOUS
    <3> QED BY <1>0, <3>1 DEF Fill
  <2> QED BY <2>2, <2>3, <2>4
<1> HIDE DEF u
<1>4. u[k] = b[1]
  <2>1. 1 \in 1..m /\ 8 - m + 1 = k BY <1>0
  <2> QED BY <1>3, <2>1
<1>5. \A j \in 1..(k - 1) : u[j] = 255 BY <1>0, <1>3
<1>6. ASSUME NEW j \in (k + 1)..8 PROVE u[j] = 0
  <2>1. PICK i \in 2..m : 8 - m + i = j
    <3>1. j - 8 + m \in 2..m /\ 8 - m + (j - 8 + m) = j BY <1>0
    <3> QED BY <3>1
  <2>2. i \in 1..m /\ i \in 2..Len(b) BY <1>0
  <2>3. b[i] = 0 BY <2>2
  <2> QED BY <1>3, <2>1, <2>2, <2>3
<1>7. u \in Word64 BY <1>3 DEF Word64
<1>8. AtMost(u, w) <=> w[k] >= b[1] /\ \A j \in 1..(k - 1) : w[j] = 255
    BY <1>4, <1>5, <1>6, <1>7, AtLeastIs, SMTT(30)
<1> QED BY <1>0, <1>1, <1>8

LEMMA IntLimits ==
    ASSUME NEW w \in Word64
    PROVE  /\ AtMost(SignExtend(<<256 - 32>>), w) <=> w[8] >= 224 /\ \A j \in 1..7 : w[j] = 255
           /\ AtMost(SignExtend(<<128>>), w) <=> w[8] >= 128 /\ \A j \in 1..7 : w[j] = 255
           /\ AtMost(SignExtend(<<128, 0>>), w) <=> w[7] >= 128 /\ \A j \in 1..6 : w[j] = 255
           /\ AtMost(SignExtend(<<128, 0, 0, 0>>), w)
                <=> w[5] >= 128 /\ \A j \in 1..4 : w[j] = 255
<1>1. AtMost(SignExtend(<<256 - 32>>), w) <=> w[8] >= 224 /\ \A j \in 1..7 : w[j] = 255
  <2> DEFINE b == <<256 - 32>>
  <2>1. Len(b) = 1 /\ b[1] = 224 OBVIOUS
  <2> HIDE DEF b
  <2>2. b[1] \in Byte /\ b[1] >= 128 /\ Len(b) \in 1..8 BY <2>1 DEF Byte, Below
  <2>3. \A i \in 2..Len(b) : b[i] = 0 BY <2>1
  <2>4. AtMost(SignExtend(b), w) <=> w[9 - Len(b)] >= b[1] /\ \A j \in 1..(8 - Len(b)) : w[j] = 255
      BY <2>2, <2>3, AtLeastFill
  <2> QED BY <2>1, <2>4 DEF b
<1>2. AtMost(SignExtend(<<128>>), w) <=> w[8] >= 128 /\ \A j \in 1..7 : w[j] = 255
  <2> DEFINE b == <<128>>
  <2>1. Len(b) = 1 /\ b[1] = 128 OBVIOUS
  <2> HIDE DEF b
  <2>2. b[1] \in Byte /\ b[1] >= 128 /\ Len(b) \in 1..8 BY <2>1 DEF Byte, Below
  <2>3. \A i \in 2..Len(b) : b[i] = 0 BY <2>1
  <2>4. AtMost(SignExtend(b), w) <=> w[9 - Len(b)] >= b[1] /\ \A j \in 1..(8 - Len(b)) : w[j] = 255
      BY <2>2, <2>3, AtLeastFill
  <2> QED BY <2>1, <2>4 DEF b
<1>3. AtMost(SignExtend(<<128, 0>>), w) <=> w[7] >= 128 /\ \A j \in 1..6 : w[j] = 255
  <2> DEFINE b == <<128, 0>>
  <2>1. Len(b) = 2 /\ b[1] = 128 /\ b[2] = 0 OBVIOUS
  <2> HIDE DEF b
  <2>2. b[1] \in Byte /\ b[1] >= 128 /\ Len(b) \in 1..8 BY <2>1 DEF Byte, Below
  <2>3. \A i \in 2..Len(b) : b[i] = 0 BY <2>1
  <2>4. AtMost(SignExtend(b), w) <=> w[9 - Len(b)] >= b[1] /\ \A j \in 1..(8 - Len(b)) : w[j] = 255
      BY <2>2, <2>3, AtLeastFill
  <2> QED BY <2>1, <2>4 DEF b
<1>4. AtMost(SignExtend(<<128, 0, 0, 0>>), w) <=> w[5] >= 128 /\ \A j \in 1..4 : w[j] = 255
  <2> DEFINE b == <<128, 0, 0, 0>>
  <2>1. Len(b) = 4 /\ b[1] = 128 /\ b[2] = 0 /\ b[3] = 0 /\ b[4] = 0 OBVIOUS
  <2> HIDE DEF b
  <2>2. b[1] \in Byte /\ b[1] >= 128 /\ Len(b) \in 1..8 BY <2>1 DEF Byte, Below
  <2>3. \A i \in 2..Len(b) : b[i] = 0 BY <2>1
  <2>4. AtMost(SignExtend(b), w) <=> w[9 - Len(b)] >= b[1] /\ \A j \in 1..(8 - Len(b)) : w[j] = 255
      BY <2>2, <2>3, AtLeastFill
  <2> QED BY <2>1, <2>4 DEF b
<1> QED BY <1>1, <1>2, <1>3, <1>4

-----------------------------------------------------------------------------
(* Lengths: the bytes of a number below 256^m are read as that number *)

Fits(n, m) == (m = 1 => n < 256) /\ (m = 2 => n < 65536)
HighBit(n, m) == (m = 1 /\ n >= 128) \/ (m = 2 /\ n >= 32768)

LEMMA UintLengthIs ==
    ASSUME NEW n \in Nat, n < Huge, NEW m \in {1, 2, 4}, Fits(n, m), NEW b, Len(b) = m,
           \A k \in 1..m : b[k] = Bytes(n, m)[k]
    PROVE  Length(uintFromBuf(b)) = n
<1> DEFINE w == Fill(b, 0)
<1>1. uintFromBuf(b) = w BY DEF uintFromBuf, ZeroExtend
<1>2. \A i \in 1..(8 - m) : w[i] = 0 BY DEF Fill
<1>3. ~Negative(w) /\ \A i \in 1..4 : w[i] = 0
  <2>1. \A i \in 1..4 : i \in 1..(8 - m) OBVIOUS
  <2> QED BY <1>2, <2>1 DEF Negative
<1>4. Len(Low(w, 4)) = 4 /\ \A j \in 1..4 : Low(w, 4)[j] = w[4 + j] BY DEF Low, Fill
<1>5. /\ Low(w, 4)[1] = w[5] /\ Low(w, 4)[2] = w[6] /\ Low(w, 4)[3] = w[7] /\ Low(w, 4)[4] = w[8]
    BY <1>4
<1>6. w[5] = D3(n) /\ w[6] = D2(n) /\ w[7] = D1(n) /\ w[8] = D0(n)
  <2>1. CASE m = 1
    <3>0. n < 256 /\ n < 65536 BY <2>1 DEF Fits
    <3>1. b[1] = n BY <2>1, <3>0, Bytes1
    <3>2. w[5] = 0 /\ w[6] = 0 /\ w[7] = 0 /\ w[8] = b[1] BY <2>1 DEF Fill
    <3>3. D3(n) = 0 /\ D2(n) = 0 /\ D1(n) = 0 /\ D0(n) = n BY <3>0, Digits
    <3> HIDE DEF w
    <3> QED BY <3>1, <3>2, <3>3
  <2>2. CASE m = 2
    <3>0. n < 65536 BY <2>2 DEF Fits
    <3>1. b[1] = n \div 256 /\ b[2] = n % 256 BY <2>2, <3>0, Bytes2
    <3>2. w[5] = 0 /\ w[6] = 0 /\ w[7] = b[1] /\ w[8] = b[2] BY <2>2 DEF Fill
    <3>3. D3(n) = 0 /\ D2(n) = 0 /\ D1(n) = n \div 256 /\ D0(n) = n % 256 BY <3>0, Digits DEF D0
    <3> HIDE DEF w
    <3> QED BY <3>1, <3>2, <3>3
  <2>3. CASE m = 4
    <3>0. b[1] = Bytes(n, 4)[1] /\ b[2] = Bytes(n, 4)[2] /\ b[3] = Bytes(n, 4)[3] /\ b[4] = Bytes(n, 4)[4]
        BY <2>3
    <3>1. b[1] = D3(n) /\ b[2] = D2(n) /\ b[3] = D1(n) /\ b[4] = D0(n) BY <3>0, Bytes4, Zenon
    <3>2. w[5] = b[1] /\ w[6] = b[2] /\ w[7] = b[3] /\ w[8] = b[4] BY <2>3 DEF Fill
    <3> HIDE DEF w
    <3> QED BY <3>1, <3>2, Zenon
  <2> QED BY <2>1, <2>2, <2>3
<1> HIDE DEF w
<1>7. Num(Low(w, 4)) = n
  <2> DEFINE b4 == Low(w, 4)
  <2>1. b4[1] = D3(n) /\ b4[2] = D2(n) /\ b4[3] = D1(n) /\ b4[4] = D0(n) BY <1>5, <1>6
  <2> HIDE DEF b4
  <2>2. Num(b4) = n BY <2>1, NumIs, Zenon
  <2> QED BY <2>2 DEF b4
<1> QED BY <1>1, <1>3, <1>7 DEF Length

LEMMA BytesType ==
    ASSUME NEW n \in Nat, NEW m \in {1, 2, 4}, Fits(n, m)
    PROVE  Bytes(n, m) \in [1..m -> Byte] /\ Len(Bytes(n, m)) = m
<1>1. CASE m = 1
  <2>1. Len(Bytes(n, 1)) = 1 /\ Bytes(n, 1)[1] \in Byte
      BY <1>1, Bytes1 DEF Fits, Byte, Below
  <2> QED BY <1>1, <2>1 DEF Bytes
<1>2. CASE m = 2
  <2>1. Len(Bytes(n, 2)) = 2 /\ Bytes(n, 2)[1] \in Byte /\ Bytes(n, 2)[2] \in Byte
    <3>1. n \div 256 \in Nat /\ n \div 256 < 256 /\ n % 256 \in Nat /\ n % 256 < 256 /\ n < 65536
        BY <1>2 DEF Fits
    <3> QED BY <3>1, Bytes2 DEF Byte, Below
  <2> QED BY <1>2, <2>1 DEF Bytes
<1>3. CASE m = 4 BY <1>3, Bytes4, Bytes4Type DEF Bytes
<1> QED BY <1>1, <1>2, <1>3

LEMMA NumType ==
    ASSUME NEW b, b[1] \in Nat, b[2] \in Nat, b[3] \in Nat, b[4] \in Nat
    PROVE  Num(b) \in Nat
BY DEF Num, Huge

\* The number that a negative word is.
LEMMA NegativeLength ==
    ASSUME NEW w \in Word64, Negative(w)
    PROVE  Length(w) \in Int /\ Length(w) < 0
<1> DEFINE c == [i \in 1..4 |-> 255 - w[4 + i]]
<1>1. /\ w[5] \in Nat /\ w[5] < 256 /\ w[6] \in Nat /\ w[6] < 256
      /\ w[7] \in Nat /\ w[7] < 256 /\ w[8] \in Nat /\ w[8] < 256
    BY DEF Word64, Byte, Below
<1>2. c[1] \in Nat /\ c[2] \in Nat /\ c[3] \in Nat /\ c[4] \in Nat
  <2>1. c[1] = 255 - w[5] /\ c[2] = 255 - w[6] /\ c[3] = 255 - w[7] /\ c[4] = 255 - w[8] OBVIOUS
  <2>2. PICK x1 \in Nat, x2 \in Nat, x3 \in Nat, x4 \in Nat :
            x1 = w[5] /\ x2 = w[6] /\ x3 = w[7] /\ x4 = w[8] BY <1>1
  <2> HIDE DEF c
  <2> QED BY <1>1, <2>1, <2>2
<1> HIDE DEF c
<1>3. PICK z \in Nat : z = Num(c) BY <1>2, NumType
<1>4. Length(w) = -1 - Num(c) BY DEF Length, c
<1>5. -1 - z \in Int /\ -1 - z < 0 OBVIOUS
<1> QED BY <1>3, <1>4, <1>5

\* Taken for signed, it is that number as well, unless the first bit is set.
LEMMA IntLengthIs ==
    ASSUME NEW n \in Nat, n < Huge, NEW m \in {1, 2, 4}, Fits(n, m), NEW b, Len(b) = m,
           \A k \in 1..m : b[k] = Bytes(n, m)[k]
    PROVE  /\ Length(intFromBuf(b)) \in Int
           /\ ~HighBit(n, m) => Length(intFromBuf(b)) = n
           /\ HighBit(n, m) => Length(intFromBuf(b)) < 0
<1>1. /\ b[1] \in Nat /\ b[1] < 256
      /\ b[1] >= 128 <=> HighBit(n, m)
  <2>1. CASE m = 1 BY <2>1, Bytes1 DEF Fits, HighBit
  <2>2. CASE m = 2
    <3>1. b[1] = n \div 256 /\ n < 65536 BY <2>2, Bytes2 DEF Fits
    <3>2. n \div 256 \in Nat /\ n \div 256 < 256 /\ (n \div 256 >= 128 <=> n >= 32768) BY <3>1
    <3> QED BY <2>2, <3>1, <3>2 DEF HighBit
  <2>3. CASE m = 4
    <3>0. b[1] = Bytes(n, 4)[1] BY <2>3
    <3>1. b[1] = D3(n) BY <3>0, Bytes4, Zenon
    <3>2. D3(n) \in Nat /\ D3(n) < 64 BY Digits, DigitType DEF Byte, Below
    <3> QED BY <2>3, <3>1, <3>2 DEF HighBit
  <2> QED BY <2>1, <2>2, <2>3
<1>2. CASE b[1] < 128
  <2>1. intFromBuf(b) = uintFromBuf(b)
      BY <1>1, <1>2 DEF intFromBuf, uintFromBuf, SignExtend, ZeroExtend
  <2>2. Length(uintFromBuf(b)) = n BY UintLengthIs, Zenon
  <2> QED BY <1>1, <1>2, <2>1, <2>2
<1>3. CASE b[1] >= 128
  <2> DEFINE w == Fill(b, 255)
  <2>1. intFromBuf(b) = w BY <1>3 DEF intFromBuf, SignExtend
  <2>2. w[1] = 255 BY DEF Fill
  <2>3. w \in [1..8 -> Byte]
    <3>1. Len(b) \in 1..8 /\ \A i \in 1..Len(b) : b[i] \in Byte BY BytesType
    <3>2. 255 \in Byte BY DEF Byte, Below
    <3>3. PICK y \in Byte : y = 255 BY <3>2
    <3>4. Fill(b, y) \in [1..8 -> Byte] BY <3>1, FillType, Zenon
    <3> QED BY <3>3, <3>4
  <2> HIDE DEF w
  <2>4. w \in Word64 /\ Negative(w) BY <2>2, <2>3 DEF Word64, Negative
  <2>5. Length(w) \in Int /\ Length(w) < 0 BY <2>4, NegativeLength
  <2> QED BY <1>1, <1>3, <2>1, <2>5
<1> QED BY <1>1, <1>2, <1>3

-----------------------------------------------------------------------------
(* types.Get *)

OwnIs(c, t, n) == Get(c).typ = t /\ Get(c).length = n /\ Get(c).own = TRUE
SizedIs(c, t, n) == Get(c).typ = t /\ Get(c).length = n /\ Get(c).own = FALSE

LEMMA FixUint ==
    ASSUME NEW c \in Nat, c <= 127
    PROVE  OwnIs(c, "Uint", 0)
<1>1. Get(c) = G("Uint", 0, TRUE) BY DEF Get, Between, G, Unknown
<1> QED BY <1>1 DEF G, OwnIs

LEMMA FixMap ==
    ASSUME NEW c \in Nat, NEW n \in Nat, c = 128 + n, n <= 15
    PROVE  OwnIs(c, "Map", n)
<1>1. Get(c) = G("Map", c - 128, TRUE) BY DEF Get, Between, G, Unknown
<1>2. c - 128 = n OBVIOUS
<1> QED BY <1>1, <1>2 DEF G, OwnIs

LEMMA FixArray ==
    ASSUME NEW c \in Nat, NEW n \in Nat, c = 144 + n, n <= 15
    PROVE  OwnIs(c, "Array", n)
<1>1. Get(c) = G("Array", c - 144, TRUE) BY DEF Get, Between, G, Unknown
<1>2. c - 144 = n OBVIOUS
<1> QED BY <1>1, <1>2 DEF G, OwnIs

LEMMA FixStr ==
    ASSUME NEW c \in Nat, NEW n \in Nat, c = 160 + n, n <= 31
    PROVE  OwnIs(c, "Str", n)
<1>1. Get(c) = G("Str", c - 160, TRUE) BY DEF Get, Between, G, Unknown
<1>2. c - 160 = n OBVIOUS
<1> QED BY <1>1, <1>2 DEF G, OwnIs

LEMMA FixInt ==
    ASSUME NEW c \in Nat, 224 <= c, c <= 255
    PROVE  OwnIs(c, "Int", 0)
<1>1. Get(c) = G("Int", 0, TRUE) BY DEF Get, Between, G, Unknown
<1> QED BY <1>1 DEF G, OwnIs

LEMMA GetOwn ==
    /\ OwnIs(192, "Nil", 0) /\ OwnIs(194, "Bool", 0) /\ OwnIs(195, "Bool", 0)
    /\ OwnIs(202, "Float", 4) /\ OwnIs(203, "Float", 8)
BY DEF Get, Between, G, Width, Unknown, OwnIs

LEMMA GetInteger ==
    /\ OwnIs(204, "Uint", 1) /\ OwnIs(205, "Uint", 2) /\ OwnIs(206, "Uint", 4) /\ OwnIs(207, "Uint", 8)
    /\ OwnIs(208, "Int", 1) /\ OwnIs(209, "Int", 2) /\ OwnIs(210, "Int", 4) /\ OwnIs(211, "Int", 8)
BY DEF Get, Between, G, Width, Unknown, OwnIs

LEMMA GetExt ==
    /\ SizedIs(199, "Ext", 1) /\ SizedIs(200, "Ext", 2) /\ SizedIs(201, "Ext", 4)
    /\ OwnIs(212, "Ext", 2) /\ OwnIs(213, "Ext", 3) /\ OwnIs(214, "Ext", 5) /\ OwnIs(215, "Ext", 9)
    /\ OwnIs(216, "Ext", 17)
BY DEF Get, Between, G, Width, Unknown, OwnIs, SizedIs

LEMMA GetSized ==
    /\ SizedIs(196, "Bin", 1) /\ SizedIs(197, "Bin", 2) /\ SizedIs(198, "Bin", 4)
    /\ SizedIs(217, "Str", 1) /\ SizedIs(218, "Str", 2) /\ SizedIs(219, "Str", 4)
    /\ SizedIs(220, "Array", 2) /\ SizedIs(221, "Array", 4)
    /\ SizedIs(222, "Map", 2) /\ SizedIs(223, "Map", 4)
BY DEF Get, Between, G, Width, Unknown, SizedIs

LEMMA GetOther == SizedIs(193, "Invalid", 0) /\ OwnIs(256, "Unknown", 0)
BY DEF Get, Between, G, Width, Unknown, OwnIs, SizedIs

\* The head of any byte.
Sound(c) == Get(c).length \in Nat /\ Get(c).own \in BOOLEAN /\ (~Get(c).own => Get(c).length \in {0, 1, 2, 4})

LEMMA SoundOwn ==
    ASSUME NEW c, NEW t, NEW n \in Nat, OwnIs(c, t, n)
    PROVE  Sound(c)
BY Zenon DEF OwnIs, Sound

LEMMA SoundSized ==
    ASSUME NEW c, NEW t, NEW n \in Nat, n = 0 \/ n = 1 \/ n = 2 \/ n = 4, SizedIs(c, t, n)
    PROVE  Sound(c)
BY Zenon DEF SizedIs, Sound

LEMMA GetType ==
    ASSUME NEW c \in Nat, c <= Unknown
    PROVE  Sound(c)
<1>1. CASE c <= 127 BY <1>1, FixUint, SoundOwn
<1>2. CASE 128 <= c /\ c <= 143
  <2>1. PICK n \in Nat : c = 128 + n /\ n <= 15
    <3>1. c - 128 \in Nat /\ c = 128 + (c - 128) /\ c - 128 <= 15 BY <1>2
    <3> QED BY <3>1
  <2> QED BY <2>1, FixMap, SoundOwn
<1>3. CASE 144 <= c /\ c <= 159
  <2>1. PICK n \in Nat : c = 144 + n /\ n <= 15
    <3>1. c - 144 \in Nat /\ c = 144 + (c - 144) /\ c - 144 <= 15 BY <1>3
    <3> QED BY <3>1
  <2> QED BY <2>1, FixArray, SoundOwn
<1>4. CASE 160 <= c /\ c <= 191
  <2>1. PICK n \in Nat : c = 160 + n /\ n <= 31
    <3>1. c - 160 \in Nat /\ c = 160 + (c - 160) /\ c - 160 <= 31 BY <1>4
    <3> QED BY <3>1
  <2> QED BY <2>1, FixStr, SoundOwn
<1>5. CASE 224 <= c /\ c <= 255 BY <1>5, FixInt, SoundOwn
<1>6. CASE 192 <= c /\ c <= 203
  <2>1. Sound(192) /\ Sound(194) /\ Sound(195) /\ Sound(202) /\ Sound(203) BY GetOwn, SoundOwn
  <2>2. Sound(196) /\ Sound(197) /\ Sound(198) BY GetSized, SoundSized
  <2>3. Sound(199) /\ Sound(200) /\ Sound(201) BY GetExt, SoundSized
  <2>4. Sound(193) BY GetOther, SoundSized
  <2>5. \/ c = 192 \/ c = 193 \/ c = 194 \/ c = 195 \/ c = 196 \/ c = 197 \/ c = 198 \/ c = 199
        \/ c = 200 \/ c = 201 \/ c = 202 \/ c = 203
      BY <1>6
  <2> QED BY <2>1, <2>2, <2>3, <2>4, <2>5
<1>7. CASE 204 <= c /\ c <= 211
  <2>1. /\ Sound(204) /\ Sound(205) /\ Sound(206) /\ Sound(207)
        /\ Sound(208) /\ Sound(209) /\ Sound(210) /\ Sound(211)
      BY GetInteger, SoundOwn
  <2>2. c = 204 \/ c = 205 \/ c = 206 \/ c = 207 \/ c = 208 \/ c = 209 \/ c = 210 \/ c = 211 BY <1>7
  <2> QED BY <2>1, <2>2
<1>8. CASE 212 <= c /\ c <= 223
  <2>1. Sound(212) /\ Sound(213) /\ Sound(214) /\ Sound(215) /\ Sound(216) BY GetExt, SoundOwn
  <2>2. Sound(217) /\ Sound(218) /\ Sound(219) BY GetSized, SoundSized
  <2>3. Sound(220) /\ Sound(221) /\ Sound(222) /\ Sound(223) BY GetSized, SoundSized
  <2>4. \/ c = 212 \/ c = 213 \/ c = 214 \/ c = 215 \/ c = 216 \/ c = 217 \/ c = 218 \/ c = 219
        \/ c = 220 \/ c = 221 \/ c = 222 \/ c = 223
      BY <1>8
  <2> QED BY <2>1, <2>2, <2>3, <2>4
<1>9. CASE c = 256 BY <1>9, GetOther, SoundOwn
<1>10. c <= 256 BY DEF Unknown
<1> QED BY <1>1, <1>2, <1>3, <1>4, <1>5, <1>6, <1>7, <1>8, <1>9, <1>10

-----------------------------------------------------------------------------
(* Tokens *)

Bytewise == \A p \in DOMAIN buf.at : buf.at[p] \in Byte

LEMMA CellType ==
    ASSUME Bytewise, NEW p
    PROVE  Cell(p) \in Nat /\ Cell(p) <= Unknown
<1>1. CASE p \in DOMAIN buf.at
  <2>1. buf.at[p] \in Nat /\ buf.at[p] < 256 BY <1>1 DEF Bytewise, Byte, Below
  <2> QED BY <1>1, <2>1 DEF Cell, Unknown
<1>2. CASE p \notin DOMAIN buf.at BY <1>2 DEF Cell, Unknown
<1> QED BY <1>1, <1>2

LEMMA RawIs ==
    ASSUME NEW p \in Nat, NEW n \in Nat
    PROVE  Len(Raw(p, n)) = n /\ \A k \in 1..n : Raw(p, n)[k] = Cell(p + k - 1)
BY DEF Raw

LEMMA WiderWord ==
    ASSUME NEW S, NEW U, S \subseteq U, NEW w \in [1..8 -> S]
    PROVE  w \in [1..8 -> U]
OBVIOUS

LEMMA UintLengthType ==
    ASSUME NEW b, NEW m \in {0, 1, 2, 4}, Len(b) = m, \A k \in 1..m : b[k] \in Nat
    PROVE  Length(uintFromBuf(b)) \in Nat
<1>1. PICK w \in [1..8 -> Nat] : w = uintFromBuf(b) /\ w[1] = 0
  <2>1. CASE m = 0
    <3>1. uintFromBuf(b) = Word(0) BY <2>1 DEF uintFromBuf
    <3>2. Word(0) \in [1..8 -> Byte] /\ Word(0)[1] = 0 BY WordType DEF Word64
    <3>3. Byte \subseteq Nat BY DEF Byte, Below
    <3>4. Word(0) \in [1..8 -> Nat] BY <3>2, <3>3, WiderWord, Zenon
    <3> QED BY <3>1, <3>2, <3>4, Zenon
  <2>2. CASE m # 0
    <3>1. uintFromBuf(b) = Fill(b, 0) BY <2>2 DEF uintFromBuf, ZeroExtend
    <3>2. Len(b) \in 1..8 /\ (\A k \in 1..Len(b) : b[k] \in Nat) /\ 0 \in Nat BY <2>2
    <3>3. Fill(b, 0) \in [1..8 -> Nat] BY <3>2, FillType, Zenon
    <3>4. Fill(b, 0)[1] = 0 BY <2>2 DEF Fill
    <3> QED BY <3>1, <3>3, <3>4
  <2> QED BY <2>1, <2>2
<1>2. ~Negative(w) BY <1>1 DEF Negative
<1>3. Num(Low(w, 4)) \in Nat
  <2> DEFINE b4 == Low(w, 4)
  <2>0. 4 \in 1..8 /\ 1 \in 1..4 /\ 2 \in 1..4 /\ 3 \in 1..4 /\ 4 \in 1..4 OBVIOUS
  <2>1. b4[1] \in Nat /\ b4[2] \in Nat /\ b4[3] \in Nat /\ b4[4] \in Nat BY <2>0, LowIs, Zenon
  <2> HIDE DEF b4
  <2>2. Num(b4) \in Nat BY <2>1, NumType, Zenon
  <2> QED BY <2>2 DEF b4
<1>4. Huge \in Nat BY DEF Huge
<1>5. Length(w) = IF \A i \in 1..4 : w[i] = 0 THEN Num(Low(w, 4)) ELSE Huge BY <1>2 DEF Length
<1> QED BY <1>1, <1>3, <1>4, <1>5

Nested(t) == t \in {"Array", "Map"}

\* What a head with the length n, in m bytes or in its first byte, is read as.
SizedAt(p, t, n, m) ==
    /\ Cell(p) # Unknown
    /\ Token(p).typ = t /\ Token(p).next = p + 1 + m /\ Token(p).byt = Cell(p)
    /\ Token(p).length = IF Nested(t) THEN 0 ELSE n
    /\ Token(p).items = IF Nested(t) THEN n ELSE 0
    /\ UintLength(p) = n
    /\ IntLength(p) \in Int
    /\ ~HighBit(n, m) => IntLength(p) = n
    /\ HighBit(n, m) => IntLength(p) < 0

\* A token whose first byte tells all of it.
LEMMA OwnToken ==
    ASSUME NEW p \in Nat, NEW c, NEW t, NEW n \in Nat, Cell(p) = c, OwnIs(c, t, n)
    PROVE  /\ Token(p).byt = c /\ Token(p).typ = t /\ Token(p).next = p + 1
           /\ Token(p).length = IF Nested(t) THEN 0 ELSE n
           /\ Token(p).items = IF Nested(t) THEN n ELSE 0
           /\ UintLength(p) = n /\ IntLength(p) = n
BY DEF Token, OwnIs, UintLength, IntLength, Nested

\* The m bytes behind the one at p are those of b.
Follows(b, p, m) == \A k \in 1..m : Cell(p + k) = b[k]

\* A token whose length follows.
LEMMA SizedIsRead ==
    ASSUME NEW p \in Nat, NEW t, NEW m \in {1, 2, 4}, SizedIs(Cell(p), t, m), Cell(p) # Unknown,
           NEW n \in Nat, n < Huge, Fits(n, m), Follows(Bytes(n, m), p, m)
    PROVE  SizedAt(p, t, n, m)
<1> DEFINE c == Cell(p)
<1> DEFINE b == Raw(p + 1, m)
<1>1. Len(b) = m /\ \A k \in 1..m : b[k] = Bytes(n, m)[k]
  <2>1. PICK q \in Nat : q = p + 1 OBVIOUS
  <2>a. m \in Nat OBVIOUS
  <2>2. Len(Raw(q, m)) = m /\ \A k \in 1..m : Raw(q, m)[k] = Cell(q + k - 1) BY <2>a, RawIs, Zenon
  <2>3. \A k \in 1..m : q + k - 1 = p + k BY <2>1
  <2> QED BY <2>1, <2>2, <2>3 DEF Follows
<1> HIDE DEF b
<1>2. Length(uintFromBuf(b)) = n BY <1>1, UintLengthIs, Zenon
<1>3. /\ Length(intFromBuf(b)) \in Int
      /\ ~HighBit(n, m) => Length(intFromBuf(b)) = n
      /\ HighBit(n, m) => Length(intFromBuf(b)) < 0
    BY <1>1, IntLengthIs, Zenon
<1>4. Get(c).typ = t /\ Get(c).length = m /\ Get(c).own = FALSE BY DEF SizedIs
<1>5. UintLength(p) = n BY <1>2, <1>4 DEF UintLength, LengthBytes, b
<1>6. IntLength(p) = Length(intFromBuf(b)) BY <1>4 DEF IntLength, LengthBytes, b
<1>7. /\ Token(p).byt = c /\ Token(p).typ = t /\ Token(p).next = p + 1 + m
      /\ Token(p).length = IF Nested(t) THEN 0 ELSE n
      /\ Token(p).items = IF Nested(t) THEN n ELSE 0
    BY <1>2, <1>4 DEF Token, Nested, b
<1> QED BY <1>3, <1>5, <1>6, <1>7 DEF SizedAt

LEMMA OwnIsRead ==
    ASSUME NEW p \in Nat, NEW t, NEW n \in Nat, OwnIs(Cell(p), t, n), Cell(p) # Unknown
    PROVE  SizedAt(p, t, n, 0)
<1>1. ~HighBit(n, 0) BY DEF HighBit
<1>2. p + 1 = p + 1 + 0 /\ n \in Int OBVIOUS
<1> QED BY <1>1, <1>2, OwnToken DEF SizedAt

\* Any token.
LEMMA TokenType ==
    ASSUME Bytewise, NEW p \in Nat, lim \in Nat
    PROVE  /\ Token(p).byt = Cell(p) /\ Token(p).typ = Get(Cell(p)).typ
           /\ Token(p).length \in Nat /\ Token(p).items \in Nat
           /\ Token(p).next \in Nat /\ p < Token(p).next
           /\ HasToken(p) => Token(p).next <= lim
           /\ Token(p).next <= lim => HasToken(p)
           /\ Nested(Token(p).typ) => Token(p).length = 0
           /\ ~Nested(Token(p).typ) => Token(p).items = 0
<1>1. PICK c \in Nat : c = Cell(p) /\ c <= Unknown BY CellType
<1>2. Sound(c) BY <1>1, GetType
<1>3. PICK m \in Nat : m = Get(c).length BY <1>2 DEF Sound
<1>4. CASE Get(c).own
  <2>1. Get(c).own = TRUE BY <1>2, <1>4, Zenon DEF Sound
  <2>2. OwnIs(c, Get(c).typ, m) BY <1>3, <2>1, Zenon DEF OwnIs
  <2>3. /\ Token(p).byt = c /\ Token(p).typ = Get(c).typ /\ Token(p).next = p + 1
        /\ Token(p).length = IF Nested(Get(c).typ) THEN 0 ELSE m
        /\ Token(p).items = IF Nested(Get(c).typ) THEN m ELSE 0
      BY <1>1, <2>2, OwnToken
  <2>4. HasToken(p) <=> p + 1 <= lim BY <1>1, <1>4 DEF HasToken, Has
  <2> QED BY <1>1, <2>3, <2>4
<1>5. CASE ~Get(c).own
  <2>1. m \in {0, 1, 2, 4} BY <1>2, <1>3, <1>5 DEF Sound
  <2> DEFINE b == Raw(p + 1, m)
  <2>2. Len(b) = m /\ \A k \in 1..m : b[k] \in Nat
    <3>1. PICK q \in Nat : q = p + 1 OBVIOUS
    <3>2. Len(Raw(q, m)) = m /\ \A k \in 1..m : Raw(q, m)[k] = Cell(q + k - 1) BY RawIs
    <3>3. \A x : Cell(x) \in Nat BY CellType
    <3> QED BY <3>1, <3>2, <3>3
  <2> HIDE DEF b
  <2>3. PICK l \in Nat : l = Length(uintFromBuf(b)) BY <2>1, <2>2, UintLengthType, Zenon
  <2>4. /\ Token(p).byt = c /\ Token(p).typ = Get(c).typ /\ Token(p).next = p + 1 + m
        /\ Token(p).length = IF Nested(Get(c).typ) THEN 0 ELSE l
        /\ Token(p).items = IF Nested(Get(c).typ) THEN l ELSE 0
      BY <1>1, <1>3, <1>5, <2>3 DEF Token, Nested, b
  <2>5. HasToken(p) <=> p + 1 <= lim /\ p + 1 + m <= lim BY <1>1, <1>3, <1>5 DEF HasToken, Has
  <2> QED BY <1>1, <2>4, <2>5
<1> QED BY <1>4, <1>5

-----------------------------------------------------------------------------
(* The heads that the encoders write *)

LEMMA WordSeq ==
    ASSUME NEW S, NEW n \in Nat, NEW w \in [1..n -> S]
    PROVE  w \in Seq(S) /\ Len(w) = n
OBVIOUS

\* The bytes from p on are those of h.
Lies(h, p) == \A j \in 1..Len(h) : Cell(p + j - 1) = h[j]

Head1(c, b) == <<c>> \o b

LEMMA ConsType ==
    ASSUME NEW c \in Byte, NEW m \in Nat, NEW b \in [1..m -> Byte]
    PROVE  /\ Head1(c, b) \in Seq(Byte) /\ Len(Head1(c, b)) = m + 1 /\ Head1(c, b)[1] = c
           /\ \A k \in 1..m : Head1(c, b)[k + 1] = b[k]
<1>1. b \in Seq(Byte) /\ Len(b) = m BY WordSeq, Zenon
<1> QED BY <1>1 DEF Head1

LEMMA ConsAt ==
    ASSUME NEW c \in Byte, NEW m \in Nat, NEW b \in [1..m -> Byte], NEW p \in Nat, Lies(Head1(c, b), p)
    PROVE  Cell(p) = c /\ Follows(b, p, m)
<1> DEFINE h == Head1(c, b)
<1>1. Len(h) = m + 1 /\ h[1] = c /\ \A k \in 1..m : h[k + 1] = b[k] BY ConsType, ZenonT(30)
<1> HIDE DEF h
<1>2. Lies(h, p) BY DEF h
<1>3. \A j \in 1..(m + 1) : Cell(p + j - 1) = h[j] BY <1>1, <1>2, Zenon DEF Lies
<1>4. Cell(p) = c
  <2>1. 1 \in 1..(m + 1) /\ p + 1 - 1 = p OBVIOUS
  <2> QED BY <1>1, <1>3, <2>1, Zenon
<1>5. ASSUME NEW k \in 1..m PROVE Cell(p + k) = b[k]
  <2>1. k + 1 \in 1..(m + 1) /\ p + (k + 1) - 1 = p + k OBVIOUS
  <2> QED BY <1>1, <1>3, <2>1, Zenon
<1> QED BY <1>4, <1>5, Zenon DEF Follows

LEMMA OneByte ==
    ASSUME NEW c \in Byte, NEW h, h = <<c>>
    PROVE  /\ h \in Seq(Byte) /\ Len(h) = 1 /\ h[1] = c
           /\ \A p \in Nat : Lies(h, p) => Cell(p) = c
<1>1. h \in Seq(Byte) /\ Len(h) = 1 /\ h[1] = c OBVIOUS
<1>2. ASSUME NEW p \in Nat, Lies(h, p) PROVE Cell(p) = c
  <2>1. 1 \in 1..1 /\ p + 1 - 1 = p OBVIOUS
  <2> QED BY <1>1, <1>2, <2>1, Zenon DEF Lies
<1> QED BY <1>1, <1>2, Zenon

\* A head with the length n, in m bytes or in its first byte.
SizedForm(h, t, n, m) ==
    \E c \in Byte :
       \/ m = 0 /\ h = <<c>> /\ OwnIs(c, t, n)
       \/ m \in {1, 2, 4} /\ h = Head1(c, Bytes(n, m)) /\ SizedIs(c, t, m) /\ Fits(n, m)

LEMMA SizedForms ==
    ASSUME NEW h, NEW t, NEW n \in Nat, n < Huge, NEW m, SizedForm(h, t, n, m)
    PROVE  /\ h \in Seq(Byte) /\ Len(h) = m + 1 /\ m \in {0, 1, 2, 4}
           /\ \A p \in Nat : Lies(h, p) => SizedAt(p, t, n, m)
<1>1. PICK c \in Byte :
          \/ m = 0 /\ h = <<c>> /\ OwnIs(c, t, n)
          \/ m \in {1, 2, 4} /\ h = Head1(c, Bytes(n, m)) /\ SizedIs(c, t, m) /\ Fits(n, m)
    BY Zenon DEF SizedForm
<1>2. c # Unknown BY DEF Byte, Below, Unknown
<1>3. CASE m = 0 /\ h = <<c>> /\ OwnIs(c, t, n)
  <2>1. h \in Seq(Byte) /\ Len(h) = 1 /\ \A p \in Nat : Lies(h, p) => Cell(p) = c BY <1>3, OneByte, Zenon
  <2>2. Len(h) = m + 1 BY <1>3, <2>1
  <2>4. ASSUME NEW p \in Nat, Lies(h, p) PROVE SizedAt(p, t, n, m)
    <3>1. Cell(p) = c BY <2>1, <2>4, Zenon
    <3> QED BY <1>2, <1>3, <3>1, OwnIsRead, Zenon
  <2> QED BY <1>3, <2>1, <2>2, <2>4
<1>4. CASE m \in {1, 2, 4} /\ h = Head1(c, Bytes(n, m)) /\ SizedIs(c, t, m) /\ Fits(n, m)
  <2> DEFINE b == Bytes(n, m)
  <2>1. m \in Nat BY <1>4
  <2>2. b \in [1..m -> Byte] BY <1>4, BytesType, Zenon
  <2>3. h = Head1(c, b) BY <1>4
  <2> HIDE DEF b
  <2>4. h \in Seq(Byte) /\ Len(h) = m + 1 BY <2>1, <2>2, <2>3, ConsType, Zenon
  <2>5. ASSUME NEW p \in Nat, Lies(h, p) PROVE SizedAt(p, t, n, m)
    <3>0. Lies(Head1(c, b), p) BY <2>3, <2>5, Zenon
    <3>1. Cell(p) = c /\ Follows(b, p, m) BY <2>1, <2>2, <3>0, ConsAt, Zenon
    <3> QED BY <1>2, <1>4, <3>1, SizedIsRead, Zenon DEF b
  <2> QED BY <1>4, <2>4, <2>5
<1> QED BY <1>1, <1>3, <1>4, Zenon

LEMMA ShortForm ==
    ASSUME NEW c \in Byte, NEW t, NEW n, OwnIs(c, t, n)
    PROVE  SizedForm(<<c>>, t, n, 0)
BY Zenon DEF SizedForm

LEMMA LongForm ==
    ASSUME NEW c \in Byte, NEW m \in {1, 2, 4}, NEW t, NEW n, SizedIs(c, t, m), Fits(n, m)
    PROVE  SizedForm(Head1(c, Bytes(n, m)), t, n, m)
BY Zenon DEF SizedForm

\* The first bytes of the heads.
LEMMA Codes ==
    /\ 196 \in Byte /\ 197 \in Byte /\ 198 \in Byte /\ 217 \in Byte /\ 218 \in Byte /\ 219 \in Byte
    /\ 220 \in Byte /\ 221 \in Byte /\ 222 \in Byte /\ 223 \in Byte
BY DEF Byte, Below

LEMMA StringForm ==
    ASSUME NEW l \in Nat, l < Huge
    PROVE  \E m \in {0, 1, 2, 4} : SizedForm(AppendString(l).head, "Str", l, m) /\ (HighBit(l, m) <=> Signed(l))
<1>1. CASE l <= 31
  <2>1. PICK c \in Nat : c = 160 + l OBVIOUS
  <2>2. c \in Byte BY <1>1, <2>1 DEF Byte, Below
  <2>3. OwnIs(c, "Str", l) BY <1>1, <2>1, FixStr
  <2>4. AppendString(l).head = <<c>> BY <1>1, <2>1 DEF AppendString, Enc, Between
  <2>5. SizedForm(<<c>>, "Str", l, 0) BY <2>2, <2>3, ShortForm, Zenon
  <2>6. HighBit(l, 0) <=> Signed(l) BY <1>1 DEF HighBit, Signed, Between
  <2> QED BY <2>4, <2>5, <2>6
<1>2. CASE 32 <= l /\ l <= 255
  <2>1. PICK c \in Byte : c = 217 BY Codes
  <2>2. SizedIs(c, "Str", 1) BY <2>1, GetSized
  <2>3. AppendString(l).head = Head1(c, Bytes(l, 1)) BY <1>2, <2>1 DEF AppendString, Enc, Between, Head1
  <2>4. Fits(l, 1) BY <1>2 DEF Fits
  <2>5. SizedForm(Head1(c, Bytes(l, 1)), "Str", l, 1) BY <2>2, <2>4, LongForm, Zenon
  <2>6. HighBit(l, 1) <=> Signed(l) BY <1>2 DEF HighBit, Signed, Between
  <2> QED BY <2>3, <2>5, <2>6
<1>3. CASE 256 <= l /\ l <= 65535
  <2>1. PICK c \in Byte : c = 218 BY Codes
  <2>2. SizedIs(c, "Str", 2) BY <2>1, GetSized
  <2>3. AppendString(l).head = Head1(c, Bytes(l, 2)) BY <1>3, <2>1 DEF AppendString, Enc, Between, Head1
  <2>4. Fits(l, 2) BY <1>3 DEF Fits
  <2>5. SizedForm(Head1(c, Bytes(l, 2)), "Str", l, 2) BY <2>2, <2>4, LongForm, Zenon
  <2>6. HighBit(l, 2) <=> Signed(l) BY <1>3 DEF HighBit, Signed, Between
  <2> QED BY <2>3, <2>5, <2>6
<1>4. CASE l > 65535
  <2>1. PICK c \in Byte : c = 219 BY Codes
  <2>2. SizedIs(c, "Str", 4) BY <2>1, GetSized
  <2>3. AppendString(l).head = Head1(c, Bytes(l, 4)) BY <1>4, <2>1 DEF AppendString, Enc, Between, Head1
  <2>4. Fits(l, 4) BY DEF Fits
  <2>5. SizedForm(Head1(c, Bytes(l, 4)), "Str", l, 4) BY <2>2, <2>4, LongForm, Zenon
  <2>6. HighBit(l, 4) <=> Signed(l) BY <1>4 DEF HighBit, Signed, Between
  <2> QED BY <2>3, <2>5, <2>6
<1> QED BY <1>1, <1>2, <1>3, <1>4

LEMMA DynamicForm ==
    ASSUME NEW l \in Nat
    PROVE  AppendStringDynamic(l).head = AppendString(l).head /\ AppendStringDynamic(l).body = l
<1>1. CASE l <= 31 BY <1>1 DEF AppendStringDynamic, AppendString, Enc, Between
<1>2. CASE 32 <= l /\ l <= 255 BY <1>2 DEF AppendStringDynamic, AppendString, Enc, Between
<1>3. CASE 256 <= l /\ l <= 65535 BY <1>3 DEF AppendStringDynamic, AppendString, Enc, Between
<1>4. CASE l > 65535 BY <1>4 DEF AppendStringDynamic, AppendString, Enc, Between
<1> QED BY <1>1, <1>2, <1>3, <1>4

LEMMA UnknownLengthForm ==
    ASSUME NEW l \in Nat, l < Huge
    PROVE  /\ SizedForm(AppendStringUnknownLength(l).head, "Str", l, 4) /\ ~HighBit(l, 4)
           /\ SizedForm(AppendBinaryUnknownLength(l).head, "Bin", l, 4)
<1>1. PICK c \in Byte : c = 219 BY Codes
<1>2. PICK d \in Byte : d = 198 BY Codes
<1>3. SizedIs(c, "Str", 4) /\ SizedIs(d, "Bin", 4) BY <1>1, <1>2, GetSized
<1>4. AppendStringUnknownLength(l).head = Head1(c, Bytes(l, 4))
    BY <1>1 DEF AppendStringUnknownLength, Enc, Head1
<1>5. AppendBinaryUnknownLength(l).head = Head1(d, Bytes(l, 4))
    BY <1>2 DEF AppendBinaryUnknownLength, Enc, Head1
<1>6. Fits(l, 4) /\ ~HighBit(l, 4) BY DEF Fits, HighBit
<1>7. SizedForm(Head1(c, Bytes(l, 4)), "Str", l, 4) /\ SizedForm(Head1(d, Bytes(l, 4)), "Bin", l, 4)
    BY <1>3, <1>6, LongForm, Zenon
<1> QED BY <1>4, <1>5, <1>6, <1>7

LEMMA Max255Form ==
    ASSUME NEW n \in Nat, NEW l \in Nat, l = IF n > 255 THEN 255 ELSE n
    PROVE  /\ SizedForm(AppendStringMax255(n).head, "Str", l, 1) /\ (HighBit(l, 1) <=> l >= 128)
           /\ AppendStringMax255(n).body = l
<1>1. PICK c \in Byte : c = 217 BY Codes
<1>2. SizedIs(c, "Str", 1) BY <1>1, GetSized
<1>3. AppendStringMax255(n).head = Head1(c, Bytes(l, 1)) BY <1>1 DEF AppendStringMax255, Enc, Head1
<1>4. Fits(l, 1) BY DEF Fits
<1>5. SizedForm(Head1(c, Bytes(l, 1)), "Str", l, 1) BY <1>2, <1>4, LongForm
<1>6. HighBit(l, 1) <=> l >= 128 BY DEF HighBit
<1>7. AppendStringMax255(n).body = l BY DEF AppendStringMax255, Enc
<1> QED BY <1>3, <1>5, <1>6, <1>7

LEMMA BinaryForm ==
    ASSUME NEW l \in Nat, l < Huge
    PROVE  \E m \in {0, 1, 2, 4} : SizedForm(AppendBinary(l).head, "Bin", l, m) /\ (HighBit(l, m) <=> Signed(l))
<1>1. CASE l <= 255
  <2>1. PICK c \in Byte : c = 196 BY Codes
  <2>2. SizedIs(c, "Bin", 1) BY <2>1, GetSized
  <2>3. AppendBinary(l).head = Head1(c, Bytes(l, 1)) BY <1>1, <2>1 DEF AppendBinary, appendBinaryHeader, Enc, Between, Head1
  <2>4. Fits(l, 1) BY <1>1 DEF Fits
  <2>5. SizedForm(Head1(c, Bytes(l, 1)), "Bin", l, 1) BY <2>2, <2>4, LongForm, Zenon
  <2>6. HighBit(l, 1) <=> Signed(l) BY <1>1 DEF HighBit, Signed, Between
  <2> QED BY <2>3, <2>5, <2>6
<1>2. CASE 256 <= l /\ l <= 65535
  <2>1. PICK c \in Byte : c = 197 BY Codes
  <2>2. SizedIs(c, "Bin", 2) BY <2>1, GetSized
  <2>3. AppendBinary(l).head = Head1(c, Bytes(l, 2)) BY <1>2, <2>1 DEF AppendBinary, appendBinaryHeader, Enc, Between, Head1
  <2>4. Fits(l, 2) BY <1>2 DEF Fits
  <2>5. SizedForm(Head1(c, Bytes(l, 2)), "Bin", l, 2) BY <2>2, <2>4, LongForm, Zenon
  <2>6. HighBit(l, 2) <=> Signed(l) BY <1>2 DEF HighBit, Signed, Between
  <2> QED BY <2>3, <2>5, <2>6
<1>3. CASE l > 65535
  <2>1. PICK c \in Byte : c = 198 BY Codes
  <2>2. SizedIs(c, "Bin", 4) BY <2>1, GetSized
  <2>3. AppendBinary(l).head = Head1(c, Bytes(l, 4)) BY <1>3, <2>1 DEF AppendBinary, appendBinaryHeader, Enc, Between, Head1
  <2>4. Fits(l, 4) BY <1>3 DEF Fits
  <2>5. SizedForm(Head1(c, Bytes(l, 4)), "Bin", l, 4) BY <2>2, <2>4, LongForm, Zenon
  <2>6. HighBit(l, 4) <=> Signed(l) BY <1>3 DEF HighBit, Signed, Between
  <2> QED BY <2>3, <2>5, <2>6
<1> QED BY <1>1, <1>2, <1>3

LEMMA ArrayForm ==
    ASSUME NEW l \in Nat, l < Huge
    PROVE  \E m \in {0, 1, 2, 4} : SizedForm(AppendArrayHeader(l).head, "Array", l, m) /\ (HighBit(l, m) <=> Between(l, 32768, 65535))
<1>1. CASE l <= 15
  <2>1. PICK c \in Nat : c = 144 + l OBVIOUS
  <2>2. c \in Byte BY <1>1, <2>1 DEF Byte, Below
  <2>3. OwnIs(c, "Array", l) BY <1>1, <2>1, FixArray
  <2>4. AppendArrayHeader(l).head = <<c>> BY <1>1, <2>1 DEF AppendArrayHeader, Enc, Between
  <2>5. SizedForm(<<c>>, "Array", l, 0) BY <2>2, <2>3, ShortForm, Zenon
  <2>6. HighBit(l, 0) <=> Between(l, 32768, 65535) BY <1>1 DEF HighBit, Signed, Between
  <2> QED BY <2>4, <2>5, <2>6
<1>2. CASE 16 <= l /\ l <= 65535
  <2>1. PICK c \in Byte : c = 220 BY Codes
  <2>2. SizedIs(c, "Array", 2) BY <2>1, GetSized
  <2>3. AppendArrayHeader(l).head = Head1(c, Bytes(l, 2)) BY <1>2, <2>1 DEF AppendArrayHeader, Enc, Between, Head1
  <2>4. Fits(l, 2) BY <1>2 DEF Fits
  <2>5. SizedForm(Head1(c, Bytes(l, 2)), "Array", l, 2) BY <2>2, <2>4, LongForm, Zenon
  <2>6. HighBit(l, 2) <=> Between(l, 32768, 65535) BY <1>2 DEF HighBit, Signed, Between
  <2> QED BY <2>3, <2>5, <2>6
<1>3. CASE l > 65535
  <2>1. PICK c \in Byte : c = 221 BY Codes
  <2>2. SizedIs(c, "Array", 4) BY <2>1, GetSized
  <2>3. AppendArrayHeader(l).head = Head1(c, Bytes(l, 4)) BY <1>3, <2>1 DEF AppendArrayHeader, Enc, Between, Head1
  <2>4. Fits(l, 4) BY <1>3 DEF Fits
  <2>5. SizedForm(Head1(c, Bytes(l, 4)), "Array", l, 4) BY <2>2, <2>4, LongForm, Zenon
  <2>6. HighBit(l, 4) <=> Between(l, 32768, 65535) BY <1>3 DEF HighBit, Signed, Between
  <2> QED BY <2>3, <2>5, <2>6
<1> QED BY <1>1, <1>2, <1>3

LEMMA MapForm ==
    ASSUME NEW l \in Nat, l < Huge
    PROVE  \E m \in {0, 1, 2, 4} : SizedForm(AppendMapHeader(l).head, "Map", l, m) /\ (HighBit(l, m) <=> Between(l, 32768, 65535))
<1>1. CASE l <= 15
  <2>1. PICK c \in Nat : c = 128 + l OBVIOUS
  <2>2. c \in Byte BY <1>1, <2>1 DEF Byte, Below
  <2>3. OwnIs(c, "Map", l) BY <1>1, <2>1, FixMap
  <2>4. AppendMapHeader(l).head = <<c>> BY <1>1, <2>1 DEF AppendMapHeader, Enc, Between
  <2>5. SizedForm(<<c>>, "Map", l, 0) BY <2>2, <2>3, ShortForm, Zenon
  <2>6. HighBit(l, 0) <=> Between(l, 32768, 65535) BY <1>1 DEF HighBit, Signed, Between
  <2> QED BY <2>4, <2>5, <2>6
<1>2. CASE 16 <= l /\ l <= 65535
  <2>1. PICK c \in Byte : c = 222 BY Codes
  <2>2. SizedIs(c, "Map", 2) BY <2>1, GetSized
  <2>3. AppendMapHeader(l).head = Head1(c, Bytes(l, 2)) BY <1>2, <2>1 DEF AppendMapHeader, Enc, Between, Head1
  <2>4. Fits(l, 2) BY <1>2 DEF Fits
  <2>5. SizedForm(Head1(c, Bytes(l, 2)), "Map", l, 2) BY <2>2, <2>4, LongForm, Zenon
  <2>6. HighBit(l, 2) <=> Between(l, 32768, 65535) BY <1>2 DEF HighBit, Signed, Between
  <2> QED BY <2>3, <2>5, <2>6
<1>3. CASE l > 65535
  <2>1. PICK c \in Byte : c = 223 BY Codes
  <2>2. SizedIs(c, "Map", 4) BY <2>1, GetSized
  <2>3. AppendMapHeader(l).head = Head1(c, Bytes(l, 4)) BY <1>3, <2>1 DEF AppendMapHeader, Enc, Between, Head1
  <2>4. Fits(l, 4) BY <1>3 DEF Fits
  <2>5. SizedForm(Head1(c, Bytes(l, 4)), "Map", l, 4) BY <2>2, <2>4, LongForm, Zenon
  <2>6. HighBit(l, 4) <=> Between(l, 32768, 65535) BY <1>3 DEF HighBit, Signed, Between
  <2> QED BY <2>3, <2>5, <2>6
<1> QED BY <1>1, <1>2, <1>3

-----------------------------------------------------------------------------
(* Integers: the bytes that AppendInt and AppendUint leave out *)

\* The last m bytes of a word, and what the others are.
Tails(b, w, m) == Len(b) = m /\ \A k \in 1..m : b[k] = w[8 - m + k]
Above(w, m, x) == \A i \in 1..(8 - m) : w[i] = x

LEMMA Refilled ==
    ASSUME NEW w \in Word64, NEW m \in 1..8, NEW b, Tails(b, w, m), NEW x, Above(w, m, x)
    PROVE  Fill(b, x) = w
<1>1. ASSUME NEW i \in 1..8 PROVE w[i] = IF i <= 8 - m THEN x ELSE b[i - 8 + m]
  <2>1. CASE i <= 8 - m BY <2>1 DEF Above
  <2>2. CASE ~(i <= 8 - m)
    <3>1. i - 8 + m \in 1..m /\ 8 - m + (i - 8 + m) = i BY <2>2
    <3>2. b[i - 8 + m] = w[8 - m + (i - 8 + m)] BY <3>1 DEF Tails
    <3> QED BY <2>2, <3>1, <3>2
  <2> QED BY <2>1, <2>2
<1>2. Len(b) = m BY DEF Tails
<1>3. w \in [1..8 -> Byte] BY DEF Word64
<1> QED BY <1>1, <1>2, <1>3 DEF Fill

LEMMA LowTails ==
    ASSUME NEW w \in Word64, NEW m \in 1..8
    PROVE  Tails(Low(w, m), w, m) /\ Low(w, m) \in [1..m -> Byte]
<1>1. w \in [1..8 -> Byte] BY DEF Word64
<1>2. Len(Low(w, m)) = m /\ \A j \in 1..m : Low(w, m)[j] = w[8 - m + j] /\ Low(w, m)[j] \in Byte
    BY <1>1, LowIs, Zenon
<1>3. Low(w, m) \in [1..m -> Byte]
  <2>1. 8 \in Nat OBVIOUS
  <2>2. w \in Seq(Byte) /\ Len(w) = 8 BY <1>1, <2>1, WordSeq, ZenonT(30)
  <2>3. SubSeq(w, 9 - m, 8) \in Seq(Byte)
    <3>1. PICK a \in 1..8 : a = 9 - m OBVIOUS
    <3>2. \A k \in a..8 : w[k] \in Byte BY <1>1
    <3>3. SubSeq(w, a, 8) \in Seq(Byte) BY <2>2, <3>2
    <3> QED BY <3>1, <3>3
  <2>4. Low(w, m) \in Seq(Byte) BY <2>3 DEF Low
  <2> QED BY <1>2, <2>4
<1> QED BY <1>2, <1>3 DEF Tails

\* The two ways to read it.
Widened(b, t) == IF t = "Int" THEN intFromBuf(b) ELSE uintFromBuf(b)

Sign(w, t, m) ==
    \/ t = "Uint" /\ Above(w, m, 0)
    \/ t = "Int" /\ Above(w, m, 255) /\ w[9 - m] >= 128

LEMMA WidenedIs ==
    ASSUME NEW w \in Word64, NEW m \in {1, 2, 4, 8}, NEW b, Tails(b, w, m), NEW t, Sign(w, t, m)
    PROVE  Widened(b, t) = w
<1>0. m \in 1..8 /\ Len(b) = m /\ b[1] = w[9 - m]
  <2>1. m \in 1..8 /\ 1 \in 1..m /\ 8 - m + 1 = 9 - m OBVIOUS
  <2> QED BY <2>1 DEF Tails
<1>1. CASE t = "Uint" /\ Above(w, m, 0)
  <2>1. Fill(b, 0) = w BY <1>0, <1>1, Refilled, Zenon
  <2> QED BY <1>0, <1>1, <2>1 DEF Widened, uintFromBuf, ZeroExtend
<1>2. CASE t = "Int" /\ Above(w, m, 255) /\ w[9 - m] >= 128
  <2>1. Fill(b, 255) = w
    <3>1. PICK x : x = 255 OBVIOUS
    <3>2. Above(w, m, x) BY <1>2, <3>1
    <3>3. Fill(b, x) = w BY <1>0, <3>2, Refilled, Zenon
    <3> QED BY <3>1, <3>3
  <2>2. b[1] >= 128 BY <1>0, <1>2
  <2> QED BY <1>0, <1>2, <2>1, <2>2 DEF Widened, intFromBuf, SignExtend
<1> QED BY <1>1, <1>2 DEF Sign

\* A single byte.
LEMMA SingleIs ==
    ASSUME NEW w \in Word64, \/ w[8] <= 127 /\ Above(w, 1, 0)
                             \/ w[8] >= 128 /\ Above(w, 1, 255)
    PROVE  SignExtend(<<w[8]>>) = w
<1> DEFINE b == <<w[8]>>
<1>0. w[8] \in Nat BY DEF Word64, Byte, Below
<1>1. Len(b) = 1 /\ b[1] = w[8] OBVIOUS
<1> HIDE DEF b
<1>2. Tails(b, w, 1) BY <1>1 DEF Tails
<1>3. 1 \in 1..8 OBVIOUS
<1>4. CASE w[8] <= 127 /\ Above(w, 1, 0)
  <2>1. Fill(b, 0) = w BY <1>2, <1>3, <1>4, Refilled, Zenon
  <2>2. ~(b[1] >= 128) BY <1>0, <1>1, <1>4
  <2>3. SignExtend(b) = w BY <2>1, <2>2 DEF SignExtend
  <2> QED BY <2>3 DEF b
<1>5. CASE w[8] >= 128 /\ Above(w, 1, 255)
  <2>1. PICK x : x = 255 OBVIOUS
  <2>2. Above(w, 1, x) BY <1>5, <2>1
  <2>3. Fill(b, x) = w BY <1>2, <1>3, <2>2, Refilled, Zenon
  <2>4. SignExtend(b) = w BY <1>1, <1>5, <2>1, <2>3 DEF SignExtend
  <2> QED BY <2>4 DEF b
<1> QED BY <1>4, <1>5

\* A head with the integer w, of type t, in m bytes or in its first byte.
Single(w, t) ==
    \/ t = "Uint" /\ w[8] <= 127 /\ Above(w, 1, 0)
    \/ t = "Int" /\ w[8] >= 224 /\ Above(w, 1, 255)

IntForm(h, w, t, m) ==
    \E c \in Byte :
       \/ m = 0 /\ h = <<c>> /\ c = w[8] /\ Single(w, t)
       \/ /\ m \in {1, 2, 4, 8} /\ h = Head1(c, Low(w, m)) /\ Sign(w, t, m)
          /\ OwnIs(c, t, m) /\ 127 < c /\ c < 224

\* What it is read as.
IntAt(p, w, t, m) ==
    /\ SizedAt(p, t, m, 0) /\ OwnIs(Cell(p), t, m)
    /\ m \in {0, 1, 2, 4, 8} /\ t \in {"Int", "Uint"}
    /\ m = 0 => SignExtend(<<Cell(p)>>) = w
    /\ m # 0 => Widened(Raw(p + 1, m), t) = w
    /\ readIntUnsafe(Cell(p), Raw(p + 1, m)) = w

LEMMA SingleAt ==
    ASSUME NEW w \in Word64, NEW t, Single(w, t), NEW p \in Nat, Cell(p) = w[8]
    PROVE  IntAt(p, w, t, 0)
<1>1. PICK c \in Nat : c = w[8] /\ c < 256 BY DEF Word64, Byte, Below
<1>2. SignExtend(<<w[8]>>) = w
  <2>1. \/ w[8] <= 127 /\ Above(w, 1, 0)
        \/ w[8] >= 128 /\ Above(w, 1, 255)
      BY <1>1 DEF Single
  <2> QED BY <2>1, SingleIs
<1>3. CASE t = "Uint" /\ c <= 127
  <2>1. OwnIs(c, "Uint", 0) BY <1>3, FixUint
  <2>2. readIntUnsafe(c, Raw(p + 1, 0)) = SignExtend(<<c>>) BY <1>3, <2>1 DEF readIntUnsafe, OwnIs
  <2>3. Cell(p) # Unknown BY <1>1 DEF Unknown
  <2>4. OwnIs(Cell(p), t, 0) BY <1>1, <1>3, <2>1, Zenon
  <2>5. SizedAt(p, t, 0, 0) BY <2>3, <2>4, OwnIsRead
  <2> QED BY <1>1, <1>2, <1>3, <2>2, <2>4, <2>5 DEF IntAt
<1>4. CASE t = "Int" /\ c >= 224
  <2>1. OwnIs(c, "Int", 0) BY <1>1, <1>4, FixInt
  <2>2. readIntUnsafe(c, Raw(p + 1, 0)) = SignExtend(<<c>>) BY <1>4, <2>1 DEF readIntUnsafe, OwnIs
  <2>3. Cell(p) # Unknown BY <1>1 DEF Unknown
  <2>4. OwnIs(Cell(p), t, 0) BY <1>1, <1>4, <2>1, Zenon
  <2>5. SizedAt(p, t, 0, 0) BY <2>3, <2>4, OwnIsRead
  <2> QED BY <1>1, <1>2, <1>4, <2>2, <2>4, <2>5 DEF IntAt
<1> QED BY <1>1, <1>3, <1>4 DEF Single

LEMMA WideAt ==
    ASSUME NEW w \in Word64, NEW t, NEW m \in {1, 2, 4, 8}, Sign(w, t, m), NEW p \in Nat,
           NEW c \in Byte, Cell(p) = c, Follows(Low(w, m), p, m), OwnIs(c, t, m), 127 < c, c < 224
    PROVE  IntAt(p, w, t, m)
<1> DEFINE b == Raw(p + 1, m)
<1>0. m \in 1..8 /\ m \in Nat OBVIOUS
<1>1. Tails(Low(w, m), w, m) BY <1>0, LowTails, Zenon
<1>2. Tails(b, w, m)
  <2>1. PICK q \in Nat : q = p + 1 OBVIOUS
  <2>2. Len(Raw(q, m)) = m /\ \A k \in 1..m : Raw(q, m)[k] = Cell(q + k - 1) BY <1>0, RawIs, Zenon
  <2>3. \A k \in 1..m : q + k - 1 = p + k BY <2>1
  <2>4. \A k \in 1..m : Cell(p + k) = Low(w, m)[k] BY Zenon DEF Follows
  <2>5. \A k \in 1..m : Low(w, m)[k] = w[8 - m + k] BY <1>1, Zenon DEF Tails
  <2> QED BY <2>1, <2>2, <2>3, <2>4, <2>5 DEF Tails
<1> HIDE DEF b
<1>3. Widened(b, t) = w BY <1>2, WidenedIs, Zenon
<1>4. t \in {"Int", "Uint"} BY DEF Sign
<1>5. c # Unknown /\ c \in Nat BY DEF Unknown, Byte, Below
<1>6. Get(c).typ = t BY DEF OwnIs
<1>7. readIntUnsafe(c, b) = Widened(b, t) BY <1>4, <1>5, <1>6 DEF readIntUnsafe, Widened
<1>8. SizedAt(p, t, m, 0) BY <1>0, <1>5, OwnIsRead, Zenon
<1> QED BY <1>3, <1>4, <1>7, <1>8 DEF IntAt, b

LEMMA IntForms ==
    ASSUME NEW h, NEW w \in Word64, NEW t, NEW m, IntForm(h, w, t, m)
    PROVE  /\ h \in Seq(Byte) /\ Len(h) = m + 1 /\ m \in {0, 1, 2, 4, 8}
           /\ \A p \in Nat : Lies(h, p) => IntAt(p, w, t, m)
<1>1. PICK c \in Byte :
       \/ m = 0 /\ h = <<c>> /\ c = w[8] /\ Single(w, t)
       \/ /\ m \in {1, 2, 4, 8} /\ h = Head1(c, Low(w, m)) /\ Sign(w, t, m)
          /\ OwnIs(c, t, m) /\ 127 < c /\ c < 224
    BY DEF IntForm
<1>2. CASE m = 0 /\ h = <<c>> /\ c = w[8] /\ Single(w, t)
  <2>1. h \in Seq(Byte) /\ Len(h) = 1 /\ \A p \in Nat : Lies(h, p) => Cell(p) = c BY <1>2, OneByte, Zenon
  <2>2. Len(h) = m + 1 /\ m \in {0, 1, 2, 4, 8} BY <1>2, <2>1
  <2>3. \A p \in Nat : Lies(h, p) => IntAt(p, w, t, m) BY <1>2, <2>1, SingleAt, Zenon
  <2> QED BY <2>1, <2>2, <2>3, Zenon
<1>3. CASE /\ m \in {1, 2, 4, 8} /\ h = Head1(c, Low(w, m)) /\ Sign(w, t, m)
           /\ OwnIs(c, t, m) /\ 127 < c /\ c < 224
  <2>1. m \in Nat /\ m \in 1..8 /\ m \in {0, 1, 2, 4, 8} BY <1>3
  <2> DEFINE b == Low(w, m)
  <2>2. b \in [1..m -> Byte] BY <2>1, LowTails, Zenon
  <2> HIDE DEF b
  <2>3. h = Head1(c, b) BY <1>3 DEF b
  <2>4. h \in Seq(Byte) /\ Len(h) = m + 1 BY <2>1, <2>2, <2>3, ConsType
  <2>5. ASSUME NEW p \in Nat, Lies(h, p) PROVE IntAt(p, w, t, m)
    <3>1. Lies(Head1(c, b), p) BY <2>3, <2>5, Zenon
    <3>2. Cell(p) = c /\ Follows(b, p, m) BY <2>1, <2>2, <3>1, ConsAt, Zenon
    <3>3. Follows(Low(w, m), p, m) BY <3>2 DEF b
    <3> QED BY <1>3, <3>2, <3>3, WideAt
  <2> QED BY <2>1, <2>4, <2>5, Zenon
<1> QED BY <1>1, <1>2, <1>3, Zenon

LEMMA AboveIs ==
    ASSUME NEW w, NEW x
    PROVE  /\ Above(w, 1, x) <=> \A i \in 1..7 : w[i] = x
           /\ Above(w, 2, x) <=> \A i \in 1..6 : w[i] = x
           /\ Above(w, 4, x) <=> \A i \in 1..4 : w[i] = x
           /\ Above(w, 8, x)
BY DEF Above

LEMMA Low1 ==
    ASSUME NEW w \in Word64
    PROVE  Low(w, 1) = <<w[8]>> /\ Low(w, 8) = w
<1>1. w \in [1..8 -> Byte] BY DEF Word64
<1>2. w \in Seq(Byte) /\ Len(w) = 8
  <2>1. 8 \in Nat OBVIOUS
  <2> QED BY <1>1, <2>1, WordSeq, ZenonT(30)
<1>3. w[8] \in Byte BY <1>1
<1>4. Low(w, 1) = <<w[8]>>
  <2> DEFINE u == Low(w, 1)
             v == <<w[8]>>
  <2>1. v \in Seq(Byte) /\ Len(v) = 1 /\ v[1] = w[8] BY <1>3
  <2>2. u \in [1..1 -> Byte] /\ Tails(u, w, 1)
    <3>1. 1 \in 1..8 OBVIOUS
    <3> QED BY <3>1, LowTails, Zenon
  <2> HIDE DEF u, v
  <2>3. u \in Seq(Byte) /\ Len(u) = 1 /\ u[1] = w[8]
    <3>1. 8 - 1 + 1 = 8 /\ 1 \in 1..1 /\ 1 \in Nat OBVIOUS
    <3> QED BY <2>2, <3>1, WordSeq, Zenon DEF Tails
  <2>4. Len(u) = Len(v) /\ \A i \in 1..Len(u) : u[i] = v[i] BY <2>1, <2>3
  <2>5. u = v BY <2>1, <2>3, <2>4, SameElements, Zenon
  <2> QED BY <2>5 DEF u, v
<1>5. SubSeq(w, 1, 8) = w BY <1>2
<1> QED BY <1>4, <1>5 DEF Low

LEMMA WideForm ==
    ASSUME NEW w, NEW t, NEW m \in {1, 2, 4, 8}, Sign(w, t, m),
           NEW c \in Nat, 127 < c, c < 224, OwnIs(c, t, m)
    PROVE  IntForm(Head1(c, Low(w, m)), w, t, m)
<1>1. c \in Byte BY DEF Byte, Below
<1> QED BY <1>1 DEF IntForm

LEMMA UintForm ==
    ASSUME NEW w \in Word64
    PROVE  \E m : IntForm(AppendUint(w).head, w, "Uint", m)
<1>0. \A i \in 1..8 : w[i] \in Nat /\ w[i] < 256 BY DEF Word64, Byte, Below
<1> DEFINE A1 == AtMost(w, Word(127))
           A2 == AtMost(w, Word(255))
           A3 == AtMost(w, Word(65535))
           A4 == w = ZeroExtend(Low(w, 4))
<1>a. /\ A1 <=> w[8] <= 127 /\ \A i \in 1..7 : w[i] = 0
      /\ A2 <=> \A i \in 1..7 : w[i] = 0
      /\ A3 <=> \A i \in 1..6 : w[i] = 0
    BY UintLimits
<1>b. AppendUint(w).head =
        CASE A1 -> Low(w, 1)
          [] ~A1 /\ A2 -> <<204>> \o Low(w, 1)
          [] ~A2 /\ A3 -> <<205>> \o Low(w, 2)
          [] ~A3 /\ A4 -> <<206>> \o Low(w, 4)
          [] OTHER -> <<207>> \o w
    BY DEF AppendUint, Enc
<1> HIDE DEF A1, A2, A3, A4
<1>c. (A1 => A2) /\ (A2 => A3) BY <1>a
<1>1. CASE A1
  <2>1. AppendUint(w).head = <<w[8]>> BY <1>1, <1>b, <1>c, Low1
  <2>2. w[8] \in Byte BY <1>0 DEF Byte, Below
  <2>3. Single(w, "Uint") BY <1>1, <1>a, AboveIs DEF Single
  <2>4. IntForm(<<w[8]>>, w, "Uint", 0) BY <2>2, <2>3, Zenon DEF IntForm
  <2> QED BY <2>1, <2>4, Zenon
<1>2. CASE ~A1 /\ A2
  <2>1. PICK c \in Nat : c = 204 OBVIOUS
  <2>2. AppendUint(w).head = Head1(c, Low(w, 1)) BY <1>2, <1>b, <1>c, <2>1 DEF Head1
  <2>3. OwnIs(c, "Uint", 1) BY <2>1, GetInteger
  <2>4. Sign(w, "Uint", 1) BY <1>2, <1>a, AboveIs DEF Sign
  <2>5. IntForm(Head1(c, Low(w, 1)), w, "Uint", 1) BY <2>1, <2>3, <2>4, WideForm
  <2> QED BY <2>2, <2>5, Zenon
<1>3. CASE ~A2 /\ A3
  <2>1. PICK c \in Nat : c = 205 OBVIOUS
  <2>2. AppendUint(w).head = Head1(c, Low(w, 2)) BY <1>3, <1>b, <1>c, <2>1 DEF Head1
  <2>3. OwnIs(c, "Uint", 2) BY <2>1, GetInteger
  <2>4. Sign(w, "Uint", 2) BY <1>3, <1>a, AboveIs DEF Sign
  <2>5. IntForm(Head1(c, Low(w, 2)), w, "Uint", 2) BY <2>1, <2>3, <2>4, WideForm
  <2> QED BY <2>2, <2>5, Zenon
<1>4. CASE ~A3 /\ A4
  <2>1. PICK c \in Nat : c = 206 OBVIOUS
  <2>2. AppendUint(w).head = Head1(c, Low(w, 4)) BY <1>4, <1>b, <1>c, <2>1 DEF Head1
  <2>3. OwnIs(c, "Uint", 4) BY <2>1, GetInteger
  <2>4. Sign(w, "Uint", 4)
    <3>1. w = Fill(Low(w, 4), 0) BY <1>4 DEF A4, ZeroExtend
    <3>2. Len(Low(w, 4)) = 4
      <4>1. 4 \in 1..8 OBVIOUS
      <4> QED BY <4>1, LowTails, Zenon DEF Tails
    <3>3. \A i \in 1..4 : Fill(Low(w, 4), 0)[i] = 0
      <4> DEFINE b == Low(w, 4)
      <4> HIDE DEF b
      <4>1. Len(b) = 4 BY <3>2 DEF b
      <4>2. \A i \in 1..4 : Fill(b, 0)[i] = 0 BY <4>1 DEF Fill
      <4> QED BY <4>2 DEF b
    <3>4. \A i \in 1..4 : w[i] = 0 BY <3>1, <3>3, Zenon
    <3> QED BY <3>4, AboveIs DEF Sign
  <2>5. IntForm(Head1(c, Low(w, 4)), w, "Uint", 4) BY <2>1, <2>3, <2>4, WideForm
  <2> QED BY <2>2, <2>5, Zenon
<1>5. CASE ~A3 /\ ~A4
  <2>1. PICK c \in Nat : c = 207 OBVIOUS
  <2>2. AppendUint(w).head = Head1(c, w) BY <1>5, <1>b, <1>c, <2>1 DEF Head1
  <2>3. OwnIs(c, "Uint", 8) BY <2>1, GetInteger
  <2>4. Sign(w, "Uint", 8) BY AboveIs DEF Sign
  <2>5. IntForm(Head1(c, Low(w, 8)), w, "Uint", 8) BY <2>1, <2>3, <2>4, WideForm
  <2>6. Low(w, 8) = w BY Low1
  <2> QED BY <2>2, <2>5, <2>6, Zenon
<1> QED BY <1>1, <1>2, <1>3, <1>4, <1>5, Zenon

LEMMA NegativeForm ==
    ASSUME NEW w \in Word64, Negative(w)
    PROVE  \E m : IntForm(AppendInt(w).head, w, "Int", m)
<1>0. \A i \in 1..8 : w[i] \in Nat /\ w[i] < 256 BY DEF Word64, Byte, Below
<1> DEFINE A1 == AtMost(SignExtend(<<256 - 32>>), w)
           A2 == AtMost(SignExtend(<<128>>), w)
           A3 == AtMost(SignExtend(<<128, 0>>), w)
           A4 == AtMost(SignExtend(<<128, 0, 0, 0>>), w)
<1>a. /\ A1 <=> w[8] >= 224 /\ \A j \in 1..7 : w[j] = 255
      /\ A2 <=> w[8] >= 128 /\ \A j \in 1..7 : w[j] = 255
      /\ A3 <=> w[7] >= 128 /\ \A j \in 1..6 : w[j] = 255
      /\ A4 <=> w[5] >= 128 /\ \A j \in 1..4 : w[j] = 255
    BY IntLimits
<1>b. AppendInt(w).head =
        CASE A1 -> Low(w, 1)
          [] ~A1 /\ A2 -> <<208>> \o Low(w, 1)
          [] ~A2 /\ A3 -> <<209>> \o Low(w, 2)
          [] ~A3 /\ A4 -> <<210>> \o Low(w, 4)
          [] OTHER -> <<211>> \o w
    BY DEF AppendInt, Enc
<1> HIDE DEF A1, A2, A3, A4
<1>c. (A1 => A2) /\ (A2 => A3) /\ (A3 => A4) BY <1>0, <1>a
<1>d. \A m, x : Above(w, m, x) /\ w[9 - m] >= 128 /\ x = 255 => Sign(w, "Int", m) BY DEF Sign
<1>1. CASE A1
  <2>1. AppendInt(w).head = <<w[8]>> BY <1>1, <1>b, <1>c, Low1
  <2>2. w[8] \in Byte BY <1>0 DEF Byte, Below
  <2>3. Single(w, "Int") BY <1>1, <1>a, AboveIs DEF Single
  <2>4. IntForm(<<w[8]>>, w, "Int", 0) BY <2>2, <2>3, Zenon DEF IntForm
  <2> QED BY <2>1, <2>4, Zenon
<1>2. CASE ~A1 /\ A2
  <2>1. PICK c \in Nat : c = 208 OBVIOUS
  <2>2. AppendInt(w).head = Head1(c, Low(w, 1)) BY <1>2, <1>b, <1>c, <2>1 DEF Head1
  <2>3. OwnIs(c, "Int", 1) BY <2>1, GetInteger
  <2>4. Sign(w, "Int", 1)
    <3>1. Above(w, 1, 255) /\ w[9 - 1] >= 128 BY <1>2, <1>a, AboveIs
    <3> QED BY <3>1 DEF Sign
  <2>5. IntForm(Head1(c, Low(w, 1)), w, "Int", 1) BY <2>1, <2>3, <2>4, WideForm
  <2> QED BY <2>2, <2>5, Zenon
<1>3. CASE ~A2 /\ A3
  <2>1. PICK c \in Nat : c = 209 OBVIOUS
  <2>2. AppendInt(w).head = Head1(c, Low(w, 2)) BY <1>3, <1>b, <1>c, <2>1 DEF Head1
  <2>3. OwnIs(c, "Int", 2) BY <2>1, GetInteger
  <2>4. Sign(w, "Int", 2)
    <3>1. Above(w, 2, 255) /\ w[9 - 2] >= 128 BY <1>3, <1>a, AboveIs
    <3> QED BY <3>1 DEF Sign
  <2>5. IntForm(Head1(c, Low(w, 2)), w, "Int", 2) BY <2>1, <2>3, <2>4, WideForm
  <2> QED BY <2>2, <2>5, Zenon
<1>4. CASE ~A3 /\ A4
  <2>1. PICK c \in Nat : c = 210 OBVIOUS
  <2>2. AppendInt(w).head = Head1(c, Low(w, 4)) BY <1>4, <1>b, <1>c, <2>1 DEF Head1
  <2>3. OwnIs(c, "Int", 4) BY <2>1, GetInteger
  <2>4. Sign(w, "Int", 4)
    <3>1. Above(w, 4, 255) /\ w[9 - 4] >= 128 BY <1>4, <1>a, AboveIs
    <3> QED BY <3>1 DEF Sign
  <2>5. IntForm(Head1(c, Low(w, 4)), w, "Int", 4) BY <2>1, <2>3, <2>4, WideForm
  <2> QED BY <2>2, <2>5, Zenon
<1>5. CASE ~A3 /\ ~A4
  <2>1. PICK c \in Nat : c = 211 OBVIOUS
  <2>2. AppendInt(w).head = Head1(c, w) BY <1>5, <1>b, <1>c, <2>1 DEF Head1
  <2>3. OwnIs(c, "Int", 8) BY <2>1, GetInteger
  <2>4. Sign(w, "Int", 8)
    <3>1. Above(w, 8, 255) /\ w[9 - 8] >= 128 BY AboveIs DEF Negative
    <3> QED BY <3>1 DEF Sign
  <2>5. IntForm(Head1(c, Low(w, 8)), w, "Int", 8) BY <2>1, <2>3, <2>4, WideForm
  <2>6. Low(w, 8) = w BY Low1
  <2> QED BY <2>2, <2>5, <2>6, Zenon
<1> QED BY <1>1, <1>2, <1>3, <1>4, <1>5, Zenon

IntTyp(w) == IF Negative(w) THEN "Int" ELSE "Uint"

LEMMA IntFormOf ==
    ASSUME NEW w \in Word64
    PROVE  /\ \E m : IntForm(AppendInt(w).head, w, IntTyp(w), m)
           /\ AppendInt(w).body = 0 /\ AppendUint(w).body = 0
<1>1. AppendInt(w).body = 0 /\ AppendUint(w).body = 0 BY DEF AppendInt, AppendUint, Enc
<1>2. CASE Negative(w) BY <1>1, <1>2, NegativeForm, Zenon DEF IntTyp
<1>3. CASE ~Negative(w)
  <2>1. AppendInt(w) = AppendUint(w) BY <1>3 DEF AppendInt
  <2> QED BY <1>1, <1>3, <2>1, UintForm, Zenon DEF IntTyp
<1> QED BY <1>2, <1>3

-----------------------------------------------------------------------------
(* Timestamps *)

Join(x, y) == x \o y
Adds(l, n, m) == l = n + m

LEMMA JoinType ==
    ASSUME NEW S, NEW n \in Nat, NEW x \in [1..n -> S], NEW m \in Nat, NEW y \in [1..m -> S],
           NEW l \in Nat, Adds(l, n, m)
    PROVE  Join(x, y) \in [1..l -> S]
<1>1. x \in Seq(S) /\ Len(x) = n BY WordSeq, Zenon
<1>2. y \in Seq(S) /\ Len(y) = m BY WordSeq, Zenon
<1> DEFINE h == x \o y
<1>3. h \in Seq(S) /\ Len(h) = l BY <1>1, <1>2 DEF Adds
<1> HIDE DEF h
<1>4. h \in [1..l -> S] BY <1>3
<1> QED BY <1>4 DEF h, Join

Joins(h, x, n, y, m) == (\A k \in 1..n : h[k] = x[k]) /\ \A k \in 1..m : h[k + n] = y[k]

LEMMA JoinAt ==
    ASSUME NEW S, NEW n \in Nat, NEW x \in [1..n -> S], NEW m \in Nat, NEW y \in [1..m -> S]
    PROVE  Joins(Join(x, y), x, n, y, m)
<1>1. x \in Seq(S) /\ Len(x) = n BY WordSeq, Zenon
<1>2. y \in Seq(S) /\ Len(y) = m BY WordSeq, Zenon
<1> DEFINE h == x \o y
<1>3. \A k \in 1..(n + m) : h[k] = IF k <= n THEN x[k] ELSE y[k - n] BY <1>1, <1>2
<1> HIDE DEF h
<1>4. \A k \in 1..n : h[k] = x[k]
  <2>1. \A k \in 1..n : k \in 1..(n + m) /\ k <= n OBVIOUS
  <2> QED BY <1>3, <2>1, Zenon
<1>5. ASSUME NEW k \in 1..m PROVE h[k + n] = y[k]
  <2>1. k + n \in 1..(n + m) /\ ~(k + n <= n) /\ (k + n) - n = k OBVIOUS
  <2> QED BY <1>3, <2>1, Zenon
<1>6. Joins(h, x, n, y, m) BY <1>4, <1>5, Zenon DEF Joins
<1> QED BY <1>6 DEF h, Join

\* The l bytes from p on are those of h.
Here(p, l, h) == Raw(p, l) = h

LEMMA RawJoin ==
    ASSUME NEW S, NEW n \in Nat, NEW x \in [1..n -> S], NEW m \in Nat, NEW y \in [1..m -> S],
           NEW p \in Nat, NEW q \in Nat, Adds(q, p, n), NEW l \in Nat, Adds(l, n, m), Here(p, l, Join(x, y))
    PROVE  Here(p, n, x) /\ Here(q, m, y)
<1> DEFINE h == Join(x, y)
<1>0. Joins(h, x, n, y, m) BY JoinAt, Zenon
<1>2. \A k \in 1..l : Raw(p, l)[k] = Cell(p + k - 1) BY RawIs, Zenon
<1> HIDE DEF h
<1>1. (\A k \in 1..n : h[k] = x[k]) /\ \A k \in 1..m : h[k + n] = y[k] BY <1>0, Zenon DEF Joins
<1>3. \A k \in 1..l : h[k] = Cell(p + k - 1) BY <1>2 DEF h, Here
<1>4. \A k \in 1..n : x[k] = Cell(p + k - 1)
  <2>1. \A k \in 1..n : k \in 1..l BY DEF Adds
  <2> QED BY <1>1, <1>3, <2>1, Zenon
<1>5. ASSUME NEW k \in 1..m PROVE y[k] = Cell(q + k - 1)
  <2>1. k + n \in 1..l /\ p + (k + n) - 1 = q + k - 1 BY DEF Adds
  <2> QED BY <1>1, <1>3, <2>1, Zenon
<1> QED BY <1>4, <1>5 DEF Raw, Here

LEMMA LiesRaw ==
    ASSUME NEW n \in Nat, NEW h \in [1..n -> Byte]
    PROVE  h \in Seq(Byte) /\ Len(h) = n /\ \A p \in Nat : Lies(h, p) => Here(p, n, h)
<1>1. h \in Seq(Byte) /\ Len(h) = n BY WordSeq, Zenon
<1>2. ASSUME NEW p \in Nat, Lies(h, p) PROVE Here(p, n, h)
  <2>1. \A k \in 1..n : Cell(p + k - 1) = h[k] BY <1>1, <1>2, Zenon DEF Lies
  <2> QED BY <2>1 DEF Raw, Here
<1> QED BY <1>1, <1>2, Zenon

LEMMA RawParts ==
    ASSUME NEW p \in Nat
    PROVE  /\ SubSeq(Raw(p, 5), 2, 5) = Raw(p + 1, 4)
           /\ SubSeq(Raw(p, 9), 2, 5) = Raw(p + 1, 4)
           /\ SubSeq(Raw(p, 9), 6, 9) = Raw(p + 5, 4)
           /\ SubSeq(Raw(p, 9), 2, 9) = Raw(p + 1, 8)
<1>1. SubSeq(Raw(p, 5), 2, 5) = Raw(p + 1, 4) BY DEF Raw
<1>2. SubSeq(Raw(p, 9), 2, 5) = Raw(p + 1, 4) BY DEF Raw
<1>3. SubSeq(Raw(p, 9), 6, 9) = Raw(p + 5, 4) BY DEF Raw
<1>4. SubSeq(Raw(p, 9), 2, 9) = Raw(p + 1, 8) BY DEF Raw
<1> QED BY <1>1, <1>2, <1>3, <1>4

LEMMA TimesDiffer ==
    ASSUME NEW a \in Word64, NEW b \in Word64, NEW x \in Nat, NEW y \in Nat
    PROVE  T(a, x) = T(b, y) <=> a = b /\ x = y
<1>1. a \in [1..8 -> Nat] /\ b \in [1..8 -> Nat] BY DEF Word64, Byte, Below
<1> DEFINE r == <<x>>
           s == <<y>>
<1>2. r \in [1..1 -> Nat] /\ s \in [1..1 -> Nat] /\ r[1] = x /\ s[1] = y OBVIOUS
<1>3. T(a, x) = R("Time", Join(a, r)) /\ T(b, y) = R("Time", Join(b, s)) BY DEF T, Join
<1> HIDE DEF r, s
<1> DEFINE c == Join(a, r)
           d == Join(b, s)
<1>4. 8 \in Nat /\ 1 \in Nat /\ 1 \in 1..1 /\ 1 + 8 = 9 OBVIOUS
<1>a. Joins(c, a, 8, r, 1) BY <1>1, <1>2, <1>4, JoinAt, Zenon
<1>b. Joins(d, b, 8, s, 1) BY <1>1, <1>2, <1>4, JoinAt, Zenon
<1> HIDE DEF c, d
<1>5. (\A k \in 1..8 : c[k] = a[k]) /\ \A k \in 1..1 : c[k + 8] = r[k] BY <1>a, Zenon DEF Joins
<1>6. (\A k \in 1..8 : d[k] = b[k]) /\ \A k \in 1..1 : d[k + 8] = s[k] BY <1>b, Zenon DEF Joins
<1>7. c[9] = x /\ d[9] = y BY <1>2, <1>4, <1>5, <1>6, Zenon
<1>8. ASSUME c = d PROVE a = b /\ x = y
  <2>1. \A i \in 1..8 : a[i] = b[i] BY <1>5, <1>6, <1>8, Zenon
  <2>2. a = b BY <2>1, SameWord, Zenon DEF Word64
  <2> QED BY <1>7, <1>8, <2>2
<1>9. T(a, x) = T(b, y) => c = d BY <1>3 DEF R, c, d
<1>10. a = b /\ x = y => T(a, x) = T(b, y) BY Zenon
<1> QED BY <1>8, <1>9, <1>10

LEMMA Bits ==
    ASSUME NEW x \in Nat, NEW q \in Nat, q < 64, NEW z, z = (x % 4) * 64 + q
    PROVE  z \in Byte /\ z \div 64 = x % 4 /\ z % 64 = q
<1>1. PICK r \in Nat : r = x % 4 /\ r < 4 OBVIOUS
<1> QED BY <1>1 DEF Byte, Below

Nano == Below(1000000000)

LEMMA Nanoseconds ==
    ASSUME NEW n \in Nano
    PROVE  n \in Nat /\ n < Huge /\ D3(n) = n \div 16777216 /\ D3(n) \in Nat /\ D3(n) < 64
<1>1. n \in Nat /\ n < Huge BY DEF Huge, Nano, Below
<1>2. D3(n) = n \div 16777216 /\ D3(n) < 64 BY <1>1, Digits
<1> QED BY <1>1, <1>2

\* The bytes of Pack64.
PackedIs(b, s, ns) ==
    /\ \A k \in 1..4 : b[k] = (s[k + 3] % 4) * 64 + s[k + 4] \div 4
    /\ b[5] = (s[8] % 4) * 64 + D3(ns)
    /\ b[6] = D2(ns) /\ b[7] = D1(ns) /\ b[8] = D0(ns)

LEMMA PackType ==
    ASSUME NEW s \in Word64, NEW ns \in Nano
    PROVE  Pack64(s, ns) \in [1..8 -> Byte] /\ PackedIs(Pack64(s, ns), s, ns)
<1>1. \A i \in 1..8 : s[i] \in Nat /\ s[i] < 256 BY DEF Word64, Byte, Below
<1> DEFINE a == [k \in 1..4 |-> (s[k + 3] % 4) * 64 + s[k + 4] \div 4]
           q == (s[8] % 4) * 64 + D3(ns)
           c == <<q>>
           d == Bytes(ns, 3)
<1>2. a \in [1..4 -> Byte]
  <2>1. ASSUME NEW k \in 1..4 PROVE (s[k + 3] % 4) * 64 + s[k + 4] \div 4 \in Byte
    <3>1. PICK x \in Nat, y \in Nat : x = s[k + 3] /\ y = s[k + 4] \div 4 /\ y < 64
      <4>1. k + 3 \in 1..8 /\ k + 4 \in 1..8 OBVIOUS
      <4>2. s[k + 3] \in Nat /\ s[k + 4] \in Nat /\ s[k + 4] < 256 BY <1>1, <4>1
      <4> QED BY <4>2
    <3> QED BY <3>1, Bits
  <2> QED BY <2>1
<1>3. q \in Byte
  <2>1. PICK x \in Nat, y \in Nat : x = s[8] /\ y = D3(ns) /\ y < 64 BY <1>1, Nanoseconds
  <2> QED BY <2>1, Bits
<1>0. ns \in Nat BY Nanoseconds
<1>4. Len(d) = 3 /\ d[1] = D2(ns) /\ d[2] = D1(ns) /\ d[3] = D0(ns) BY <1>0, Bytes3 DEF D2, D1, D0
<1>5. d \in [1..3 -> Byte]
  <2>1. D2(ns) \in Byte /\ D1(ns) \in Byte /\ D0(ns) \in Byte BY <1>0, DigitType
  <2>2. d = [i \in 1..3 |-> d[i]] BY DEF Bytes
  <2> QED BY <1>4, <2>1, <2>2
<1>6. c \in [1..1 -> Byte] /\ c[1] = q BY <1>3
<1>7. Pack64(s, ns) = Join(Join(a, c), d)
  <2>1. \A k \in 1..5 : Low(s, 5)[k] = s[3 + k]
    <3>1. 5 \in 1..8 OBVIOUS
    <3>2. \A j \in 1..5 : Low(s, 5)[j] = s[8 - 5 + j] /\ Low(s, 5)[j] \in Byte BY <3>1, LowIs, Zenon DEF Word64
    <3> QED BY <3>2
  <2>2. [k \in 1..4 |-> (Low(s, 5)[k] % 4) * 64 + Low(s, 5)[k + 1] \div 4] = a BY <2>1
  <2>3. (Low(s, 5)[5] % 4) * 64 + ns \div 256 ^ 3 = q
    <3>1. Low(s, 5)[5] = s[8] BY <2>1
    <3>2. ns \div 256 ^ 3 = D3(ns) BY Nanoseconds
    <3> QED BY <3>1, <3>2
  <2>4. Pack64(s, ns) = [k \in 1..4 |-> (Low(s, 5)[k] % 4) * 64 + Low(s, 5)[k + 1] \div 4]
                        \o <<(Low(s, 5)[5] % 4) * 64 + ns \div 256 ^ 3>> \o Bytes(ns, 3)
      BY Zenon DEF Pack64
  <2> HIDE DEF a, q
  <2>5. Pack64(s, ns) = a \o <<q>> \o Bytes(ns, 3) BY <2>2, <2>3, <2>4, Zenon
  <2> QED BY <2>5, Zenon DEF Join
<1>8. \A k \in 1..4 : a[k] = (s[k + 3] % 4) * 64 + s[k + 4] \div 4 OBVIOUS
<1> HIDE DEF a, c, d
<1> DEFINE e == Join(a, c)
           b == Join(e, d)
<1>9. /\ 4 \in Nat /\ 1 \in Nat /\ 5 \in Nat /\ 3 \in Nat /\ 8 \in Nat /\ Adds(5, 4, 1) /\ Adds(8, 5, 3)
      /\ 1 \in 1..1 /\ 1 + 4 = 5 /\ 5 \in 1..5 /\ 1 \in 1..3 /\ 2 \in 1..3 /\ 3 \in 1..3
      /\ 1 + 5 = 6 /\ 2 + 5 = 7 /\ 3 + 5 = 8 /\ \A k \in 1..4 : k \in 1..5
    BY DEF Adds
<1>10. e \in [1..5 -> Byte] BY <1>2, <1>6, <1>9, JoinType, Zenon
<1>11. Joins(e, a, 4, c, 1) BY <1>2, <1>6, <1>9, JoinAt, Zenon
<1> HIDE DEF e
<1>12. b \in [1..8 -> Byte] BY <1>5, <1>9, <1>10, JoinType, Zenon
<1>13. Joins(b, e, 5, d, 3) BY <1>5, <1>9, <1>10, JoinAt, Zenon
<1> HIDE DEF b, q
<1>14. (\A k \in 1..4 : e[k] = a[k]) /\ e[5] = q BY <1>6, <1>9, <1>11, Zenon DEF Joins
<1>15. (\A k \in 1..5 : b[k] = e[k]) /\ b[6] = d[1] /\ b[7] = d[2] /\ b[8] = d[3] BY <1>9, <1>13, Zenon DEF Joins
<1>16. b[5] = q /\ \A k \in 1..4 : b[k] = a[k] BY <1>9, <1>14, <1>15, Zenon
<1>17. PackedIs(b, s, ns) BY <1>4, <1>8, <1>15, <1>16 DEF PackedIs, q
<1> QED BY <1>7, <1>12, <1>17 DEF b, e

\* The low 34 bits.
Low34(s) == [i \in 1..8 |-> IF i <= 3 THEN 0 ELSE IF i = 4 THEN s[4] % 4 ELSE s[i]]

LEMMA Unpacked ==
    ASSUME NEW s \in Word64, NEW ns \in Nano, NEW b, PackedIs(b, s, ns)
    PROVE  Unpack64s(b) = Low34(s) /\ Unpack64ns(b) = ns
<1>1. \A i \in 1..8 : s[i] \in Nat /\ s[i] < 256 BY DEF Word64, Byte, Below
<1>2. PICK n \in Nat : n < 64 /\ n = D3(ns) BY Nanoseconds
<1>3. \A k \in 1..4 : b[k] = (s[k + 3] % 4) * 64 + s[k + 4] \div 4 BY DEF PackedIs
<1>4. b[5] = (s[8] % 4) * 64 + n BY <1>2 DEF PackedIs
<1>5. ASSUME NEW k \in 1..4 PROVE b[k] \div 64 = s[k + 3] % 4 /\ b[k] % 64 = s[k + 4] \div 4
  <2>1. PICK x \in Nat, y \in Nat : x = s[k + 3] /\ y = s[k + 4] \div 4 /\ y < 64
    <3>1. k + 3 \in 1..8 /\ k + 4 \in 1..8 OBVIOUS
    <3>2. s[k + 3] \in Nat /\ s[k + 4] \in Nat /\ s[k + 4] < 256 BY <1>1, <3>1
    <3> QED BY <3>2
  <2>2. b[k] = (x % 4) * 64 + y BY <1>3, <2>1
  <2>3. b[k] \div 64 = x % 4 /\ b[k] % 64 = y BY <2>1, <2>2, Bits
  <2> QED BY <2>1, <2>3
<1>6. b[5] \div 64 = s[8] % 4 /\ b[5] % 64 = n
  <2>1. PICK x \in Nat : x = s[8] BY <1>1
  <2>2. b[5] = (x % 4) * 64 + n BY <1>4, <2>1
  <2> QED BY <1>2, <2>1, <2>2, Bits
<1>7. \A k \in 1..4 : (b[k] % 64) * 4 + b[k + 1] \div 64 = s[k + 4]
  <2>1. ASSUME NEW k \in 1..4 PROVE b[k] % 64 = s[k + 4] \div 4 /\ b[k + 1] \div 64 = s[k + 4] % 4
    <3>1. CASE k = 4 BY <1>5, <1>6, <3>1
    <3>2. CASE k \in 1..3
      <4>1. k + 1 \in 1..4 /\ (k + 1) + 3 = k + 4 BY <3>2
      <4>2. b[k + 1] \div 64 = s[k + 4] % 4 BY <1>5, <4>1
      <4> QED BY <1>5, <4>2
    <3> QED BY <3>1, <3>2
  <2>2. ASSUME NEW k \in 1..4 PROVE (s[k + 4] \div 4) * 4 + (s[k + 4] % 4) = s[k + 4]
    <3>1. k + 4 \in 1..8 OBVIOUS
    <3>2. PICK x \in Nat : x = s[k + 4] BY <1>1, <3>1
    <3>3. (x \div 4) * 4 + (x % 4) = x OBVIOUS
    <3> QED BY <3>2, <3>3
  <2> QED BY <2>1, <2>2
<1>8. b[1] \div 64 = s[4] % 4 BY <1>5
<1> DEFINE f == [k \in 1..4 |-> s[k + 4]]
           g == <<s[4] % 4>>
           h == Join(g, f)
<1>9. Unpack64s(b) = ZeroExtend(h)
  <2>1. [k \in 1..4 |-> (b[k] % 64) * 4 + b[k + 1] \div 64] = f BY <1>7
  <2> HIDE DEF f
  <2> QED BY <1>8, <2>1, Zenon DEF Unpack64s, Join
<1>10. s[4] % 4 \in Byte BY <1>1 DEF Byte, Below
<1>11. f \in [1..4 -> Byte] /\ \A k \in 1..4 : f[k] = s[k + 4] BY DEF Word64
<1>12. g \in [1..1 -> Byte] /\ g[1] = s[4] % 4 BY <1>10
<1> HIDE DEF f, g
<1>13. 1 \in Nat /\ 4 \in Nat /\ 5 \in Nat /\ Adds(5, 1, 4) /\ 1 \in 1..1 BY DEF Adds
<1>14. Joins(h, g, 1, f, 4) BY <1>11, <1>12, <1>13, JoinAt, Zenon
<1>15. h \in [1..5 -> Byte] BY <1>11, <1>12, <1>13, JoinType, Zenon
<1> HIDE DEF h
<1>16. h[1] = s[4] % 4 /\ \A k \in 1..4 : h[k + 1] = s[k + 4]
  <2>1. h[1] = g[1] /\ \A k \in 1..4 : h[k + 1] = f[k] BY <1>13, <1>14, Zenon DEF Joins
  <2> QED BY <1>11, <1>12, <2>1
<1>17. Len(h) = 5 BY <1>13, <1>15, WordSeq, Zenon
<1>18. Low34(s) \in [1..8 -> Byte]
  <2>1. 0 \in Byte BY DEF Byte, Below
  <2> QED BY <1>10, <2>1 DEF Low34, Word64
<1>19. \A i \in 1..8 : Low34(s)[i] = IF i <= 8 - 5 THEN 0 ELSE h[i - 8 + 5]
  <2>1. ASSUME NEW i \in 5..8 PROVE Low34(s)[i] = h[i - 8 + 5]
    <3>1. PICK k \in 1..4 : i = k + 4 /\ i - 8 + 5 = k + 1 OBVIOUS
    <3>2. Low34(s)[i] = s[i] BY DEF Low34
    <3>3. h[k + 1] = s[k + 4] BY <1>16
    <3> QED BY <3>1, <3>2, <3>3
  <2>2. Low34(s)[4] = s[4] % 4 BY DEF Low34
  <2>3. \A i \in 1..3 : Low34(s)[i] = 0 BY DEF Low34
  <2> QED BY <1>16, <2>1, <2>2, <2>3
<1>20. ZeroExtend(h) = Low34(s)
  <2>1. 5 \in 1..8 OBVIOUS
  <2> QED BY <1>17, <1>18, <1>19, <2>1, FillIs DEF ZeroExtend
<1>21. Unpack64ns(b) = ns
  <2> DEFINE v == <<b[5] % 64, b[6], b[7], b[8]>>
  <2>1. v[1] = D3(ns) /\ v[2] = D2(ns) /\ v[3] = D1(ns) /\ v[4] = D0(ns) BY <1>2, <1>6 DEF PackedIs
  <2>2. ns \in Nat /\ ns < Huge BY Nanoseconds
  <2> HIDE DEF v
  <2>3. Num(v) = ns BY <2>1, <2>2, NumIs
  <2> QED BY <2>3 DEF v, Unpack64ns
<1> QED BY <1>9, <1>20, <1>21

LEMMA Low34Keeps ==
    ASSUME NEW s \in Word64
    PROVE  /\ Low34(s) \in Word64
           /\ Low34(s) = s <=> AtMost(s, ZeroExtend(<<3, 255, 255, 255, 255>>))
<1>1. \A i \in 1..8 : s[i] \in Nat /\ s[i] < 256 BY DEF Word64, Byte, Below
<1>2. Low34(s) \in Word64
  <2>1. 0 \in Byte /\ s[4] % 4 \in Byte BY <1>1 DEF Byte, Below
  <2> QED BY <2>1 DEF Low34, Word64
<1> DEFINE u == [i \in 1..8 |-> IF i <= 3 THEN 0 ELSE IF i = 4 THEN 3 ELSE 255]
<1>3. u \in Word64 /\ u[4] = 3 /\ (\A j \in 1..(4 - 1) : u[j] = 0) /\ \A j \in (4 + 1)..8 : u[j] = 255
    BY DEF Word64, Byte, Below
<1>4. ZeroExtend(<<3, 255, 255, 255, 255>>) = u BY DEF ZeroExtend, Fill
<1> HIDE DEF u
<1>5. AtMost(s, u) <=> s[4] <= 3 /\ \A j \in 1..(4 - 1) : s[j] = 0
  <2>1. 4 \in 1..8 /\ 3 \in Byte BY DEF Byte, Below
  <2> QED BY <1>3, <2>1, AtMostIs
<1>6. Low34(s) = s <=> s[4] <= 3 /\ \A j \in 1..(4 - 1) : s[j] = 0
  <2>1. ASSUME Low34(s) = s PROVE s[4] <= 3 /\ \A j \in 1..(4 - 1) : s[j] = 0
    <3>1. s[4] = s[4] % 4 /\ \A j \in 1..3 : s[j] = 0 BY <2>1 DEF Low34
    <3>2. PICK x \in Nat : x = s[4] BY <1>1
    <3>3. x = x % 4 BY <3>1, <3>2
    <3>4. x <= 3 BY <3>3
    <3> QED BY <3>1, <3>2, <3>4
  <2>2. ASSUME s[4] <= 3, \A j \in 1..(4 - 1) : s[j] = 0 PROVE Low34(s) = s
    <3>1. s[4] % 4 = s[4]
      <4>1. PICK x \in Nat : x = s[4] BY <1>1
      <4>2. x % 4 = x BY <2>2, <4>1
      <4> QED BY <4>1, <4>2
    <3>2. \A i \in 1..8 : Low34(s)[i] = s[i] BY <2>2, <3>1 DEF Low34
    <3> QED BY <1>2, <3>2, SameWord DEF Word64
  <2> QED BY <2>1, <2>2
<1> QED BY <1>2, <1>4, <1>5, <1>6

\* Two bytes and, behind them, those of x.
Pair(a, b) == <<a, b>>
Prefixed(p, a, b, x, m) == Cell(p) = a /\ Cell(p + 1) = b /\ Raw(p + 2, m) = x

HeadOf(h, l) == h \in Seq(Byte) /\ Len(h) = l
LiesPrefixed(h, a, b, x, m) == \A p \in Nat : Lies(h, p) => Prefixed(p, a, b, x, m)

LEMMA PairHead ==
    ASSUME NEW a \in Byte, NEW b \in Byte, NEW m \in Nat, NEW x \in [1..m -> Byte],
           NEW l \in Nat, Adds(l, 2, m)
    PROVE  HeadOf(Join(Pair(a, b), x), l) /\ LiesPrefixed(Join(Pair(a, b), x), a, b, x, m)
<1> DEFINE c == Pair(a, b)
           h == Join(c, x)
<1>1. c \in [1..2 -> Byte] /\ c[1] = a /\ c[2] = b BY DEF Pair
<1>2. 2 \in Nat OBVIOUS
<1> HIDE DEF c
<1>3. h \in [1..l -> Byte] BY <1>1, <1>2, JoinType, Zenon
<1>4. h \in Seq(Byte) /\ Len(h) = l /\ \A p \in Nat : Lies(h, p) => Here(p, l, h) BY <1>3, LiesRaw, Zenon
<1>5. ASSUME NEW p \in Nat, Here(p, l, h) PROVE Prefixed(p, a, b, x, m)
  <2>1. PICK q \in Nat : Adds(q, p, 2) BY DEF Adds
  <2>a. Here(p, 2, c) /\ Here(q, m, x) BY <1>1, <1>2, <1>5, <2>1, RawJoin, Zenon
  <2>2. Raw(p, 2) = c /\ Raw(q, m) = x BY <2>a, Zenon DEF Here
  <2>3. Raw(p, 2)[1] = Cell(p) /\ Raw(p, 2)[2] = Cell(p + 1)
    <3>1. \A k \in 1..2 : Raw(p, 2)[k] = Cell(p + k - 1) BY <1>2, RawIs, Zenon
    <3>2. 1 \in 1..2 /\ 2 \in 1..2 /\ p + 1 - 1 = p /\ p + 2 - 1 = p + 1 OBVIOUS
    <3> QED BY <3>1, <3>2, Zenon
  <2>4. q = p + 2 BY <2>1 DEF Adds
  <2> QED BY <1>1, <2>2, <2>3, <2>4, Zenon DEF Prefixed
<1>6. \A p \in Nat : Lies(h, p) => Prefixed(p, a, b, x, m) BY <1>4, <1>5, Zenon
<1>7. HeadOf(h, l) /\ LiesPrefixed(h, a, b, x, m) BY <1>4, <1>6, Zenon DEF HeadOf, LiesPrefixed
<1> QED BY <1>7 DEF c

\* What ReadTimestamp returns.
LEMMA NoTimestamp ==
    ASSUME NEW p, ~HasToken(p) \/ ~Has(Offset(p), UintLength(p))
    PROVE  ReadTimestamp(p) = Fails("error")
BY DEF ReadTimestamp

LEMMA Timestamp32 ==
    ASSUME NEW p, HasToken(p), Has(Offset(p), UintLength(p)), Cell(p) = 214, Cell(Offset(p)) = 255
    PROVE  ReadTimestamp(p) = Ok(T(ZeroExtend(Raw(Offset(p) + 1, 4)), 0), Offset(p) + 5)
BY DEF ReadTimestamp, msgpackTimestamp, fluentdEventTime

LEMMA Timestamp64 ==
    ASSUME NEW p, HasToken(p), Has(Offset(p), UintLength(p)), Cell(p) = 215, Cell(Offset(p)) = 255
    PROVE  ReadTimestamp(p) = Ok(T(Unpack64s(Raw(Offset(p) + 1, 8)), Unpack64ns(Raw(Offset(p) + 1, 8))),
                                 Offset(p) + 9)
BY DEF ReadTimestamp, msgpackTimestamp, fluentdEventTime

EventTimeAt(o) == T(SignExtend(Raw(o + 1, 4)), Num(Raw(o + 5, 4)))

LEMMA TimestampFluentd ==
    ASSUME NEW p, HasToken(p), Has(Offset(p), UintLength(p)), Cell(p) = 215, Cell(Offset(p)) = 0
    PROVE  ReadTimestamp(p) = Ok(EventTimeAt(Offset(p)), Offset(p) + 9)
BY DEF ReadTimestamp, msgpackTimestamp, fluentdEventTime, EventTimeAt

LEMMA Timestamp96 ==
    ASSUME NEW p, HasToken(p), Has(Offset(p), UintLength(p)), Cell(p) = 199, Cell(Offset(p)) = 255
    PROVE  ReadTimestamp(p) = IF Has(Offset(p), 13)
                                 THEN Ok(T(Raw(Offset(p) + 5, 8), Num(Raw(Offset(p) + 1, 4))), Offset(p) + 1 + UintLength(p))
                                 ELSE Fails("panic")
BY DEF ReadTimestamp, msgpackTimestamp, fluentdEventTime

LEMMA TimestampExt ==
    ASSUME NEW p, HasToken(p), Has(Offset(p), UintLength(p)), Cell(p) = 199, Cell(Offset(p)) = 0
    PROVE  ReadTimestamp(p) = IF Has(Offset(p), 9)
                                 THEN Ok(EventTimeAt(Offset(p)), Offset(p) + 1 + UintLength(p))
                                 ELSE Fails("panic")
BY DEF ReadTimestamp, msgpackTimestamp, fluentdEventTime, EventTimeAt

LEMMA TimestampInt ==
    ASSUME NEW p, HasToken(p), Has(Offset(p), UintLength(p)), Cell(p) \notin {199, 214, 215}
    PROVE  ReadTimestamp(p) = IF ReadInt(p).out = "ok" THEN Ok(T(ReadInt(p).val.v, 0), ReadInt(p).next) ELSE ReadInt(p)
BY DEF ReadTimestamp

\* What a time in n bytes behind its first one is read as.
TimeAt(p, val, n) ==
    /\ SizedAt(p, "Ext", n, 0) /\ OwnIs(Cell(p), "Ext", n)
    /\ readTimeUnsafe(Cell(p), Raw(p + 1, n)) = val
    /\ ReadTimestamp(p) = IF p + 1 + n <= lim THEN Ok(val, p + 1 + n) ELSE Fails("error")

LEMMA SizedOffsets ==
    ASSUME NEW p \in Nat, NEW t, NEW n \in Nat, NEW m \in Nat, SizedAt(p, t, n, m), lim \in Nat, Bytewise
    PROVE  /\ Offset(p) = p + 1 + m /\ UintLength(p) = n
           /\ HasToken(p) /\ Has(Offset(p), UintLength(p)) <=> p + 1 + m + n <= lim
<1>1. Offset(p) = p + 1 + m /\ UintLength(p) = n BY DEF SizedAt, Offset
<1>2. (HasToken(p) => Token(p).next <= lim) /\ (Token(p).next <= lim => HasToken(p)) BY TokenType
<1> QED BY <1>1, <1>2 DEF Has, Offset

\* What readTimeUnsafe returns.
LEMMA Rewrites ==
    ASSUME NEW b, NEW x, NEW y
    PROVE  /\ SubSeq(b, 2, 5) = x => T(ZeroExtend(SubSeq(b, 2, 5)), 0) = T(ZeroExtend(x), 0)
           /\ SubSeq(b, 2, 9) = x =>
                T(Unpack64s(SubSeq(b, 2, 9)), Unpack64ns(SubSeq(b, 2, 9))) = T(Unpack64s(x), Unpack64ns(x))
           /\ SubSeq(b, 2, 5) = x /\ SubSeq(b, 6, 9) = y =>
                T(SignExtend(SubSeq(b, 2, 5)), Num(SubSeq(b, 6, 9))) = T(SignExtend(x), Num(y))
BY Zenon

LEMMA TimeUnsafe32 ==
    ASSUME NEW b, Len(b) = 5, b[1] = 255
    PROVE  readTimeUnsafe(214, b) = T(ZeroExtend(SubSeq(b, 2, 5)), 0)
BY DEF readTimeUnsafe, msgpackTimestamp

LEMMA TimeUnsafe64 ==
    ASSUME NEW b, Len(b) = 9, b[1] = 255
    PROVE  readTimeUnsafe(215, b) = T(Unpack64s(SubSeq(b, 2, 9)), Unpack64ns(SubSeq(b, 2, 9)))
BY DEF readTimeUnsafe, msgpackTimestamp

LEMMA TimeUnsafeFluentd ==
    ASSUME NEW b, Len(b) = 9, b[1] = 0
    PROVE  readTimeUnsafe(215, b) = T(SignExtend(SubSeq(b, 2, 5)), Num(SubSeq(b, 6, 9)))
BY DEF readTimeUnsafe, msgpackTimestamp, fluentdEventTime

LEMMA TwoHere ==
    ASSUME NEW p \in Nat, NEW x \in [1..4 -> Byte], NEW y \in [1..4 -> Byte], Here(p, 8, Join(x, y))
    PROVE  Raw(p, 4) = x /\ Raw(p + 4, 4) = y
<1>1. PICK r \in Nat : r = p + 4 /\ Adds(r, p, 4) BY DEF Adds
<1>2. PICK n \in Nat, m \in Nat, l \in Nat : n = 4 /\ m = 4 /\ l = 8 OBVIOUS
<1>3. x \in [1..n -> Byte] /\ y \in [1..m -> Byte] /\ Adds(l, n, m) /\ Adds(r, p, n) /\ Here(p, l, Join(x, y))
    BY <1>1, <1>2 DEF Adds
<1>4. Here(p, n, x) /\ Here(r, m, y) BY <1>3, RawJoin, Zenon
<1> QED BY <1>1, <1>2, <1>4 DEF Here

LEMMA Ts32At ==
    ASSUME NEW p \in Nat, NEW x, Prefixed(p, 214, 255, x, 4), lim \in Nat, Bytewise
    PROVE  TimeAt(p, T(ZeroExtend(x), 0), 5)
<1>1. Cell(p) = 214 /\ Cell(p + 1) = 255 /\ Raw(p + 2, 4) = x BY DEF Prefixed
<1>2. SizedAt(p, "Ext", 5, 0) /\ OwnIs(Cell(p), "Ext", 5)
  <2>1. OwnIs(Cell(p), "Ext", 5) /\ Cell(p) # Unknown BY <1>1, GetExt DEF Unknown
  <2> QED BY <2>1, OwnIsRead
<1> DEFINE b == Raw(p + 1, 5)
<1>3. Len(b) = 5 /\ b[1] = 255 /\ SubSeq(b, 2, 5) = x
  <2>1. PICK q \in Nat : q = p + 1 OBVIOUS
  <2>2. SubSeq(Raw(q, 5), 2, 5) = Raw(q + 1, 4) BY RawParts, Zenon
  <2>3. Len(Raw(q, 5)) = 5 /\ Raw(q, 5)[1] = Cell(q) BY DEF Raw
  <2> QED BY <1>1, <2>1, <2>2, <2>3
<1> HIDE DEF b
<1>4. readTimeUnsafe(214, b) = T(ZeroExtend(x), 0)
  <2>1. readTimeUnsafe(214, b) = T(ZeroExtend(SubSeq(b, 2, 5)), 0) BY <1>3, TimeUnsafe32
  <2> QED BY <1>3, <2>1, Rewrites
<1>5. Offset(p) = p + 1 /\ (HasToken(p) /\ Has(Offset(p), UintLength(p)) <=> p + 1 + 5 <= lim)
    BY <1>2, SizedOffsets
<1>6. ReadTimestamp(p) = IF p + 1 + 5 <= lim THEN Ok(T(ZeroExtend(x), 0), p + 1 + 5) ELSE Fails("error")
  <2>1. CASE p + 1 + 5 <= lim
    <3>1. ReadTimestamp(p) = Ok(T(ZeroExtend(Raw(Offset(p) + 1, 4)), 0), Offset(p) + 5) BY <1>1, <1>5, <2>1, Timestamp32
    <3>2. Offset(p) + 1 = p + 2 /\ Offset(p) + 5 = p + 1 + 5 BY <1>5
    <3> QED BY <1>1, <2>1, <3>1, <3>2
  <2>2. CASE ~(p + 1 + 5 <= lim) BY <1>5, <2>2, NoTimestamp
  <2> QED BY <2>1, <2>2
<1> QED BY <1>1, <1>2, <1>4, <1>6 DEF TimeAt, b

LEMMA Ts64At ==
    ASSUME NEW p \in Nat, NEW x, Prefixed(p, 215, 255, x, 8), lim \in Nat, Bytewise
    PROVE  TimeAt(p, T(Unpack64s(x), Unpack64ns(x)), 9)
<1>1. Cell(p) = 215 /\ Cell(p + 1) = 255 /\ Raw(p + 2, 8) = x BY DEF Prefixed
<1>2. SizedAt(p, "Ext", 9, 0) /\ OwnIs(Cell(p), "Ext", 9)
  <2>1. OwnIs(Cell(p), "Ext", 9) /\ Cell(p) # Unknown BY <1>1, GetExt DEF Unknown
  <2> QED BY <2>1, OwnIsRead
<1> DEFINE b == Raw(p + 1, 9)
<1>3. Len(b) = 9 /\ b[1] = 255 /\ SubSeq(b, 2, 9) = x
  <2>1. PICK q \in Nat : q = p + 1 OBVIOUS
  <2>2. SubSeq(Raw(q, 9), 2, 9) = Raw(q + 1, 8) BY RawParts, Zenon
  <2>3. Len(Raw(q, 9)) = 9 /\ Raw(q, 9)[1] = Cell(q) BY DEF Raw
  <2> QED BY <1>1, <2>1, <2>2, <2>3
<1> HIDE DEF b
<1>4. readTimeUnsafe(215, b) = T(Unpack64s(x), Unpack64ns(x))
  <2>1. readTimeUnsafe(215, b) = T(Unpack64s(SubSeq(b, 2, 9)), Unpack64ns(SubSeq(b, 2, 9))) BY <1>3, TimeUnsafe64
  <2> QED BY <1>3, <2>1, Rewrites
<1>5. Offset(p) = p + 1 /\ (HasToken(p) /\ Has(Offset(p), UintLength(p)) <=> p + 1 + 9 <= lim)
    BY <1>2, SizedOffsets
<1>6. ReadTimestamp(p) = IF p + 1 + 9 <= lim THEN Ok(T(Unpack64s(x), Unpack64ns(x)), p + 1 + 9) ELSE Fails("error")
  <2>1. CASE p + 1 + 9 <= lim
    <3>1. ReadTimestamp(p) = Ok(T(Unpack64s(Raw(Offset(p) + 1, 8)), Unpack64ns(Raw(Offset(p) + 1, 8))), Offset(p) + 9)
        BY <1>1, <1>5, <2>1, Timestamp64
    <3>2. Offset(p) + 1 = p + 2 /\ Offset(p) + 9 = p + 1 + 9 BY <1>5
    <3> QED BY <1>1, <2>1, <3>1, <3>2
  <2>2. CASE ~(p + 1 + 9 <= lim) BY <1>5, <2>2, NoTimestamp
  <2> QED BY <2>1, <2>2
<1> QED BY <1>1, <1>2, <1>4, <1>6 DEF TimeAt, b

LEMMA FluentdAt ==
    ASSUME NEW p \in Nat, NEW x \in [1..4 -> Byte], NEW y \in [1..4 -> Byte],
           Prefixed(p, 215, 0, Join(x, y), 8), lim \in Nat, Bytewise
    PROVE  TimeAt(p, T(SignExtend(x), Num(y)), 9)
<1>1. Cell(p) = 215 /\ Cell(p + 1) = 0 /\ Raw(p + 2, 8) = Join(x, y) BY DEF Prefixed
<1>2. SizedAt(p, "Ext", 9, 0) /\ OwnIs(Cell(p), "Ext", 9)
  <2>1. OwnIs(Cell(p), "Ext", 9) /\ Cell(p) # Unknown BY <1>1, GetExt DEF Unknown
  <2> QED BY <2>1, OwnIsRead
<1>a. Raw(p + 2, 4) = x /\ Raw(p + 6, 4) = y
  <2>1. PICK q \in Nat : q = p + 2 /\ q + 4 = p + 6 OBVIOUS
  <2>3. Here(q, 8, Join(x, y)) BY <1>1, <2>1 DEF Here
  <2>4. Raw(q, 4) = x /\ Raw(q + 4, 4) = y BY <2>3, TwoHere
  <2> QED BY <2>1, <2>4
<1> DEFINE b == Raw(p + 1, 9)
<1>3. Len(b) = 9 /\ b[1] = 0 /\ SubSeq(b, 2, 5) = x /\ SubSeq(b, 6, 9) = y
  <2>1. PICK q \in Nat : q = p + 1 OBVIOUS
  <2>2. SubSeq(Raw(q, 9), 2, 5) = Raw(q + 1, 4) /\ SubSeq(Raw(q, 9), 6, 9) = Raw(q + 5, 4) BY RawParts, Zenon
  <2>3. Len(Raw(q, 9)) = 9 /\ Raw(q, 9)[1] = Cell(q) BY DEF Raw
  <2> QED BY <1>1, <1>a, <2>1, <2>2, <2>3
<1> HIDE DEF b
<1>4. readTimeUnsafe(215, b) = T(SignExtend(x), Num(y))
  <2>1. readTimeUnsafe(215, b) = T(SignExtend(SubSeq(b, 2, 5)), Num(SubSeq(b, 6, 9))) BY <1>3, TimeUnsafeFluentd
  <2> QED BY <1>3, <2>1, Rewrites
<1>5. Offset(p) = p + 1 /\ (HasToken(p) /\ Has(Offset(p), UintLength(p)) <=> p + 1 + 9 <= lim)
    BY <1>2, SizedOffsets
<1>6. ReadTimestamp(p) = IF p + 1 + 9 <= lim THEN Ok(T(SignExtend(x), Num(y)), p + 1 + 9) ELSE Fails("error")
  <2>1. CASE p + 1 + 9 <= lim
    <3>1. ReadTimestamp(p) = Ok(EventTimeAt(Offset(p)), Offset(p) + 9) BY <1>1, <1>5, <2>1, TimestampFluentd
    <3>2. Offset(p) + 1 = p + 2 /\ Offset(p) + 5 = p + 6 /\ Offset(p) + 9 = p + 1 + 9 BY <1>5
    <3>3. EventTimeAt(Offset(p)) = T(SignExtend(x), Num(y)) BY <1>a, <3>2 DEF EventTimeAt
    <3> QED BY <1>1, <2>1, <3>1, <3>2, <3>3
  <2>2. CASE ~(p + 1 + 9 <= lim) BY <1>5, <2>2, NoTimestamp
  <2> QED BY <2>1, <2>2
<1> QED BY <1>1, <1>2, <1>4, <1>6 DEF TimeAt, b

\* Three bytes and, behind them, those of x.
Triple(a, b, c) == <<a, b, c>>
Prefixed3(p, a, b, c, m, x) == Cell(p) = a /\ Cell(p + 1) = b /\ Cell(p + 2) = c /\ Here(p + 3, m, x)

LEMMA TripleHere ==
    ASSUME NEW a \in Byte, NEW b \in Byte, NEW c \in Byte, NEW m \in Nat, NEW x \in [1..m -> Byte],
           NEW p \in Nat, NEW l \in Nat, Adds(l, 3, m), Here(p, l, Join(Triple(a, b, c), x))
    PROVE  Prefixed3(p, a, b, c, m, x)
<1> DEFINE d == Triple(a, b, c)
<1>1. d \in [1..3 -> Byte] /\ d[1] = a /\ d[2] = b /\ d[3] = c BY DEF Triple
<1>2. 3 \in Nat OBVIOUS
<1>3. Here(p, l, Join(d, x)) OBVIOUS
<1> HIDE DEF d
<1>4. PICK q \in Nat : Adds(q, p, 3) BY DEF Adds
<1>5. Here(p, 3, d) /\ Here(q, m, x)
  <2>1. PICK n \in Nat : n = 3 OBVIOUS
  <2>2. d \in [1..n -> Byte] /\ Adds(l, n, m) /\ Adds(q, p, n) BY <1>1, <1>4, <2>1
  <2>3. Here(p, n, d) /\ Here(q, m, x) BY <1>3, <2>2, RawJoin, Zenon
  <2> QED BY <2>1, <2>3
<1>6. \A k \in 1..3 : Raw(p, 3)[k] = Cell(p + k - 1) BY <1>2, RawIs, Zenon
<1>7. \A k \in 1..3 : d[k] = Cell(p + k - 1) BY <1>5, <1>6, Zenon DEF Here
<1>8. /\ 1 \in 1..3 /\ 2 \in 1..3 /\ 3 \in 1..3
      /\ p + 1 - 1 = p /\ p + 2 - 1 = p + 1 /\ p + 3 - 1 = p + 2
    OBVIOUS
<1>9. d[1] = Cell(p) /\ d[2] = Cell(p + 1) /\ d[3] = Cell(p + 2) BY <1>7, <1>8, Zenon
<1>10. q = p + 3 BY <1>4 DEF Adds
<1> QED BY <1>1, <1>5, <1>9, <1>10, Zenon DEF Prefixed3

\* What ReadTimestamp returns for a time with an ext8 header of the length n.
Ext8At(p, val, n) ==
    /\ SizedAt(p, "Ext", n, 1) /\ SizedIs(Cell(p), "Ext", 1)
    /\ ReadTimestamp(p) = IF p + 3 + n <= lim THEN Ok(val, p + 3 + n)
                          ELSE IF p + 2 + n <= lim THEN Fails("panic") ELSE Fails("error")

LEMMA Ext8Sized ==
    ASSUME NEW p \in Nat, NEW n \in Nat, n < 128, Cell(p) = 199, Cell(p + 1) = n
    PROVE  SizedAt(p, "Ext", n, 1) /\ SizedIs(Cell(p), "Ext", 1)
<1>1. SizedIs(Cell(p), "Ext", 1) /\ Cell(p) # Unknown BY GetExt DEF Unknown
<1>2. n < Huge /\ Fits(n, 1) BY DEF Huge, Fits
<1>3. Follows(Bytes(n, 1), p, 1)
  <2>1. Bytes(n, 1)[1] = n BY Bytes1
  <2> QED BY <2>1 DEF Follows
<1> QED BY <1>1, <1>2, <1>3, SizedIsRead

LEMMA Ext8Read ==
    ASSUME NEW p \in Nat, NEW n, n = 8 \/ n = 12, Cell(p) = 199, Cell(p + 1) = n, lim \in Nat, Bytewise
    PROVE  /\ SizedAt(p, "Ext", n, 1) /\ SizedIs(Cell(p), "Ext", 1)
           /\ Offset(p) = p + 2 /\ UintLength(p) = n
           /\ HasToken(p) /\ Has(Offset(p), UintLength(p)) <=> p + 2 + n <= lim
<1>1. n \in Nat /\ n < 128 OBVIOUS
<1>2. SizedAt(p, "Ext", n, 1) /\ SizedIs(Cell(p), "Ext", 1) BY <1>1, Ext8Sized
<1>5. Offset(p) = p + 1 + 1 /\ UintLength(p) = n /\ (HasToken(p) /\ Has(Offset(p), UintLength(p)) <=> p + 1 + 1 + n <= lim)
    BY <1>1, <1>2, SizedOffsets
<1> QED BY <1>2, <1>5

LEMMA Ts96At ==
    ASSUME NEW p \in Nat, NEW s, NEW y, Cell(p) = 199, Cell(p + 1) = 12, Cell(p + 2) = 255,
           Raw(p + 3, 4) = y, Raw(p + 7, 8) = s, lim \in Nat, Bytewise
    PROVE  Ext8At(p, T(s, Num(y)), 12)
<1>1. /\ SizedAt(p, "Ext", 12, 1) /\ SizedIs(Cell(p), "Ext", 1)
      /\ Offset(p) = p + 2 /\ UintLength(p) = 12
      /\ HasToken(p) /\ Has(Offset(p), UintLength(p)) <=> p + 2 + 12 <= lim
    BY Ext8Read
<1>2. Offset(p) + 5 = p + 7 /\ Offset(p) + 1 = p + 3 /\ Offset(p) + 1 + UintLength(p) = p + 3 + 12 BY <1>1
<1>3. Has(Offset(p), 13) <=> p + 3 + 12 <= lim BY <1>1 DEF Has
<1>4. CASE p + 2 + 12 <= lim
  <2>1. ReadTimestamp(p) = IF Has(Offset(p), 13)
                              THEN Ok(T(Raw(Offset(p) + 5, 8), Num(Raw(Offset(p) + 1, 4))), Offset(p) + 1 + UintLength(p))
                              ELSE Fails("panic")
      BY <1>1, <1>4, Timestamp96
  <2> QED BY <1>1, <1>2, <1>3, <1>4, <2>1 DEF Ext8At
<1>5. CASE ~(p + 2 + 12 <= lim)
  <2>1. ReadTimestamp(p) = Fails("error") BY <1>1, <1>5, NoTimestamp
  <2> QED BY <1>1, <1>5, <2>1 DEF Ext8At
<1> QED BY <1>4, <1>5

LEMMA ExtAt ==
    ASSUME NEW p \in Nat, NEW x, NEW y, Cell(p) = 199, Cell(p + 1) = 8, Cell(p + 2) = 0,
           Raw(p + 3, 4) = x, Raw(p + 7, 4) = y, lim \in Nat, Bytewise
    PROVE  Ext8At(p, T(SignExtend(x), Num(y)), 8)
<1>1. /\ SizedAt(p, "Ext", 8, 1) /\ SizedIs(Cell(p), "Ext", 1)
      /\ Offset(p) = p + 2 /\ UintLength(p) = 8
      /\ HasToken(p) /\ Has(Offset(p), UintLength(p)) <=> p + 2 + 8 <= lim
    BY Ext8Read
<1>2. Offset(p) + 5 = p + 7 /\ Offset(p) + 1 = p + 3 /\ Offset(p) + 1 + UintLength(p) = p + 3 + 8 BY <1>1
<1>3. Has(Offset(p), 9) <=> p + 3 + 8 <= lim BY <1>1 DEF Has
<1>4. CASE p + 2 + 8 <= lim
  <2>1. ReadTimestamp(p) = IF Has(Offset(p), 9)
                              THEN Ok(EventTimeAt(Offset(p)), Offset(p) + 1 + UintLength(p))
                              ELSE Fails("panic")
      BY <1>1, <1>4, TimestampExt
  <2>2. EventTimeAt(Offset(p)) = T(SignExtend(x), Num(y)) BY <1>2 DEF EventTimeAt
  <2> QED BY <1>1, <1>2, <1>3, <1>4, <2>1, <2>2 DEF Ext8At
<1>5. CASE ~(p + 2 + 8 <= lim)
  <2>1. ReadTimestamp(p) = Fails("error") BY <1>1, <1>5, NoTimestamp
  <2> QED BY <1>1, <1>5, <2>1 DEF Ext8At
<1> QED BY <1>4, <1>5

-----------------------------------------------------------------------------
(* Integers *)

\* What the functions for integers and times return.
IntRead(p, w, t, m) ==
    /\ ReadInt(p) = IF p + 1 + m <= lim THEN Ok(R(t, w), p + 1 + m) ELSE Fails("error")
    /\ t = "Uint" => ReadUint(p) = ReadInt(p)
    /\ ReadTimestamp(p) = IF p + 1 + m <= lim THEN Ok(T(w, 0), p + 1 + m) ELSE Fails("error")
    /\ readTimeUnsafe(Cell(p), Raw(p + 1, m)) = T(w, 0)

LEMMA IntegersRead ==
    ASSUME NEW p \in Nat, NEW w, NEW t, NEW m, IntAt(p, w, t, m), NEW S, t \in S, lim \in Nat
    PROVE  ReadIntegers(p, S) = IF p + 1 + m <= lim THEN Ok(R(t, w), p + 1 + m) ELSE Fails("error")
<1>1. /\ Get(Cell(p)).typ = t /\ Get(Cell(p)).length = m /\ m \in Nat
      /\ m = 0 => SignExtend(<<Cell(p)>>) = w
      /\ m # 0 => Widened(Raw(p + 1, m), t) = w
    BY DEF IntAt, OwnIs
<1>2. CASE m = 0
  <2>1. Has(p, 1) <=> p + 1 + m <= lim BY <1>2 DEF Has
  <2>2. p + 1 + m = p + 1 BY <1>2
  <2> QED BY <1>1, <1>2, <2>1, <2>2 DEF ReadIntegers
<1>3. CASE m # 0
  <2>1. Has(p + 1, m) <=> p + 1 + m <= lim BY <1>1 DEF Has
  <2>2. Has(p + 1, m) => Has(p, 1) BY <1>1 DEF Has
  <2>3. m > 0 BY <1>1, <1>3
  <2>4. (IF t = "Int" THEN intFromBuf(Raw(p + 1, m)) ELSE uintFromBuf(Raw(p + 1, m))) = w BY <1>1, <1>3 DEF Widened
  <2> QED BY <1>1, <1>3, <2>1, <2>2, <2>3, <2>4 DEF ReadIntegers
<1> QED BY <1>2, <1>3

LEMMA IntReads ==
    ASSUME NEW p \in Nat, NEW w, NEW t, NEW m, IntAt(p, w, t, m),
           lim \in Nat, Bytewise
    PROVE  /\ t = "Uint" => ReadUint(p) = IF p + 1 + m <= lim THEN Ok(R(t, w), p + 1 + m) ELSE Fails("error")
           /\ (t = "Uint" => ~Negative(w)) => IntRead(p, w, t, m)
<1>1. t \in {"Int", "Uint"} /\ m \in Nat /\ SizedAt(p, t, m, 0) /\ OwnIs(Cell(p), t, m)
      /\ m \in {0, 1, 2, 4, 8} /\ readIntUnsafe(Cell(p), Raw(p + 1, m)) = w
    BY DEF IntAt
<1> DEFINE r == IF p + 1 + m <= lim THEN Ok(R(t, w), p + 1 + m) ELSE Fails("error")
<1>2. ReadIntegers(p, {"Int", "Uint"}) = r BY <1>1, IntegersRead
<1>3. t = "Uint" => ReadUint(p) = r
  <2>1. t = "Uint" => t \in {"Uint"} OBVIOUS
  <2> QED BY <2>1, IntegersRead DEF ReadUint
<1>4. ASSUME t = "Uint" => ~Negative(w) PROVE IntRead(p, w, t, m)
  <2>1. ReadInt(p) = r
    <3>1. CASE p + 1 + m <= lim
      <4>1. r.out = "ok" /\ r.val.typ = t /\ r.val.v = w BY <3>1 DEF Ok, R
      <4> HIDE DEF r
      <4> QED BY <1>2, <1>4, <4>1 DEF ReadInt
    <3>2. CASE ~(p + 1 + m <= lim)
      <4>1. r.out # "ok" BY <3>2 DEF Fails
      <4> HIDE DEF r
      <4> QED BY <1>2, <4>1 DEF ReadInt
    <3> QED BY <3>1, <3>2
  <2>2. Cell(p) \notin {199, 214, 215} BY <1>1, GetExt DEF OwnIs, SizedIs
  <2>3. HasToken(p) /\ Has(Offset(p), UintLength(p)) <=> p + 1 + m <= lim
    <3>1. HasToken(p) /\ Has(Offset(p), UintLength(p)) <=> p + 1 + 0 + m <= lim BY <1>1, SizedOffsets
    <3> QED BY <1>1, <3>1
  <2>4. ReadTimestamp(p) = IF p + 1 + m <= lim THEN Ok(T(w, 0), p + 1 + m) ELSE Fails("error")
    <3>1. CASE p + 1 + m <= lim
      <4>1. ReadTimestamp(p) = IF ReadInt(p).out = "ok" THEN Ok(T(ReadInt(p).val.v, 0), ReadInt(p).next) ELSE ReadInt(p)
          BY <2>2, <2>3, <3>1, TimestampInt
      <4>2. r.out = "ok" /\ r.val.v = w /\ r.next = p + 1 + m BY <3>1 DEF Ok, R
      <4> HIDE DEF r
      <4> QED BY <2>1, <3>1, <4>1, <4>2
    <3>2. CASE ~(p + 1 + m <= lim) BY <2>3, <3>2, NoTimestamp
    <3> QED BY <3>1, <3>2
  <2>5. readTimeUnsafe(Cell(p), Raw(p + 1, m)) = T(w, 0)
    <3> DEFINE b == Raw(p + 1, m)
    <3>1. Len(b) = m BY <1>1 DEF Raw
    <3>2. readIntUnsafe(Cell(p), b) = w BY <1>1
    <3> HIDE DEF b
    <3>3. readTimeUnsafe(Cell(p), b) = T(readIntUnsafe(Cell(p), b), 0) BY <1>1, <2>2, <3>1 DEF readTimeUnsafe
    <3> QED BY <3>2, <3>3 DEF b
  <2> QED BY <1>3, <2>1, <2>4, <2>5 DEF IntRead
<1> QED BY <1>3, <1>4

-----------------------------------------------------------------------------
(* Strings, binaries, arrays and maps *)

\* Which function String calls.
ShownBy(p) ==
    LET t == Get(Cell(p)).typ IN
    CASE t = "Bool" -> ReadBool(p)
      [] t = "Int" -> ReadInt(p)
      [] t = "Uint" -> ReadUint(p)
      [] t = "Float" -> ReadFloat(p)
      [] t = "Str" -> ReadString(p)
      [] t = "Bin" -> ReadBinary(p)
      [] t \in {"Array", "Map"} -> Ok(R(t, <<IntLength(p)>>), p)
      [] t = "Ext" -> IF Get(Cell(p)).own THEN ReadTimestamp(p) ELSE Fails("panic")
      [] OTHER -> Ok(R("Nil", <<>>), p)

LEMMA ShownIs ==
    ASSUME NEW p \in Nat, NEW n \in Int, NEW o \in Nat, Offset(p) = o, o <= p + n
    PROVE  Shown(p, n) = ShownBy(p)
<1>1. ~(p + n < Offset(p)) OBVIOUS
<1> QED BY <1>1 DEF Shown, ShownBy

LEMMA SizedTyp ==
    ASSUME NEW p \in Nat, NEW t, NEW n \in Nat, NEW m \in Nat, SizedAt(p, t, n, m), lim \in Nat, Bytewise
    PROVE  /\ Get(Cell(p)).typ = t
           /\ HasToken(p) <=> p + 1 + m <= lim
           /\ Offset(p) = p + 1 + m
<1>1. Get(Cell(p)).typ = t BY TokenType DEF SizedAt
<1>2. (HasToken(p) => Token(p).next <= lim) /\ (Token(p).next <= lim => HasToken(p)) BY TokenType
<1>3. Offset(p) = p + 1 + m BY DEF SizedAt, Offset
<1> QED BY <1>1, <1>2, <1>3 DEF Offset

LEMMA FlatBytes ==
    ASSUME NEW p \in Nat, NEW t, NEW n \in Nat, NEW m \in Nat, SizedAt(p, t, n, m), lim \in Nat, Bytewise, ~Nested(t)
    PROVE  BytesLen(p) = 1 + m + IntLength(p)
<1>1. Get(Cell(p)).typ = t /\ Offset(p) = p + 1 + m BY SizedTyp, Zenon
<1>2. IntLength(p) \in Int BY DEF SizedAt
<1> QED BY <1>1, <1>2 DEF BytesLen, Nested

LEMMA NestedBytes ==
    ASSUME NEW p \in Nat, NEW t, NEW n \in Nat, NEW m \in Nat, SizedAt(p, t, n, m), lim \in Nat, Bytewise, Nested(t)
    PROVE  BytesLen(p) = 1 + m
<1>1. Get(Cell(p)).typ = t /\ Offset(p) = p + 1 + m BY SizedTyp, Zenon
<1> QED BY <1>1 DEF BytesLen, Nested

LEMMA StrRead ==
    ASSUME NEW p \in Nat, NEW n \in Nat, NEW m \in Nat, SizedAt(p, "Str", n, m), lim \in Nat, Bytewise,
           NEW r, r = IF p + 1 + m + n <= lim THEN Ok(R("Str", <<p + 1 + m, n>>), p + 1 + m + n) ELSE Fails("error")
    PROVE  ReadString(p) = r /\ ReadBinary(p) = r
<1>1. Get(Cell(p)).typ = "Str" /\ (HasToken(p) <=> p + 1 + m <= lim) /\ Offset(p) = p + 1 + m BY SizedTyp, Zenon
<1>2. UintLength(p) = n BY DEF SizedAt
<1>3. HasToken(p) => Slice(p, "Str", UintLength(p)) = r
  <2>1. Has(Offset(p), n) <=> p + 1 + m + n <= lim BY <1>1 DEF Has
  <2> QED BY <1>1, <1>2, <2>1 DEF Slice
<1>4. ~HasToken(p) => r = Fails("error") BY <1>1
<1>5. ReadString(p) = r BY <1>1, <1>3, <1>4 DEF ReadString
<1>6. ReadBinary(p) = r BY <1>1, <1>3, <1>4 DEF ReadBinary
<1> QED BY <1>5, <1>6

\* A negative length.
LEMMA BinRead ==
    ASSUME NEW p \in Nat, NEW n \in Nat, NEW m \in Nat, SizedAt(p, "Bin", n, m), lim \in Nat, Bytewise,
           NEW r, r = IF HighBit(n, m)
                         THEN IF p + 1 + m <= lim THEN Fails("panic") ELSE Fails("error")
                         ELSE IF p + 1 + m + n <= lim THEN Ok(R("Bin", <<p + 1 + m, n>>), p + 1 + m + n)
                                                      ELSE Fails("error")
    PROVE  ReadString(p) = r /\ ReadBinary(p) = r
<1>1. Get(Cell(p)).typ = "Bin" /\ (HasToken(p) <=> p + 1 + m <= lim) /\ Offset(p) = p + 1 + m BY SizedTyp, Zenon
<1>2. IntLength(p) \in Int /\ (HighBit(n, m) => IntLength(p) < 0) /\ (~HighBit(n, m) => IntLength(p) = n) BY DEF SizedAt
<1>3. HasToken(p) => Slice(p, "Bin", IntLength(p)) = r
  <2>1. CASE HighBit(n, m)
    <3>1. HasToken(p) => Has(Offset(p), IntLength(p)) BY <1>1, <1>2, <2>1 DEF Has
    <3> QED BY <1>1, <1>2, <2>1, <3>1 DEF Slice
  <2>2. CASE ~HighBit(n, m)
    <3>1. Has(Offset(p), n) <=> p + 1 + m + n <= lim BY <1>1 DEF Has
    <3> QED BY <1>1, <1>2, <2>2, <3>1 DEF Slice
  <2> QED BY <2>1, <2>2
<1>4. ~HasToken(p) => r = Fails("error") BY <1>1
<1>6. ReadBinary(p) = r BY <1>1, <1>3, <1>4 DEF ReadBinary
<1>5. ReadString(p) = r BY <1>1, <1>3, <1>4, <1>6 DEF ReadString
<1> QED BY <1>5, <1>6

LEMMA HeaderRead ==
    ASSUME NEW p \in Nat, NEW t, NEW n \in Nat, NEW m \in Nat, SizedAt(p, t, n, m), lim \in Nat, Bytewise
    PROVE  ReadHeader(p, t) = IF p + 1 + m <= lim THEN Ok(R(t, <<IntLength(p)>>), p + 1 + m) ELSE Fails("error")
<1>1. Get(Cell(p)).typ = t /\ (HasToken(p) <=> p + 1 + m <= lim) /\ Offset(p) = p + 1 + m BY SizedTyp, Zenon
<1> QED BY <1>1 DEF ReadHeader

LEMMA FloatRead ==
    ASSUME NEW p \in Nat, NEW n \in Nat, OwnIs(Cell(p), "Float", n), lim \in Nat
    PROVE  ReadFloat(p) = IF p + 1 + n <= lim THEN Ok(R("Float", <<p + 1, n>>), p + 1 + n) ELSE Fails("error")
<1>1. Get(Cell(p)).typ = "Float" /\ Get(Cell(p)).length = n BY DEF OwnIs
<1>2. (Has(p, 1) /\ Has(p + 1, n)) <=> p + 1 + n <= lim BY DEF Has
<1> QED BY <1>1, <1>2 DEF ReadFloat

-----------------------------------------------------------------------------
(* Values: what the readers make of the value v at p, with its body at b *)

\* Meaning, of a value and where its body is.
MeaningOf(v, b) ==
    LET n == IF v.k = "str" /\ v.how = "AppendStringMax255" /\ v.n > 255 THEN 255 ELSE v.n
    IN CASE v.k = "nil" -> R("Nil", <<>>)
         [] v.k = "bool" -> R("Bool", <<IF v.b THEN 1 ELSE 0>>)
         [] v.k = "float" -> R("Float", <<b, IF v.single THEN 4 ELSE 8>>)
         [] v.k \in {"int", "uint"} -> R(IF v.k = "int" /\ Negative(v.w) THEN "Int" ELSE "Uint", v.w)
         [] v.k = "array" -> R("Array", <<v.n>>)
         [] v.k = "map" -> R("Map", <<v.n>>)
         [] v.k = "str" -> R("Str", <<b, n>>)
         [] v.k = "bin" -> R("Bin", <<b, n>>)
         [] v.k = "time" -> T(v.s, v.ns)

IsNumber(v, val) == v.k = "time" /\ Format(v) = "TsInt" /\ val.v = v.s

\* Its token.
TokenGood(v, p, end) ==
    /\ Cell(p) # Unknown
    /\ Token(p).next + Token(p).length = IF Ext8(v) THEN end - 1 ELSE end
    /\ Nested(Token(p).typ) <=> v.k \in {"array", "map"}
    /\ (IF Token(p).typ = "Map" THEN 2 * Token(p).items ELSE Token(p).items) = Children(v)

\* What the iterator returns, unless it is a time with an ext8 header.
AnyGood(v, p, b) ==
    ~Ext8(v) => /\ Any(Token(p), v.k = "time") = MeaningOf(v, b) <=> Kept(v)
                /\ \/ Any(Token(p), FALSE) = MeaningOf(v, b) <=> Kept(v)
                   \/ IsNumber(v, Any(Token(p), FALSE))

\* What a Read function returns.
ResultGood(v, r, x, end) ==
    /\ r.out = "ok" => ((r.val = x <=> Kept(v) /\ ~SignedLength(v)) /\ r.next = end /\ end <= lim)
    /\ r.out = "panic" => \/ v.k = "bin" /\ SignedLength(v)
                          \/ Ext8(v) /\ lim = end - 1
    /\ r.out # "ok" /\ r.out # "panic" => lim < end

FunctionsGood(v, p, b, end) == \A r \in ReadAs(v, p) : ResultGood(v, r, MeaningOf(v, b), end)

\* What Value shows.
ValueGood(v, p, b, end) ==
    Whole(v) =>
       /\ BytesLen(p) = end - p
       /\ end <= lim => LET r == Shown(p, end - p) IN
                        /\ r.out = "ok"
                        /\ (r.val = MeaningOf(v, b) <=> Kept(v)) \/ IsNumber(v, r.val)

\* The number of items, as Value's loops take it.
CountGood(v, p) ==
    v.k \in {"array", "map"} =>
       /\ IntLength(p) \in Int /\ Get(Cell(p)).typ = IF v.k = "map" THEN "Map" ELSE "Array"
       /\ IF SignedLength(v) THEN IntLength(p) < 0 ELSE IntLength(p) = v.n

Good(v, p, b, end) ==
    /\ TokenGood(v, p, end) /\ AnyGood(v, p, b)
    /\ FunctionsGood(v, p, b, end) /\ ValueGood(v, p, b, end) /\ CountGood(v, p)

LEMMA NoCount ==
    ASSUME NEW v, v.k # "array", v.k # "map", NEW p
    PROVE  CountGood(v, p)
BY DEF CountGood

LEMMA NoTime ==
    ASSUME NEW v, v.k # "time"
    PROVE  ~Ext8(v) /\ Kept(v)
BY Zenon DEF Ext8, Kept

LEMMA AnyOf ==
    ASSUME NEW v, v.k # "time", NEW p, NEW b, Any(Token(p), FALSE) = MeaningOf(v, b)
    PROVE  AnyGood(v, p, b)
<1>1. (v.k = "time") = FALSE OBVIOUS
<1>2. Any(Token(p), v.k = "time") = Any(Token(p), FALSE) BY <1>1, Zenon
<1>3. ~Ext8(v) /\ Kept(v) BY NoTime, Zenon
<1> QED BY <1>2, <1>3, Zenon DEF AnyGood

\* A result, or an error if the value is cut short.
Result(x, end) == IF end <= lim THEN Ok(x, end) ELSE Fails("error")

Faithful(v, b, y) == (y = MeaningOf(v, b)) <=> (Kept(v) /\ ~SignedLength(v))
ShowsRight(v, b, y) == (y = MeaningOf(v, b) <=> Kept(v)) \/ IsNumber(v, y)
ShowsAs(v, p, end, y, q) == end <= lim /\ Whole(v) => ShownBy(p) = Ok(y, q)

LEMMA ResultOf ==
    ASSUME NEW v, NEW x, NEW y, NEW end \in Nat, lim \in Nat, NEW r, r = Result(y, end),
           y = x <=> Kept(v) /\ ~SignedLength(v)
    PROVE  ResultGood(v, r, x, end)
<1>1. CASE end <= lim
  <2>1. r = Ok(y, end) BY <1>1 DEF Result
  <2>2. r.out = "ok" /\ r.val = y /\ r.next = end BY <2>1 DEF Ok
  <2> QED BY <1>1, <2>2 DEF ResultGood
<1>2. CASE ~(end <= lim)
  <2>1. r = Fails("error") BY <1>2 DEF Result
  <2>2. r.out = "error" BY <2>1 DEF Fails
  <2> QED BY <1>2, <2>2 DEF ResultGood
<1> QED BY <1>1, <1>2

LEMMA ValueOf ==
    ASSUME NEW v, NEW p \in Nat, NEW b, NEW end \in Nat, lim \in Nat, Whole(v) => BytesLen(p) = end - p,
           Offset(p) \in Nat, Offset(p) <= end, NEW y, NEW q, ShowsAs(v, p, end, y, q), ShowsRight(v, b, y)
    PROVE  ValueGood(v, p, b, end)
<1>1. ASSUME end <= lim, Whole(v)
      PROVE  LET r == Shown(p, end - p) IN
             r.out = "ok" /\ ((r.val = MeaningOf(v, b) <=> Kept(v)) \/ IsNumber(v, r.val))
  <2>1. PICK n \in Int : n = end - p OBVIOUS
  <2>2. Offset(p) <= p + n BY <2>1
  <2>3. Shown(p, n) = ShownBy(p) BY <2>2, ShownIs
  <2>4. Shown(p, end - p) = Ok(y, q) BY <1>1, <2>1, <2>3 DEF ShowsAs
  <2> DEFINE r == Shown(p, end - p)
  <2> HIDE DEF r
  <2>5. r = Ok(y, q) BY <2>4 DEF r
  <2>6. r.out = "ok" /\ r.val = y BY <2>5 DEF Ok
  <2>7. r.out = "ok" /\ ((r.val = MeaningOf(v, b) <=> Kept(v)) \/ IsNumber(v, r.val)) BY <2>6 DEF ShowsRight
  <2> QED BY <2>7 DEF r
<1> QED BY <1>1 DEF ValueGood

\* The token of a value without items.
LEMMA FlatToken ==
    ASSUME NEW v, v.k # "array", v.k # "map", ~Ext8(v), NEW p \in Nat, NEW t, ~Nested(t),
           NEW n \in Nat, NEW m \in Nat, SizedAt(p, t, n, m), NEW end, end = p + 1 + m + n
    PROVE  TokenGood(v, p, end)
<1>1. Token(p).next = p + 1 + m /\ Token(p).length = n /\ Token(p).items = 0 /\ Token(p).typ = t /\ Cell(p) # Unknown
    BY DEF SizedAt
<1>2. t # "Map" BY DEF Nested
<1>3. Children(v) = 0 BY DEF Children
<1>4. ~Nested(Token(p).typ) /\ ~(v.k \in {"array", "map"}) BY <1>1
<1>5. Token(p).next + Token(p).length = end BY <1>1
<1>6. (IF Token(p).typ = "Map" THEN 2 * Token(p).items ELSE Token(p).items) = Children(v) BY <1>1, <1>2, <1>3
<1> QED BY <1>1, <1>4, <1>5, <1>6, Zenon DEF TokenGood

LEMMA StrGood ==
    ASSUME NEW v, v.k = "str", NEW p \in Nat, NEW n \in Nat, NEW m \in Nat, SizedAt(p, "Str", n, m),
           lim \in Nat, Bytewise, NEW b \in Nat, b = p + 1 + m, NEW end \in Nat, end = b + n,
           MeaningOf(v, b) = R("Str", <<b, n>>), Whole(v) => ~HighBit(n, m)
    PROVE  Good(v, p, b, end)
<1> DEFINE x == R("Str", <<b, n>>)
<1>1. v.k # "time" /\ v.k # "array" /\ v.k # "map" /\ ~SignedLength(v) BY DEF SignedLength
<1>2. ~Ext8(v) /\ Kept(v) BY <1>1, NoTime, Zenon
<1>3. TokenGood(v, p, end)
  <2>1. ~Nested("Str") /\ end = p + 1 + m + n BY DEF Nested
  <2> QED BY <1>1, <1>2, <2>1, FlatToken, Zenon
<1>4. AnyGood(v, p, b)
  <2>1. Token(p).typ = "Str" /\ Token(p).next = b /\ Token(p).length = n BY DEF SizedAt, Nested
  <2>2. Any(Token(p), FALSE) = x BY <2>1 DEF Any
  <2>3. Any(Token(p), FALSE) = MeaningOf(v, b) BY <2>2, Zenon
  <2> QED BY <1>1, <2>3, AnyOf, Zenon
<1>5. ReadString(p) = Result(x, end) /\ ReadBinary(p) = Result(x, end)
  <2>1. PICK r : r = IF p + 1 + m + n <= lim THEN Ok(R("Str", <<p + 1 + m, n>>), p + 1 + m + n) ELSE Fails("error") OBVIOUS
  <2>2. ReadString(p) = r /\ ReadBinary(p) = r BY <2>1, StrRead
  <2>3. r = Result(x, end) BY <2>1 DEF Result
  <2> QED BY <2>2, <2>3
<1> HIDE DEF x
<1>6. FunctionsGood(v, p, b, end)
  <2>1. ReadAs(v, p) = {ReadString(p), ReadBinary(p)} BY DEF ReadAs
  <2>2. MeaningOf(v, b) = x BY DEF x
  <2>3. ASSUME NEW r \in ReadAs(v, p) PROVE ResultGood(v, r, MeaningOf(v, b), end)
    <3>1. r = Result(x, end) BY <1>5, <2>1, <2>3
    <3> QED BY <1>1, <1>2, <2>2, <3>1, ResultOf
  <2> QED BY <2>3 DEF FunctionsGood
<1>7. ValueGood(v, p, b, end)
  <2>0. ~Nested("Str") BY DEF Nested
  <2>a. Get(Cell(p)).typ = "Str" /\ Offset(p) = p + 1 + m BY SizedTyp, Zenon
  <2>b. BytesLen(p) = 1 + m + IntLength(p) BY <2>0, FlatBytes, Zenon
  <2>1. Get(Cell(p)).typ = "Str" /\ Offset(p) = p + 1 + m /\ BytesLen(p) = 1 + m + IntLength(p) BY <2>a, <2>b, Zenon
  <2>2. ~HighBit(n, m) => IntLength(p) = n BY DEF SizedAt
  <2>3. Whole(v) => BytesLen(p) = end - p BY <2>1, <2>2 DEF Nested
  <2>4. ShownBy(p) = ReadString(p) BY <2>1 DEF ShownBy
  <2>5. ShowsAs(v, p, end, x, end) BY <1>5, <2>4 DEF Result, ShowsAs
  <2>6. Offset(p) \in Nat /\ Offset(p) <= end BY <2>1
  <2>7. ShowsRight(v, b, x) BY <1>2 DEF x, ShowsRight
  <2> QED BY <2>3, <2>5, <2>6, <2>7, ValueOf
<1>8. CountGood(v, p) BY <1>1, NoCount, Zenon
<1> QED BY <1>3, <1>4, <1>6, <1>7, <1>8, Zenon DEF Good

LEMMA BinGood ==
    ASSUME NEW v, v.k = "bin", NEW p \in Nat, NEW n \in Nat, NEW m \in Nat, SizedAt(p, "Bin", n, m),
           lim \in Nat, Bytewise, NEW b \in Nat, b = p + 1 + m, NEW end \in Nat, end = b + n,
           MeaningOf(v, b) = R("Bin", <<b, n>>), SignedLength(v) <=> HighBit(n, m)
    PROVE  Good(v, p, b, end)
<1> DEFINE x == R("Bin", <<b, n>>)
<1>1. v.k # "time" /\ v.k # "array" /\ v.k # "map" OBVIOUS
<1>2. ~Ext8(v) /\ Kept(v) BY <1>1, NoTime, Zenon
<1>3. TokenGood(v, p, end)
  <2>1. ~Nested("Bin") /\ end = p + 1 + m + n BY DEF Nested
  <2> QED BY <1>1, <1>2, <2>1, FlatToken, Zenon
<1>4. AnyGood(v, p, b)
  <2>1. Token(p).typ = "Bin" /\ Token(p).next = b /\ Token(p).length = n BY DEF SizedAt, Nested
  <2>2. Any(Token(p), FALSE) = x BY <2>1 DEF Any
  <2>3. Any(Token(p), FALSE) = MeaningOf(v, b) BY <2>2, Zenon
  <2> QED BY <1>1, <2>3, AnyOf, Zenon
<1> DEFINE r == IF HighBit(n, m) THEN IF b <= lim THEN Fails("panic") ELSE Fails("error") ELSE Result(x, end)
<1>5. ReadString(p) = r /\ ReadBinary(p) = r
  <2>1. PICK y : y = IF HighBit(n, m)
                         THEN IF p + 1 + m <= lim THEN Fails("panic") ELSE Fails("error")
                         ELSE IF p + 1 + m + n <= lim THEN Ok(R("Bin", <<p + 1 + m, n>>), p + 1 + m + n)
                                                      ELSE Fails("error")
      OBVIOUS
  <2>2. ReadString(p) = y /\ ReadBinary(p) = y BY <2>1, BinRead, SMTT(30)
  <2>3. y = r BY <2>1 DEF Result
  <2> QED BY <2>2, <2>3
<1> HIDE DEF x
<1>6. FunctionsGood(v, p, b, end)
  <2>1. ReadAs(v, p) = {ReadString(p), ReadBinary(p)} BY DEF ReadAs
  <2>2. MeaningOf(v, b) = x BY DEF x
  <2>3. ResultGood(v, r, x, end)
    <3>1. CASE HighBit(n, m)
      <4>1. r.out = (IF b <= lim THEN "panic" ELSE "error") BY <3>1 DEF Fails
      <4>2. b <= end OBVIOUS
      <4> HIDE DEF r
      <4> QED BY <3>1, <4>1, <4>2 DEF ResultGood
    <3>2. CASE ~HighBit(n, m)
      <4>1. r = Result(x, end) BY <3>2
      <4>2. x = x <=> Kept(v) /\ ~SignedLength(v) BY <1>2, <3>2
      <4> HIDE DEF r
      <4> QED BY <4>1, <4>2, ResultOf
    <3> QED BY <3>1, <3>2
  <2> HIDE DEF r
  <2>4. \A y \in ReadAs(v, p) : ResultGood(v, y, x, end) BY <1>5, <2>1, <2>3
  <2> QED BY <2>2, <2>4 DEF FunctionsGood
<1>7. ValueGood(v, p, b, end)
  <2>0. ~Nested("Bin") BY DEF Nested
  <2>a. Get(Cell(p)).typ = "Bin" /\ Offset(p) = p + 1 + m BY SizedTyp, Zenon
  <2>b. BytesLen(p) = 1 + m + IntLength(p) BY <2>0, FlatBytes, Zenon
  <2>1. Get(Cell(p)).typ = "Bin" /\ Offset(p) = p + 1 + m /\ BytesLen(p) = 1 + m + IntLength(p) BY <2>a, <2>b, Zenon
  <2>2. ~HighBit(n, m) => IntLength(p) = n BY DEF SizedAt
  <2>3. Whole(v) => ~SignedLength(v) BY Zenon DEF Whole
  <2>4. Whole(v) => BytesLen(p) = end - p BY <2>1, <2>2, <2>3 DEF Nested
  <2>5. ShownBy(p) = ReadBinary(p) BY <2>1 DEF ShownBy
  <2>6. ShowsAs(v, p, end, x, end) BY <1>5, <2>3, <2>5 DEF Result, ShowsAs
  <2>7. Offset(p) \in Nat /\ Offset(p) <= end BY <2>1
  <2>8. ShowsRight(v, b, x) BY <1>2 DEF x, ShowsRight
  <2> HIDE DEF r
  <2> QED BY <2>4, <2>6, <2>7, <2>8, ValueOf
<1>8. CountGood(v, p) BY <1>1, NoCount, Zenon
<1> QED BY <1>3, <1>4, <1>6, <1>7, <1>8, Zenon DEF Good

Kind(t) == IF t = "Map" THEN "map" ELSE "array"

LEMMA HeaderGood ==
    ASSUME NEW v, NEW t, Nested(t), v.k = Kind(t), NEW p \in Nat, NEW n \in Nat, v.n = n, NEW m \in Nat,
           SizedAt(p, t, n, m), lim \in Nat, Bytewise, NEW b \in Nat, b = p + 1 + m,
           MeaningOf(v, b) = R(t, <<n>>), SignedLength(v) <=> HighBit(n, m)
    PROVE  Good(v, p, b, b)
<1>0. (t = "Array" /\ v.k = "array") \/ (t = "Map" /\ v.k = "map") BY DEF Nested, Kind
<1>1. v.k # "time" BY <1>0
<1>2. ~Ext8(v) /\ Kept(v) BY <1>1, NoTime, Zenon
<1>a. /\ Token(p).next = b /\ Token(p).length = 0 /\ Token(p).items = n /\ Token(p).typ = t /\ Cell(p) # Unknown
      /\ IntLength(p) \in Int /\ (HighBit(n, m) => IntLength(p) < 0) /\ (~HighBit(n, m) => IntLength(p) = n)
    BY DEF SizedAt
<1>3. TokenGood(v, p, b)
  <2>1. Children(v) = IF t = "Map" THEN 2 * n ELSE n BY <1>0 DEF Children
  <2>2. Nested(Token(p).typ) /\ v.k \in {"array", "map"} BY <1>0, <1>a
  <2>3. Token(p).next + Token(p).length = b BY <1>a
  <2>4. (IF Token(p).typ = "Map" THEN 2 * Token(p).items ELSE Token(p).items) = Children(v) BY <1>a, <2>1
  <2> QED BY <1>2, <1>a, <2>2, <2>3, <2>4, Zenon DEF TokenGood
<1>4. AnyGood(v, p, b)
  <2>1. Any(Token(p), FALSE) = R(t, <<n>>) BY <1>a, <1>0 DEF Any
  <2>2. Any(Token(p), FALSE) = MeaningOf(v, b) BY <2>1, Zenon
  <2> QED BY <1>1, <2>2, AnyOf, Zenon
<1>5. ReadHeader(p, t) = Result(R(t, <<IntLength(p)>>), b) BY HeaderRead DEF Result
<1>6. R(t, <<IntLength(p)>>) = MeaningOf(v, b) <=> ~SignedLength(v)
  <2>1. CASE HighBit(n, m)
    <3>1. IntLength(p) # n BY <1>a, <2>1
    <3>2. <<IntLength(p)>> # <<n>> BY <3>1
    <3>3. R(t, <<IntLength(p)>>) # R(t, <<n>>) BY <3>2 DEF R
    <3> QED BY <2>1, <3>3
  <2>2. CASE ~HighBit(n, m) BY <1>a, <2>2
  <2> QED BY <2>1, <2>2
<1>7. FunctionsGood(v, p, b, b)
  <2>1. ReadAs(v, p) = {ReadHeader(p, t)} BY <1>0 DEF ReadAs, ReadArrayHeader, ReadMapHeader
  <2>2. ResultGood(v, ReadHeader(p, t), MeaningOf(v, b), b) BY <1>2, <1>5, <1>6, ResultOf
  <2> QED BY <2>1, <2>2 DEF FunctionsGood
<1>8. ValueGood(v, p, b, b)
  <2>a. Get(Cell(p)).typ = t /\ Offset(p) = p + 1 + m BY SizedTyp, Zenon
  <2>b. BytesLen(p) = 1 + m BY NestedBytes, Zenon
  <2>1. Get(Cell(p)).typ = t /\ Offset(p) = p + 1 + m /\ BytesLen(p) = 1 + m BY <2>a, <2>b, Zenon
  <2>3. Whole(v) => ~SignedLength(v) BY Zenon DEF Whole
  <2>4. BytesLen(p) = b - p BY <2>1
  <2>5. ShownBy(p) = Ok(R(t, <<IntLength(p)>>), p) BY <1>0, <2>1 DEF ShownBy
  <2>6. Whole(v) => R(t, <<IntLength(p)>>) = MeaningOf(v, b) BY <1>6, <2>3
  <2>7. Offset(p) \in Nat /\ Offset(p) <= b BY <2>1
  <2>8. CASE Whole(v)
    <3>1. PICK y : y = R(t, <<IntLength(p)>>) OBVIOUS
    <3>2. ShowsRight(v, b, y) /\ ShowsAs(v, p, b, y, p) BY <1>2, <2>5, <2>6, <2>8, <3>1 DEF ShowsRight, ShowsAs
    <3> QED BY <2>4, <2>7, <3>2, ValueOf, Zenon
  <2>9. CASE ~Whole(v) BY <2>9 DEF ValueGood
  <2> QED BY <2>8, <2>9
<1>9. CountGood(v, p)
  <2>1. Get(Cell(p)).typ = t BY SizedTyp, Zenon
  <2> QED BY <1>0, <1>a, <2>1 DEF CountGood
<1> QED BY <1>3, <1>4, <1>7, <1>8, <1>9, Zenon DEF Good

\* The parts of Good for a value that is read by one function and has no items.
LEMMA FlatGood ==
    ASSUME NEW v, v.k # "array", v.k # "map", ~Ext8(v), NEW p \in Nat, NEW t, ~Nested(t),
           NEW n \in Nat, SizedAt(p, t, n, 0), lim \in Nat, Bytewise,
           NEW b, NEW end \in Nat, Adds(end, p + 1, n), NEW y, ReadAs(v, p) = {Result(y, end)},
           Faithful(v, b, y), AnyGood(v, p, b), NEW z, NEW q, ShowsAs(v, p, end, z, q), ShowsRight(v, b, z)
    PROVE  Good(v, p, b, end)
<1>0. 0 \in Nat /\ end = p + 1 + 0 + n BY DEF Adds
<1>1. TokenGood(v, p, end) BY <1>0, FlatToken, Zenon
<1>2. FunctionsGood(v, p, b, end)
  <2>1. ResultGood(v, Result(y, end), MeaningOf(v, b), end) BY ResultOf DEF Faithful
  <2> QED BY <2>1 DEF FunctionsGood
<1>3. ValueGood(v, p, b, end)
  <2>a. Get(Cell(p)).typ = t /\ Offset(p) = p + 1 + 0 BY <1>0, SizedTyp, Zenon
  <2>b. BytesLen(p) = 1 + 0 + IntLength(p) BY <1>0, FlatBytes, Zenon
  <2>c. ~HighBit(n, 0) BY DEF HighBit
  <2>d. IntLength(p) = n BY <2>c DEF SizedAt
  <2>1. BytesLen(p) = end - p BY <1>0, <2>b, <2>d
  <2>2. Offset(p) \in Nat /\ Offset(p) <= end BY <1>0, <2>a
  <2> QED BY <2>1, <2>2, ValueOf
<1>4. CountGood(v, p) BY NoCount, Zenon
<1> QED BY <1>1, <1>2, <1>3, <1>4, Zenon DEF Good

NilCode(p) == Cell(p) = 192
BoolCode(p, x) == Cell(p) = IF x THEN 195 ELSE 194

LEMMA NilGood ==
    ASSUME NEW v, v.k = "nil", NEW p \in Nat, NilCode(p), lim \in Nat, Bytewise, NEW b, NEW end \in Nat, end = p + 1
    PROVE  Good(v, p, b, end)
<1> DEFINE x == R("Nil", <<>>)
<1>1. OwnIs(Cell(p), "Nil", 0) /\ Cell(p) # Unknown BY GetOwn DEF Unknown, NilCode
<1>2. SizedAt(p, "Nil", 0, 0) BY <1>1, OwnIsRead
<1>3. MeaningOf(v, b) = x BY DEF MeaningOf
<1>4. Any(Token(p), FALSE) = x
  <2>1. Token(p).typ = "Nil" BY <1>2 DEF SizedAt
  <2> QED BY <2>1 DEF Any
<1>5. ReadNil(p) = Result(x, end)
  <2>1. Has(p, 1) <=> end <= lim BY DEF Has
  <2> QED BY <2>1 DEF ReadNil, Result, NilCode
<1>6. ReadAs(v, p) = {ReadNil(p)} BY DEF ReadAs
<1>7. ShownBy(p) = Ok(x, p) BY <1>1 DEF ShownBy, OwnIs
<1>8. v.k # "time" /\ v.k # "array" /\ v.k # "map" /\ ~SignedLength(v) /\ ~Nested("Nil") BY DEF SignedLength, Nested
<1>9. ~Ext8(v) /\ Kept(v) BY <1>8, NoTime
<1> HIDE DEF x
<1>10. Any(Token(p), FALSE) = MeaningOf(v, b) BY <1>3, <1>4, Zenon
<1>11. AnyGood(v, p, b) BY <1>8, <1>10, AnyOf, Zenon
<1>12. x = MeaningOf(v, b) BY <1>3
<1>13. PICK n \in Nat : n = 0 /\ Adds(end, p + 1, n) BY DEF Adds
<1>14. SizedAt(p, "Nil", n, 0) BY <1>2, <1>13
<1>15. Faithful(v, b, x) BY <1>8, <1>9, <1>12 DEF Faithful
<1>16. ShowsRight(v, b, x) BY <1>9, <1>12 DEF ShowsRight
<1>17. ShowsAs(v, p, end, x, p) BY <1>7 DEF ShowsAs
<1>18. ReadAs(v, p) = {Result(x, end)} BY <1>5, <1>6, Zenon
<1> QED BY <1>18, <1>8, <1>9, <1>11, <1>13, <1>14, <1>15, <1>16, <1>17, FlatGood, Zenon

LEMMA BoolGood ==
    ASSUME NEW v, v.k = "bool", v.b \in BOOLEAN, NEW p \in Nat, BoolCode(p, v.b),
           lim \in Nat, Bytewise, NEW b, NEW end \in Nat, end = p + 1
    PROVE  Good(v, p, b, end)
<1> DEFINE x == R("Bool", <<IF v.b THEN 1 ELSE 0>>)
<1>0. (v.b /\ Cell(p) = 195) \/ (~v.b /\ Cell(p) = 194) BY DEF BoolCode
<1>1. OwnIs(Cell(p), "Bool", 0) /\ Cell(p) # Unknown BY <1>0, GetOwn DEF Unknown
<1>2. SizedAt(p, "Bool", 0, 0) BY <1>1, OwnIsRead
<1>3. MeaningOf(v, b) = x BY DEF MeaningOf
<1>4. Any(Token(p), FALSE) = x
  <2>1. Token(p).typ = "Bool" /\ Token(p).byt = Cell(p) BY <1>2 DEF SizedAt
  <2>2. Any(Token(p), FALSE) = R("Bool", <<IF Cell(p) = 195 THEN 1 ELSE 0>>) BY <2>1 DEF Any
  <2>3. (IF Cell(p) = 195 THEN 1 ELSE 0) = (IF v.b THEN 1 ELSE 0) BY <1>0
  <2> QED BY <2>2, <2>3, Zenon
<1>5. ReadBool(p) = Result(x, end)
  <2>1. Has(p, 1) <=> end <= lim BY DEF Has
  <2>2. Cell(p) \in {194, 195} /\ Cell(p) - 194 = IF v.b THEN 1 ELSE 0 BY <1>0
  <2>3. ReadBool(p) = IF Has(p, 1) THEN Ok(R("Bool", <<Cell(p) - 194>>), p + 1) ELSE Fails("error") BY <2>2 DEF ReadBool
  <2> QED BY <2>1, <2>2, <2>3 DEF Result
<1>6. ReadAs(v, p) = {ReadBool(p)} BY DEF ReadAs
<1>7. ShownBy(p) = ReadBool(p) BY <1>1 DEF ShownBy, OwnIs
<1>8. v.k # "time" /\ v.k # "array" /\ v.k # "map" /\ ~SignedLength(v) /\ ~Nested("Bool") BY DEF SignedLength, Nested
<1>9. ~Ext8(v) /\ Kept(v) BY <1>8, NoTime
<1> HIDE DEF x
<1>10. Any(Token(p), FALSE) = MeaningOf(v, b) BY <1>3, <1>4, Zenon
<1>11. AnyGood(v, p, b) BY <1>8, <1>10, AnyOf, Zenon
<1>12. x = MeaningOf(v, b) BY <1>3
<1>13. PICK n \in Nat : n = 0 /\ Adds(end, p + 1, n) BY DEF Adds
<1>14. SizedAt(p, "Bool", n, 0) BY <1>2, <1>13
<1>15. Faithful(v, b, x) BY <1>8, <1>9, <1>12 DEF Faithful
<1>16. ShowsRight(v, b, x) BY <1>9, <1>12 DEF ShowsRight
<1>17. ShowsAs(v, p, end, x, end) BY <1>5, <1>7 DEF Result, ShowsAs
<1>18. ReadAs(v, p) = {Result(x, end)} BY <1>5, <1>6, Zenon
<1> QED BY <1>18, <1>8, <1>9, <1>11, <1>13, <1>14, <1>15, <1>16, <1>17, FlatGood, Zenon

LEMMA FloatGood ==
    ASSUME NEW v, v.k = "float", NEW n \in Nat, n = IF v.single THEN 4 ELSE 8, NEW p \in Nat,
           OwnIs(Cell(p), "Float", n), Cell(p) # Unknown,
           lim \in Nat, Bytewise, NEW b, b = p + 1, NEW end \in Nat, end = p + 1 + n
    PROVE  Good(v, p, b, end)
<1> DEFINE x == R("Float", <<b, n>>)
<1>2. SizedAt(p, "Float", n, 0) BY OwnIsRead
<1>3. MeaningOf(v, b) = x BY DEF MeaningOf
<1>4. Any(Token(p), FALSE) = x
  <2>1. Token(p).typ = "Float" /\ Token(p).next = p + 1 + 0 /\ Token(p).length = n BY <1>2 DEF SizedAt, Nested
  <2>2. Token(p).next = b BY <2>1
  <2> QED BY <2>1, <2>2 DEF Any
<1>5. ReadFloat(p) = Result(x, end) BY FloatRead DEF Result
<1>6. ReadAs(v, p) = {ReadFloat(p)} BY DEF ReadAs
<1>7. ShownBy(p) = ReadFloat(p) BY DEF ShownBy, OwnIs
<1>8. v.k # "time" /\ v.k # "array" /\ v.k # "map" /\ ~SignedLength(v) /\ ~Nested("Float") BY DEF SignedLength, Nested
<1>9. ~Ext8(v) /\ Kept(v) BY <1>8, NoTime
<1> HIDE DEF x
<1>10. Any(Token(p), FALSE) = MeaningOf(v, b) BY <1>3, <1>4, Zenon
<1>11. AnyGood(v, p, b) BY <1>8, <1>10, AnyOf, Zenon
<1>12. x = MeaningOf(v, b) BY <1>3
<1>15. Faithful(v, b, x) BY <1>8, <1>9, <1>12 DEF Faithful
<1>16. ShowsRight(v, b, x) BY <1>9, <1>12 DEF ShowsRight
<1>17. ShowsAs(v, p, end, x, end) BY <1>5, <1>7 DEF Result, ShowsAs
<1>13. Adds(end, p + 1, n) BY DEF Adds
<1>18. ReadAs(v, p) = {Result(x, end)} BY <1>5, <1>6, Zenon
<1> QED BY <1>2, <1>18, <1>13, <1>8, <1>9, <1>11, <1>15, <1>16, <1>17, FlatGood, Zenon

LEMMA IntAny ==
    ASSUME NEW p \in Nat, NEW w, NEW t, NEW m, IntAt(p, w, t, m)
    PROVE  /\ Any(Token(p), FALSE) = R(t, w)
           /\ Any(Token(p), TRUE) = readTimeUnsafe(Cell(p), Raw(p + 1, m))
<1>1. /\ Token(p).typ = t /\ Token(p).byt = Cell(p) /\ Token(p).next = p + 1 + 0 /\ t \in {"Int", "Uint"}
      /\ Token(p).length = m
    BY DEF IntAt, SizedAt, Nested
<1>2. Token(p).next = p + 1 BY <1>1
<1>3. readIntUnsafe(Cell(p), Raw(p + 1, m)) = w BY DEF IntAt
<1>4. Any(Token(p), FALSE) = R(t, readIntUnsafe(Cell(p), Raw(p + 1, m))) BY <1>1, <1>2 DEF Any
<1>5. Any(Token(p), FALSE) = R(t, w) BY <1>3, <1>4, Zenon
<1>6. Any(Token(p), TRUE) = readTimeUnsafe(Cell(p), Raw(p + 1, m)) BY <1>1, <1>2 DEF Any
<1> QED BY <1>5, <1>6, Zenon

LEMMA IntShown ==
    ASSUME NEW v, NEW p \in Nat, NEW w, NEW t, NEW m, IntAt(p, w, t, m), NEW end, end = p + 1 + m, lim \in Nat, Bytewise
    PROVE  ShowsAs(v, p, end, R(t, w), end)
<1>1. Get(Cell(p)).typ = t /\ t \in {"Int", "Uint"} BY DEF IntAt, OwnIs
<1>2. CASE t = "Int"
  <2>1. IntRead(p, w, t, m) BY <1>2, IntReads
  <2>2. ShownBy(p) = ReadInt(p) BY <1>1, <1>2 DEF ShownBy
  <2> QED BY <2>1, <2>2 DEF IntRead, ShowsAs
<1>3. CASE t = "Uint"
  <2>1. ReadUint(p) = IF p + 1 + m <= lim THEN Ok(R(t, w), p + 1 + m) ELSE Fails("error") BY <1>3, IntReads
  <2>2. ShownBy(p) = ReadUint(p) BY <1>1, <1>3 DEF ShownBy
  <2> QED BY <2>1, <2>2 DEF ShowsAs
<1> QED BY <1>1, <1>2, <1>3

IntKind(v) == v.k \in {"int", "uint"}
IntTypOf(v) == IF v.k = "int" /\ Negative(v.w) THEN "Int" ELSE "Uint"

LEMMA IntGood ==
    ASSUME NEW v, IntKind(v), NEW w, v.w = w, NEW t, t = IntTypOf(v),
           NEW p \in Nat, NEW m, IntAt(p, w, t, m), lim \in Nat, Bytewise, NEW b, NEW end \in Nat, end = p + 1 + m
    PROVE  Good(v, p, b, end)
<1> DEFINE x == R(t, w)
<1>1. SizedAt(p, t, m, 0) /\ m \in Nat /\ t \in {"Int", "Uint"} BY DEF IntAt
<1>2. Adds(end, p + 1, m) BY DEF Adds
<1>3. MeaningOf(v, b) = x BY DEF MeaningOf, IntTypOf, IntKind
<1>4. Any(Token(p), FALSE) = x BY IntAny, Zenon
<1>5. ReadAs(v, p) = {Result(x, end)}
  <2>1. CASE v.k = "uint"
    <3>1. ReadUint(p) = IF p + 1 + m <= lim THEN Ok(R(t, w), p + 1 + m) ELSE Fails("error") BY <2>1, IntReads DEF IntTypOf
    <3>2. ReadUint(p) = Result(x, end) BY <3>1 DEF Result
    <3>3. ReadAs(v, p) = {ReadUint(p)} BY <2>1 DEF ReadAs
    <3> QED BY <3>2, <3>3, Zenon
  <2>2. CASE v.k = "int"
    <3>1. t = "Uint" => ~Negative(w) BY <2>2 DEF IntTypOf
    <3>2. IntRead(p, w, t, m) BY <3>1, IntReads
    <3>3. ReadInt(p) = Result(x, end) BY <3>2 DEF IntRead, Result
    <3>4. ReadAs(v, p) = {ReadInt(p)} BY <2>2 DEF ReadAs
    <3> QED BY <3>3, <3>4, Zenon
  <2> QED BY <2>1, <2>2 DEF IntKind
<1>6. ShowsAs(v, p, end, x, end) BY IntShown
<1>8. v.k # "time" /\ v.k # "array" /\ v.k # "map" /\ ~SignedLength(v) /\ ~Nested(t) BY <1>1 DEF SignedLength, Nested, IntKind
<1>9. ~Ext8(v) /\ Kept(v) BY <1>8, NoTime
<1> HIDE DEF x
<1>10. Any(Token(p), FALSE) = MeaningOf(v, b) BY <1>3, <1>4, Zenon
<1>11. AnyGood(v, p, b) BY <1>8, <1>10, AnyOf, Zenon
<1>12. x = MeaningOf(v, b) BY <1>3
<1>15. Faithful(v, b, x) BY <1>8, <1>9, <1>12 DEF Faithful
<1>16. ShowsRight(v, b, x) BY <1>9, <1>12 DEF ShowsRight
<1> QED BY <1>1, <1>2, <1>5, <1>6, <1>8, <1>9, <1>11, <1>15, <1>16, FlatGood, Zenon

\* A time that is an integer.
LEMMA TimeIntGood ==
    ASSUME NEW v, v.k = "time", Format(v) = "TsInt", v.s \in Word64, v.ns \in Nat, NEW p \in Nat, NEW m,
           IntAt(p, v.s, IntTyp(v.s), m), lim \in Nat, Bytewise, NEW b, NEW end \in Nat, end = p + 1 + m
    PROVE  Good(v, p, b, end)
<1> DEFINE t == IntTyp(v.s)
           x == T(v.s, 0)
           z == R(t, v.s)
<1>0. PICK w \in Word64 : w = v.s OBVIOUS
<1>1. SizedAt(p, t, m, 0) /\ m \in Nat /\ t \in {"Int", "Uint"} BY DEF IntAt
<1>2. Adds(end, p + 1, m) BY DEF Adds
<1>3. MeaningOf(v, b) = T(v.s, v.ns) BY DEF MeaningOf
<1>4. Kept(v) <=> v.ns = 0 BY DEF Kept
<1>5. x = MeaningOf(v, b) <=> Kept(v)
  <2>1. PICK n \in Nat : n = v.ns OBVIOUS
  <2>2. 0 \in Nat OBVIOUS
  <2>3. T(w, 0) = T(w, n) <=> w = w /\ 0 = n BY <2>2, TimesDiffer
  <2> QED BY <1>0, <1>3, <1>4, <2>1, <2>3
<1>6. t = "Uint" => ~Negative(v.s) BY DEF IntTyp
<1>7. IntRead(p, v.s, t, m) BY <1>6, IntReads
<1>8. ReadAs(v, p) = {Result(x, end)}
  <2>1. ReadTimestamp(p) = Result(x, end) BY <1>7 DEF IntRead, Result
  <2>2. ReadAs(v, p) = {ReadTimestamp(p)} BY DEF ReadAs
  <2> QED BY <2>1, <2>2, Zenon
<1>9. ShowsAs(v, p, end, z, end) BY IntShown
<1>10. v.k # "array" /\ v.k # "map" /\ ~SignedLength(v) /\ ~Nested(t) BY <1>1 DEF SignedLength, Nested
<1>11. ~Ext8(v) BY DEF Ext8
<1>12. z.v = v.s BY DEF R
<1>13. IsNumber(v, z) BY <1>12 DEF IsNumber
<1>14. Any(Token(p), FALSE) = z /\ Any(Token(p), TRUE) = x
  <2>1. readTimeUnsafe(Cell(p), Raw(p + 1, m)) = x BY <1>7 DEF IntRead
  <2>2. Any(Token(p), FALSE) = z /\ Any(Token(p), TRUE) = readTimeUnsafe(Cell(p), Raw(p + 1, m)) BY IntAny, Zenon
  <2> QED BY <2>1, <2>2, Zenon
<1> HIDE DEF x, z, t
<1>15. AnyGood(v, p, b)
  <2>1. (v.k = "time") = TRUE BY Zenon
  <2>2. Any(Token(p), v.k = "time") = x BY <1>14, <2>1, Zenon
  <2>3. IsNumber(v, Any(Token(p), FALSE)) BY <1>13, <1>14, Zenon
  <2> QED BY <1>5, <1>11, <2>2, <2>3, Zenon DEF AnyGood
<1>16. Faithful(v, b, x) BY <1>5, <1>10 DEF Faithful
<1>17. ShowsRight(v, b, z) BY <1>13 DEF ShowsRight
<1>18. SizedAt(p, t, m, 0) /\ m \in Nat BY <1>1 DEF t
<1> QED BY <1>2, <1>8, <1>9, <1>10, <1>11, <1>15, <1>16, <1>17, <1>18, FlatGood, Zenon

\* A time in an ext value.
LEMMA TimeGood ==
    ASSUME NEW v, v.k = "time", ~Ext8(v), NEW p \in Nat, NEW x, NEW n \in Nat, TimeAt(p, x, n),
           x = T(v.s, v.ns) <=> Kept(v), lim \in Nat, Bytewise, NEW b, NEW end \in Nat, end = p + 1 + n
    PROVE  Good(v, p, b, end)
<1>1. SizedAt(p, "Ext", n, 0) /\ OwnIs(Cell(p), "Ext", n) /\ readTimeUnsafe(Cell(p), Raw(p + 1, n)) = x BY DEF TimeAt
<1>2. Adds(end, p + 1, n) BY DEF Adds
<1>3. MeaningOf(v, b) = T(v.s, v.ns) BY DEF MeaningOf
<1>4. x = MeaningOf(v, b) <=> Kept(v) BY <1>3
<1>5. ReadTimestamp(p) = Result(x, end) BY DEF TimeAt, Result
<1>6. ReadAs(v, p) = {Result(x, end)}
  <2>1. ReadAs(v, p) = {ReadTimestamp(p)} BY DEF ReadAs
  <2> QED BY <1>5, <2>1, Zenon
<1>7. ShowsAs(v, p, end, x, end)
  <2>1. ShownBy(p) = ReadTimestamp(p) BY <1>1 DEF ShownBy, OwnIs
  <2> QED BY <1>5, <2>1 DEF ShowsAs, Result
<1>8. v.k # "array" /\ v.k # "map" /\ ~SignedLength(v) /\ ~Nested("Ext") BY DEF SignedLength, Nested
<1>9. Any(Token(p), FALSE) = x /\ Any(Token(p), TRUE) = x
  <2>1. Token(p).typ = "Ext" /\ Token(p).byt = Cell(p) /\ Token(p).next = p + 1 + 0 /\ Token(p).length = n
      BY <1>1, <1>8 DEF SizedAt
  <2>2. Token(p).next = p + 1 BY <2>1
  <2>3. Any(Token(p), FALSE) = readTimeUnsafe(Cell(p), Raw(p + 1, n)) BY <2>1, <2>2 DEF Any
  <2>4. Any(Token(p), TRUE) = readTimeUnsafe(Cell(p), Raw(p + 1, n)) BY <2>1, <2>2 DEF Any
  <2> QED BY <1>1, <2>3, <2>4, Zenon
<1>10. AnyGood(v, p, b)
  <2>1. (v.k = "time") = TRUE BY Zenon
  <2>2. Any(Token(p), v.k = "time") = x BY <1>9, <2>1, Zenon
  <2> QED BY <1>4, <1>9, <2>2, Zenon DEF AnyGood
<1>11. Faithful(v, b, x) BY <1>4, <1>8 DEF Faithful
<1>12. ShowsRight(v, b, x) BY <1>4 DEF ShowsRight
<1> QED BY <1>1, <1>2, <1>6, <1>7, <1>8, <1>10, <1>11, <1>12, FlatGood, Zenon

\* A time with an ext8 header.
LEMMA Ext8Good ==
    ASSUME NEW v, v.k = "time", Ext8(v), NEW p \in Nat, NEW x, NEW n \in Nat, Ext8At(p, x, n),
           x = T(v.s, v.ns) <=> Kept(v), lim \in Nat, Bytewise, NEW b, NEW end \in Nat, end = p + 3 + n
    PROVE  Good(v, p, b, end)
<1>1. SizedAt(p, "Ext", n, 1) BY DEF Ext8At
<1>2. MeaningOf(v, b) = T(v.s, v.ns) BY DEF MeaningOf
<1>3. ~Nested("Ext") /\ ~SignedLength(v) BY DEF Nested, SignedLength
<1>4. /\ Token(p).typ = "Ext" /\ Token(p).byt = Cell(p) /\ Token(p).next = p + 1 + 1 /\ Token(p).length = n
      /\ Token(p).items = 0 /\ Cell(p) # Unknown
    BY <1>1, <1>3 DEF SizedAt
<1>5. TokenGood(v, p, end)
  <2>1. Token(p).next + Token(p).length = end - 1 BY <1>4
  <2>2. ~Nested(Token(p).typ) /\ ~(v.k \in {"array", "map"}) BY <1>3, <1>4
  <2>3. (IF Token(p).typ = "Map" THEN 2 * Token(p).items ELSE Token(p).items) = Children(v) BY <1>4 DEF Children
  <2> QED BY <1>4, <2>1, <2>2, <2>3, Zenon DEF TokenGood
<1>6. AnyGood(v, p, b) BY Zenon DEF AnyGood
<1>7. FunctionsGood(v, p, b, end)
  <2>1. ReadAs(v, p) = {ReadTimestamp(p)} BY DEF ReadAs
  <2>2. ResultGood(v, ReadTimestamp(p), MeaningOf(v, b), end)
    <3> DEFINE r == ReadTimestamp(p)
    <3>0. r = IF end <= lim THEN Ok(x, end) ELSE IF p + 2 + n <= lim THEN Fails("panic") ELSE Fails("error") BY DEF Ext8At
    <3> HIDE DEF r
    <3>1. CASE end <= lim
      <4>1. r.out = "ok" /\ r.val = x /\ r.next = end BY <3>0, <3>1 DEF Ok
      <4> QED BY <1>2, <1>3, <3>1, <4>1 DEF ResultGood, r
    <3>2. CASE ~(end <= lim) /\ p + 2 + n <= lim
      <4>1. r.out = "panic" BY <3>0, <3>2 DEF Fails
      <4>2. lim = end - 1 BY <3>2
      <4> QED BY <4>1, <4>2 DEF ResultGood, r
    <3>3. CASE ~(end <= lim) /\ ~(p + 2 + n <= lim)
      <4>1. r.out = "error" BY <3>0, <3>3 DEF Fails
      <4> QED BY <3>3, <4>1 DEF ResultGood, r
    <3> QED BY <3>1, <3>2, <3>3
  <2> QED BY <2>1, <2>2 DEF FunctionsGood
<1>8. ValueGood(v, p, b, end) BY Zenon DEF ValueGood, Whole
<1>9. v.k # "array" /\ v.k # "map" OBVIOUS
<1>10. CountGood(v, p) BY <1>9, NoCount, Zenon
<1> QED BY <1>5, <1>6, <1>7, <1>8, <1>10, Zenon DEF Good

-----------------------------------------------------------------------------
(* The encoders *)

\* The bytes of h, with a body of n bytes behind them, are read as v.
Encodes(v, h, n) ==
    /\ h \in Seq(Byte) /\ Len(h) >= 1 /\ n \in Nat
    /\ lim \in Nat /\ Bytewise =>
          \A p \in Nat : Lies(h, p) => Good(v, p, p + Len(h), p + Len(h) + n)

LEMMA StrEncodes ==
    ASSUME NEW v, v.k = "str", NEW h, NEW n \in Nat, n < Huge, NEW m, SizedForm(h, "Str", n, m),
           \A b : MeaningOf(v, b) = R("Str", <<b, n>>), Whole(v) => ~HighBit(n, m)
    PROVE  Encodes(v, h, n)
<1>1. /\ h \in Seq(Byte) /\ Len(h) = m + 1 /\ m \in {0, 1, 2, 4}
      /\ \A p \in Nat : Lies(h, p) => SizedAt(p, "Str", n, m)
    BY SizedForms
<1>2. m \in Nat BY <1>1
<1>3. ASSUME lim \in Nat, Bytewise, NEW p \in Nat, Lies(h, p) PROVE Good(v, p, p + Len(h), p + Len(h) + n)
  <2>1. SizedAt(p, "Str", n, m) BY <1>1, <1>3
  <2>2. PICK b \in Nat, end \in Nat : b = p + 1 + m /\ end = b + n /\ b = p + Len(h) /\ end = p + Len(h) + n BY <1>1, <1>2
  <2>4. MeaningOf(v, b) = R("Str", <<b, n>>) BY Zenon
  <2>3. Good(v, p, b, end) BY <1>2, <1>3, <2>1, <2>2, <2>4, StrGood, Zenon
  <2> QED BY <2>2, <2>3
<1> QED BY <1>1, <1>2, <1>3 DEF Encodes

LEMMA BinEncodes ==
    ASSUME NEW v, v.k = "bin", NEW h, NEW n \in Nat, n < Huge, NEW m, SizedForm(h, "Bin", n, m),
           \A b : MeaningOf(v, b) = R("Bin", <<b, n>>), SignedLength(v) <=> HighBit(n, m)
    PROVE  Encodes(v, h, n)
<1>1. /\ h \in Seq(Byte) /\ Len(h) = m + 1 /\ m \in {0, 1, 2, 4}
      /\ \A p \in Nat : Lies(h, p) => SizedAt(p, "Bin", n, m)
    BY SizedForms
<1>2. m \in Nat BY <1>1
<1>3. ASSUME lim \in Nat, Bytewise, NEW p \in Nat, Lies(h, p) PROVE Good(v, p, p + Len(h), p + Len(h) + n)
  <2>1. SizedAt(p, "Bin", n, m) BY <1>1, <1>3
  <2>2. PICK b \in Nat, end \in Nat : b = p + 1 + m /\ end = b + n /\ b = p + Len(h) /\ end = p + Len(h) + n BY <1>1, <1>2
  <2>4. MeaningOf(v, b) = R("Bin", <<b, n>>) BY Zenon
  <2>3. Good(v, p, b, end) BY <1>2, <1>3, <2>1, <2>2, <2>4, BinGood, Zenon
  <2> QED BY <2>2, <2>3
<1> QED BY <1>1, <1>2, <1>3 DEF Encodes

LEMMA HeaderEncodes ==
    ASSUME NEW v, NEW t, Nested(t), v.k = Kind(t), NEW h, NEW n \in Nat, v.n = n, n < Huge, NEW m, SizedForm(h, t, n, m),
           \A b : MeaningOf(v, b) = R(t, <<n>>), SignedLength(v) <=> HighBit(n, m)
    PROVE  Encodes(v, h, 0)
<1>1. /\ h \in Seq(Byte) /\ Len(h) = m + 1 /\ m \in {0, 1, 2, 4}
      /\ \A p \in Nat : Lies(h, p) => SizedAt(p, t, n, m)
    BY SizedForms
<1>2. m \in Nat BY <1>1
<1>3. ASSUME lim \in Nat, Bytewise, NEW p \in Nat, Lies(h, p) PROVE Good(v, p, p + Len(h), p + Len(h) + 0)
  <2>1. SizedAt(p, t, n, m) BY <1>1, <1>3
  <2>2. PICK b \in Nat : b = p + 1 + m /\ b = p + Len(h) /\ b = p + Len(h) + 0 BY <1>1, <1>2
  <2>3. Good(v, p, b, b) BY <1>2, <1>3, <2>1, <2>2, HeaderGood
  <2> QED BY <2>2, <2>3
<1> QED BY <1>1, <1>2, <1>3 DEF Encodes

LEMMA IntEncodes ==
    ASSUME NEW v, IntKind(v), NEW w \in Word64, v.w = w,
           NEW t, t = IntTypOf(v), NEW h, NEW m, IntForm(h, w, t, m)
    PROVE  Encodes(v, h, 0)
<1>1. /\ h \in Seq(Byte) /\ Len(h) = m + 1 /\ m \in {0, 1, 2, 4, 8}
      /\ \A p \in Nat : Lies(h, p) => IntAt(p, w, t, m)
    BY IntForms
<1>2. m \in Nat BY <1>1
<1>3. ASSUME lim \in Nat, Bytewise, NEW p \in Nat, Lies(h, p) PROVE Good(v, p, p + Len(h), p + Len(h) + 0)
  <2>1. IntAt(p, w, t, m) BY <1>1, <1>3
  <2>2. PICK b \in Nat : b = p + 1 + m /\ b = p + Len(h) /\ b = p + Len(h) + 0 BY <1>1, <1>2
  <2>3. Good(v, p, b, b) BY <1>2, <1>3, <2>1, <2>2, IntGood, Zenon
  <2> QED BY <2>2, <2>3
<1> QED BY <1>1, <1>2, <1>3 DEF Encodes

LEMMA TimeIntEncodes ==
    ASSUME NEW v, v.k = "time", Format(v) = "TsInt", v.s \in Word64, v.ns \in Nat,
           NEW h, NEW m, IntForm(h, v.s, IntTyp(v.s), m)
    PROVE  Encodes(v, h, 0)
<1>1. /\ h \in Seq(Byte) /\ Len(h) = m + 1 /\ m \in {0, 1, 2, 4, 8}
      /\ \A p \in Nat : Lies(h, p) => IntAt(p, v.s, IntTyp(v.s), m)
    BY IntForms, SMTT(30)
<1>2. m \in Nat BY <1>1
<1>3. ASSUME lim \in Nat, Bytewise, NEW p \in Nat, Lies(h, p) PROVE Good(v, p, p + Len(h), p + Len(h) + 0)
  <2>1. IntAt(p, v.s, IntTyp(v.s), m) BY <1>1, <1>3
  <2>2. PICK b \in Nat : b = p + 1 + m /\ b = p + Len(h) /\ b = p + Len(h) + 0 BY <1>1, <1>2
  <2>3. Good(v, p, b, b) BY <1>2, <1>3, <2>1, <2>2, TimeIntGood, Zenon
  <2> QED BY <2>2, <2>3
<1> QED BY <1>1, <1>2, <1>3 DEF Encodes

LEMMA NilEncodes ==
    ASSUME NEW v, v.k = "nil"
    PROVE  Encodes(v, <<192>>, 0)
<1>1. PICK c \in Byte : c = 192 BY DEF Byte, Below
<1>2. PICK h : h = <<c>> BY Zenon
<1>3. h \in Seq(Byte) /\ Len(h) = 1 /\ \A p \in Nat : Lies(h, p) => Cell(p) = c BY <1>2, OneByte
<1>4. ASSUME lim \in Nat, Bytewise, NEW p \in Nat, Lies(h, p) PROVE Good(v, p, p + Len(h), p + Len(h) + 0)
  <2>1. NilCode(p) BY <1>1, <1>3, <1>4 DEF NilCode
  <2>2. PICK b \in Nat : b = p + 1 /\ b = p + Len(h) /\ b = p + Len(h) + 0 BY <1>3
  <2>3. Good(v, p, b, b) BY <1>4, <2>1, <2>2, NilGood
  <2> QED BY <2>2, <2>3
<1>5. Encodes(v, h, 0) BY <1>3, <1>4 DEF Encodes
<1> QED BY <1>1, <1>2, <1>5

LEMMA BoolEncodes ==
    ASSUME NEW v, v.k = "bool", v.b \in BOOLEAN
    PROVE  Encodes(v, <<IF v.b THEN 195 ELSE 194>>, 0)
<1>1. PICK c \in Byte : c = IF v.b THEN 195 ELSE 194 BY DEF Byte, Below
<1>2. PICK h : h = <<c>> BY Zenon
<1>3. h \in Seq(Byte) /\ Len(h) = 1 /\ \A p \in Nat : Lies(h, p) => Cell(p) = c BY <1>2, OneByte
<1>4. ASSUME lim \in Nat, Bytewise, NEW p \in Nat, Lies(h, p) PROVE Good(v, p, p + Len(h), p + Len(h) + 0)
  <2>1. BoolCode(p, v.b) BY <1>1, <1>3, <1>4 DEF BoolCode
  <2>2. PICK b \in Nat : b = p + 1 /\ b = p + Len(h) /\ b = p + Len(h) + 0 BY <1>3
  <2>3. Good(v, p, b, b) BY <1>4, <2>1, <2>2, BoolGood
  <2> QED BY <2>2, <2>3
<1>5. Encodes(v, h, 0) BY <1>3, <1>4 DEF Encodes
<1> QED BY <1>1, <1>2, <1>5

LEMMA FloatEncodes ==
    ASSUME NEW v, v.k = "float", v.single \in BOOLEAN, NEW n \in Nat, n = IF v.single THEN 4 ELSE 8
    PROVE  Encodes(v, <<IF v.single THEN 202 ELSE 203>>, n)
<1>1. PICK c \in Byte : c = (IF v.single THEN 202 ELSE 203) /\ c # Unknown BY DEF Byte, Below, Unknown
<1>2. PICK h : h = <<c>> BY Zenon
<1>3. h \in Seq(Byte) /\ Len(h) = 1 /\ \A p \in Nat : Lies(h, p) => Cell(p) = c BY <1>2, OneByte
<1>a. OwnIs(c, "Float", n) BY <1>1, GetOwn
<1>4. ASSUME lim \in Nat, Bytewise, NEW p \in Nat, Lies(h, p) PROVE Good(v, p, p + Len(h), p + Len(h) + n)
  <2>0. Cell(p) = c BY <1>3, <1>4
  <2>1. OwnIs(Cell(p), "Float", n) /\ Cell(p) # Unknown BY <1>1, <1>a, <2>0
  <2>2. PICK b \in Nat, end \in Nat : b = p + 1 /\ b = p + Len(h) /\ end = p + 1 + n /\ end = p + Len(h) + n BY <1>3
  <2>3. Good(v, p, b, end) BY <1>4, <2>1, <2>2, FloatGood
  <2> QED BY <2>2, <2>3
<1>5. Encodes(v, h, n) BY <1>3, <1>4 DEF Encodes
<1> QED BY <1>1, <1>2, <1>5

TimesAt(h, x, n) == lim \in Nat /\ Bytewise => \A p \in Nat : Lies(h, p) => TimeAt(p, x, n)
Ext8sAt(h, x, n) == lim \in Nat /\ Bytewise => \A p \in Nat : Lies(h, p) => Ext8At(p, x, n)

LEMMA TimeEncodes ==
    ASSUME NEW v, v.k = "time", ~Ext8(v), NEW h \in Seq(Byte), NEW n \in Nat, Len(h) = n + 1,
           NEW x, x = T(v.s, v.ns) <=> Kept(v), TimesAt(h, x, n)
    PROVE  Encodes(v, h, 0)
<1>3. ASSUME lim \in Nat, Bytewise, NEW p \in Nat, Lies(h, p) PROVE Good(v, p, p + Len(h), p + Len(h) + 0)
  <2>1. TimeAt(p, x, n) BY <1>3, Zenon DEF TimesAt
  <2>2. PICK b \in Nat : b = p + 1 + n /\ b = p + Len(h) /\ b = p + Len(h) + 0 OBVIOUS
  <2>3. Good(v, p, b, b) BY <1>3, <2>1, <2>2, TimeGood
  <2> QED BY <2>2, <2>3
<1> QED BY <1>3 DEF Encodes

LEMMA Ext8Encodes ==
    ASSUME NEW v, v.k = "time", Ext8(v), NEW h \in Seq(Byte), NEW n \in Nat, Len(h) = n + 3,
           NEW x, x = T(v.s, v.ns) <=> Kept(v), Ext8sAt(h, x, n)
    PROVE  Encodes(v, h, 0)
<1>3. ASSUME lim \in Nat, Bytewise, NEW p \in Nat, Lies(h, p) PROVE Good(v, p, p + Len(h), p + Len(h) + 0)
  <2>1. Ext8At(p, x, n) BY <1>3, Zenon DEF Ext8sAt
  <2>2. PICK b \in Nat : b = p + 3 + n /\ b = p + Len(h) /\ b = p + Len(h) + 0 OBVIOUS
  <2>3. Good(v, p, b, b) BY <1>3, <2>1, <2>2, Ext8Good
  <2> QED BY <2>2, <2>3
<1> QED BY <1>3 DEF Encodes

\* The parts of a time.
LEMMA Low4 ==
    ASSUME NEW s \in Word64
    PROVE  /\ Low(s, 4) \in [1..4 -> Byte]
           /\ ZeroExtend(Low(s, 4)) \in Word64 /\ SignExtend(Low(s, 4)) \in Word64
<1>1. 4 \in 1..8 OBVIOUS
<1>2. Low(s, 4) \in [1..4 -> Byte] /\ Len(Low(s, 4)) = 4 BY <1>1, LowTails, Zenon DEF Tails
<1>3. PICK x \in [1..4 -> Byte] : x = Low(s, 4) /\ Len(x) = 4 BY <1>2
<1>4. Len(x) \in 1..8 /\ (\A i \in 1..Len(x) : x[i] \in Byte) BY <1>3
<1>5. 0 \in Byte /\ 255 \in Byte BY DEF Byte, Below
<1>6. Fill(x, 0) \in [1..8 -> Byte] BY <1>4, <1>5, FillType
<1>7. Fill(x, 255) \in [1..8 -> Byte] BY <1>4, <1>5, FillType
<1>8. ZeroExtend(x) \in Word64 BY <1>6 DEF ZeroExtend, Word64
<1>9. SignExtend(x) \in Word64 BY <1>6, <1>7 DEF SignExtend, Word64
<1> QED BY <1>2, <1>3, <1>8, <1>9

LEMMA NanoBytes ==
    ASSUME NEW n \in Nano
    PROVE  Bytes(n, 4) \in [1..4 -> Byte] /\ Num(Bytes(n, 4)) = n
<1>1. n \in Nat /\ n < Huge BY Nanoseconds
<1>2. Bytes(n, 4) \in [1..4 -> Byte]
  <2>1. Fits(n, 4) BY DEF Fits
  <2> QED BY <1>1, <2>1, BytesType
<1>3. Num(Bytes(n, 4)) = n
  <2>1. PICK b : b = Bytes(n, 4) BY Zenon
  <2>2. b[1] = D3(n) /\ b[2] = D2(n) /\ b[3] = D1(n) /\ b[4] = D0(n) BY <1>1, <2>1, Bytes4, Zenon
  <2>3. Num(b) = n BY <1>1, <2>2, NumIs
  <2> QED BY <2>1, <2>3
<1> QED BY <1>2, <1>3

PairJoin(a, b, x) == <<a, b>> \o x

LEMMA PairParts ==
    ASSUME NEW a \in Nat, a < 256, NEW b \in Nat, b < 256, NEW m \in Nat, NEW x \in [1..m -> Byte]
    PROVE  HeadOf(PairJoin(a, b, x), m + 2) /\ LiesPrefixed(PairJoin(a, b, x), a, b, x, m)
<1>1. a \in Byte /\ b \in Byte BY DEF Byte, Below
<1>2. PairJoin(a, b, x) = Join(Pair(a, b), x) BY Zenon DEF Join, Pair, PairJoin
<1>3. PICK l \in Nat : Adds(l, 2, m) /\ l = m + 2 BY DEF Adds
<1>4. HeadOf(Join(Pair(a, b), x), l) /\ LiesPrefixed(Join(Pair(a, b), x), a, b, x, m) BY <1>1, <1>3, PairHead, Zenon
<1> QED BY <1>2, <1>3, <1>4, Zenon

\* Where the two bytes, and behind them those of x, are a time that is read as y.
PrefixedReads(a, b, x, m, y) ==
    lim \in Nat /\ Bytewise => \A p \in Nat : Prefixed(p, a, b, x, m) => TimeAt(p, y, m + 1)
KeptAs(v, y) == (y = T(v.s, v.ns)) <=> Kept(v)

LEMMA PairEncodes ==
    ASSUME NEW v, v.k = "time", ~Ext8(v), NEW a \in Byte, NEW b \in Byte,
           NEW m \in Nat, NEW x \in [1..m -> Byte],
           NEW y, KeptAs(v, y), PrefixedReads(a, b, x, m, y)
    PROVE  Encodes(v, PairJoin(a, b, x), 0)
<1>1. PICK h : h = PairJoin(a, b, x) BY Zenon
<1>2. HeadOf(h, m + 2) /\ LiesPrefixed(h, a, b, x, m)
  <2>1. a \in Nat /\ a < 256 /\ b \in Nat /\ b < 256 BY DEF Byte, Below
  <2> QED BY <1>1, <2>1, PairParts, Zenon
<1>3. PICK n \in Nat : n = m + 1 OBVIOUS
<1>4. h \in Seq(Byte) /\ Len(h) = n + 1 BY <1>2, <1>3 DEF HeadOf
<1>5. TimesAt(h, y, n) BY <1>2, <1>3, Zenon DEF TimesAt, LiesPrefixed, PrefixedReads
<1>6. Encodes(v, h, 0) BY <1>3, <1>4, <1>5, TimeEncodes, Zenon DEF KeptAs
<1> QED BY <1>1, <1>6

LEMMA Ts32Encodes ==
    ASSUME NEW v, v.k = "time", Format(v) = "Ts32", v.s \in Word64, v.ns \in Nano
    PROVE  Encodes(v, PairJoin(214, 255, Low(v.s, 4)), 0)
<1>1. PICK s \in Word64, x \in [1..4 -> Byte] : s = v.s /\ x = Low(s, 4) /\ ZeroExtend(x) \in Word64 BY Low4
<1>2. PICK y : y = T(ZeroExtend(x), 0) BY Zenon
<1>5. KeptAs(v, y)
  <2>1. v.ns \in Nat BY Nanoseconds
  <2>2. T(ZeroExtend(x), 0) = T(v.s, v.ns) <=> ZeroExtend(x) = v.s /\ 0 = v.ns BY <1>1, <2>1, TimesDiffer
  <2>3. Kept(v) <=> v.ns = 0 /\ v.s = ZeroExtend(Low(v.s, 4)) BY DEF Kept
  <2> QED BY <1>1, <1>2, <2>2, <2>3 DEF KeptAs
<1>6. ~Ext8(v) BY DEF Ext8
<1>7. PICK a \in Byte, b \in Byte, m \in Nat : a = 214 /\ b = 255 /\ m = 4 BY DEF Byte, Below
<1>8. PrefixedReads(a, b, x, m, y)
  <2>1. ASSUME lim \in Nat, Bytewise, NEW p \in Nat, Prefixed(p, 214, 255, x, 4) PROVE TimeAt(p, y, 5)
      BY <1>2, <2>1, Ts32At
  <2>2. m + 1 = 5 BY <1>7
  <2> QED BY <1>7, <2>1, <2>2 DEF PrefixedReads
<1>9. x \in [1..m -> Byte] BY <1>7
<1>10. Encodes(v, PairJoin(a, b, x), 0) BY <1>5, <1>6, <1>8, <1>9, PairEncodes, Zenon
<1> QED BY <1>1, <1>7, <1>10

LEMMA Ts64Encodes ==
    ASSUME NEW v, v.k = "time", Format(v) = "Ts64", v.s \in Word64, v.ns \in Nano
    PROVE  Encodes(v, PairJoin(215, 255, Pack64(v.s, v.ns)), 0)
<1>1. PICK s \in Word64, n \in Nano, x \in [1..8 -> Byte] : s = v.s /\ n = v.ns /\ x = Pack64(s, n) /\ PackedIs(x, s, n)
    BY PackType
<1>2. PICK y : y = T(Unpack64s(x), Unpack64ns(x)) BY Zenon
<1>5. KeptAs(v, y)
  <2>1. n \in Nat BY Nanoseconds
  <2>2. Unpack64s(x) = Low34(s) /\ Unpack64ns(x) = n BY <1>1, Unpacked
  <2>3. Low34(s) \in Word64 /\ (Low34(s) = s <=> AtMost(s, ZeroExtend(<<3, 255, 255, 255, 255>>))) BY Low34Keeps
  <2>4. T(Low34(s), n) = T(s, n) <=> Low34(s) = s /\ n = n BY <2>1, <2>3, TimesDiffer
  <2>5. Kept(v) <=> AtMost(v.s, ZeroExtend(<<3, 255, 255, 255, 255>>)) BY DEF Kept
  <2>6. y = T(Low34(s), n) BY <1>2, <2>2
  <2> QED BY <1>1, <2>3, <2>4, <2>5, <2>6 DEF KeptAs
<1>6. ~Ext8(v) BY DEF Ext8
<1>7. PICK a \in Byte, b \in Byte, m \in Nat : a = 215 /\ b = 255 /\ m = 8 BY DEF Byte, Below
<1>8. PrefixedReads(a, b, x, m, y)
  <2>1. ASSUME lim \in Nat, Bytewise, NEW p \in Nat, Prefixed(p, 215, 255, x, 8) PROVE TimeAt(p, y, 9)
      BY <1>2, <2>1, Ts64At
  <2>2. m + 1 = 9 BY <1>7
  <2> QED BY <1>7, <2>1, <2>2 DEF PrefixedReads
<1>9. x \in [1..m -> Byte] BY <1>7
<1>10. Encodes(v, PairJoin(a, b, x), 0) BY <1>5, <1>6, <1>8, <1>9, PairEncodes, Zenon
<1> QED BY <1>1, <1>7, <1>10

\* The two parts of an EventTime.
LEMMA EventTimeIs ==
    ASSUME NEW v, v.s \in Word64, v.ns \in Nano, NEW x, x = Low(v.s, 4), NEW z, z = Bytes(v.ns, 4)
    PROVE  /\ x \in [1..4 -> Byte] /\ z \in [1..4 -> Byte]
           /\ EventTime(v) = Join(x, z) /\ Join(x, z) \in [1..8 -> Byte]
           /\ T(SignExtend(x), Num(z)) = T(v.s, v.ns) <=> v.s = SignExtend(Low(v.s, 4))
<1>1. x \in [1..4 -> Byte] /\ SignExtend(x) \in Word64 BY Low4
<1>2. z \in [1..4 -> Byte] /\ Num(z) = v.ns BY NanoBytes
<1>3. EventTime(v) = Join(x, z) BY DEF EventTime, Join
<1>4. Join(x, z) \in [1..8 -> Byte]
  <2>1. PICK n \in Nat, l \in Nat : n = 4 /\ l = n + n /\ l = 8 OBVIOUS
  <2>2. x \in [1..n -> Byte] /\ z \in [1..n -> Byte] BY <1>1, <1>2, <2>1
  <2>3. Adds(l, n, n) BY <2>1 DEF Adds
  <2>4. Join(x, z) \in [1..l -> Byte] BY <2>2, <2>3, JoinType, Zenon
  <2> QED BY <2>1, <2>4
<1>5. T(SignExtend(x), v.ns) = T(v.s, v.ns) <=> SignExtend(x) = v.s /\ v.ns = v.ns
  <2>1. v.ns \in Nat BY Nanoseconds
  <2> QED BY <1>1, <2>1, TimesDiffer
<1>6. T(SignExtend(x), Num(z)) = T(SignExtend(x), v.ns) BY <1>2
<1> QED BY <1>1, <1>2, <1>3, <1>4, <1>5, <1>6

LEMMA FluentdEncodes ==
    ASSUME NEW v, v.k = "time", Format(v) = "TsFluentd", v.s \in Word64, v.ns \in Nano
    PROVE  Encodes(v, PairJoin(215, 0, EventTime(v)), 0)
<1>1. PICK x, z : x = Low(v.s, 4) /\ z = Bytes(v.ns, 4) BY Zenon
<1>a. /\ x \in [1..4 -> Byte] /\ z \in [1..4 -> Byte]
      /\ EventTime(v) = Join(x, z) /\ Join(x, z) \in [1..8 -> Byte]
      /\ T(SignExtend(x), Num(z)) = T(v.s, v.ns) <=> v.s = SignExtend(Low(v.s, 4))
    BY <1>1, EventTimeIs
<1>2. PICK y, u : y = T(SignExtend(x), Num(z)) /\ u = Join(x, z) BY Zenon
<1>5. KeptAs(v, y)
  <2>3. Kept(v) <=> v.s = SignExtend(Low(v.s, 4)) BY DEF Kept
  <2> QED BY <1>a, <1>2, <2>3 DEF KeptAs
<1>6. ~Ext8(v) BY DEF Ext8
<1>7. PICK a \in Byte, b \in Byte, m \in Nat : a = 215 /\ b = 0 /\ m = 8 BY DEF Byte, Below
<1>8. PrefixedReads(a, b, u, m, y)
  <2>1. ASSUME lim \in Nat, Bytewise, NEW p \in Nat, Prefixed(p, 215, 0, u, 8) PROVE TimeAt(p, y, 9)
    <3>1. Prefixed(p, 215, 0, Join(x, z), 8) BY <1>2, <2>1
    <3> QED BY <1>a, <1>2, <2>1, <3>1, FluentdAt
  <2>2. m + 1 = 9 BY <1>7
  <2> QED BY <1>7, <2>1, <2>2 DEF PrefixedReads
<1>9. u \in [1..m -> Byte] BY <1>a, <1>2, <1>7
<1>10. Encodes(v, PairJoin(a, b, u), 0) BY <1>5, <1>6, <1>8, <1>9, PairEncodes, Zenon
<1> QED BY <1>a, <1>2, <1>7, <1>10

\* The same with the three bytes before an ext8.
TripleJoin(a, b, c, x) == <<a, b, c>> \o x
Prefixed3Reads(a, b, c, m, x, y) ==
    lim \in Nat /\ Bytewise => \A p \in Nat : Prefixed3(p, a, b, c, m, x) => Ext8At(p, y, m)

LEMMA TripleEncodes ==
    ASSUME NEW v, v.k = "time", Ext8(v), NEW a \in Byte, NEW b \in Byte, NEW c \in Byte,
           NEW m \in Nat, NEW x \in [1..m -> Byte],
           NEW y, KeptAs(v, y), Prefixed3Reads(a, b, c, m, x, y)
    PROVE  Encodes(v, TripleJoin(a, b, c, x), 0)
<1>1. PICK h, d : d = Triple(a, b, c) /\ h = Join(d, x) BY Zenon
<1>0. TripleJoin(a, b, c, x) = h BY <1>1, Zenon DEF TripleJoin, Triple, Join
<1>2. PICK n \in Nat, l \in Nat : n = 3 /\ Adds(l, n, m) /\ Adds(l, 3, m) /\ l = m + 3 BY DEF Adds
<1>3. d \in [1..n -> Byte]
  <2>1. d \in [1..3 -> Byte] BY <1>1 DEF Triple
  <2> QED BY <1>2, <2>1
<1>4. h \in [1..l -> Byte] BY <1>1, <1>2, <1>3, JoinType, Zenon
<1>5. h \in Seq(Byte) /\ Len(h) = l /\ \A p \in Nat : Lies(h, p) => Here(p, l, h) BY <1>4, LiesRaw, Zenon
<1>6. ASSUME NEW p \in Nat, Here(p, l, h) PROVE Prefixed3(p, a, b, c, m, x)
  <2>1. Here(p, l, Join(Triple(a, b, c), x)) BY <1>1, <1>6, Zenon
  <2> QED BY <1>2, <2>1, TripleHere, Zenon
<1>7. Ext8sAt(h, y, m) BY <1>5, <1>6, Zenon DEF Ext8sAt, Prefixed3Reads
<1>8. Len(h) = m + 3 BY <1>2, <1>5
<1>9. Encodes(v, h, 0) BY <1>5, <1>7, <1>8, Ext8Encodes, Zenon DEF KeptAs
<1> QED BY <1>0, <1>9

LEMMA ExtEncodes ==
    ASSUME NEW v, v.k = "time", Format(v) = "Ext", v.s \in Word64, v.ns \in Nano
    PROVE  Encodes(v, TripleJoin(199, 8, 0, EventTime(v)), 0)
<1>1. PICK x, z : x = Low(v.s, 4) /\ z = Bytes(v.ns, 4) BY Zenon
<1>a. /\ x \in [1..4 -> Byte] /\ z \in [1..4 -> Byte]
      /\ EventTime(v) = Join(x, z) /\ Join(x, z) \in [1..8 -> Byte]
      /\ T(SignExtend(x), Num(z)) = T(v.s, v.ns) <=> v.s = SignExtend(Low(v.s, 4))
    BY <1>1, EventTimeIs
<1>2. PICK y, u : y = T(SignExtend(x), Num(z)) /\ u = Join(x, z) BY Zenon
<1>5. KeptAs(v, y)
  <2>3. Kept(v) <=> v.s = SignExtend(Low(v.s, 4)) BY DEF Kept
  <2> QED BY <1>a, <1>2, <2>3 DEF KeptAs
<1>6. Ext8(v) BY DEF Ext8
<1>7. PICK a \in Byte, b \in Byte, c \in Byte, m \in Nat, n \in Nat :
         a = 199 /\ b = 8 /\ c = 0 /\ m = 8 /\ n = 4 /\ Adds(m, n, n)
    BY DEF Byte, Below, Adds
<1>b. x \in [1..n -> Byte] /\ z \in [1..n -> Byte] BY <1>a, <1>7
<1>c. Adds(m, n, n) BY <1>7
<1>8. Prefixed3Reads(a, b, c, m, u, y)
  <2>1. ASSUME lim \in Nat, Bytewise, NEW p \in Nat, Prefixed3(p, a, b, c, m, u) PROVE Ext8At(p, y, 8)
    <3>1. PICK q \in Nat, r \in Nat : q = p + 3 /\ r = p + 7 /\ Adds(r, q, n) BY <1>7 DEF Adds
    <3>2. Here(q, m, Join(x, z)) BY <1>2, <2>1, <3>1, Zenon DEF Prefixed3
    <3>a. Adds(r, q, n) BY <3>1
    <3>3. Here(q, n, x) /\ Here(r, n, z) BY <1>b, <1>c, <3>a, <3>2, RawJoin, Zenon
    <3>4. Raw(p + 3, 4) = x /\ Raw(p + 7, 4) = z BY <1>7, <3>1, <3>3 DEF Here
    <3>5. Cell(p) = 199 /\ Cell(p + 1) = 8 /\ Cell(p + 2) = 0 BY <1>7, <2>1 DEF Prefixed3
    <3> QED BY <1>2, <2>1, <3>4, <3>5, ExtAt
  <2> QED BY <1>7, <2>1 DEF Prefixed3Reads
<1>9. u \in [1..m -> Byte] BY <1>a, <1>2, <1>7
<1>10. Encodes(v, TripleJoin(a, b, c, u), 0) BY <1>5, <1>6, <1>8, <1>9, TripleEncodes, Zenon
<1> QED BY <1>a, <1>2, <1>7, <1>10

LEMMA JoinTwice ==
    ASSUME NEW x \in Seq(Byte), NEW y \in Seq(Byte), NEW z \in Seq(Byte)
    PROVE  (x \o y) \o z = x \o (y \o z)
OBVIOUS

Ts96Head(v) == TripleJoin(199, 12, 255, Bytes(v.ns, 4)) \o v.s

LEMMA Ts96Encodes ==
    ASSUME NEW v, v.k = "time", Format(v) = "Ts96", v.s \in Word64, v.ns \in Nano
    PROVE  Encodes(v, Ts96Head(v), 0)
<1>1. PICK s \in [1..8 -> Byte], z \in [1..4 -> Byte] : s = v.s /\ z = Bytes(v.ns, 4) /\ Num(z) = v.ns
    BY NanoBytes DEF Word64
<1>2. PICK y, u : y = T(s, Num(z)) /\ u = Join(z, s) BY Zenon
<1>5. KeptAs(v, y)
  <2>1. y = T(v.s, v.ns) BY <1>1, <1>2
  <2>2. Kept(v) BY DEF Kept
  <2> QED BY <2>1, <2>2 DEF KeptAs
<1>6. Ext8(v) BY DEF Ext8
<1>7. PICK a \in Byte, b \in Byte, c \in Byte, m \in Nat, n \in Nat, k \in Nat :
         a = 199 /\ b = 12 /\ c = 255 /\ m = 12 /\ n = 4 /\ k = 8 /\ Adds(m, n, k)
    BY DEF Byte, Below, Adds
<1>b. z \in [1..n -> Byte] /\ s \in [1..k -> Byte] BY <1>1, <1>7
<1>c. Adds(m, n, k) BY <1>7
<1>8. Prefixed3Reads(a, b, c, m, u, y)
  <2>1. ASSUME lim \in Nat, Bytewise, NEW p \in Nat, Prefixed3(p, a, b, c, m, u) PROVE Ext8At(p, y, 12)
    <3>1. PICK q \in Nat, r \in Nat : q = p + 3 /\ r = p + 7 /\ Adds(r, q, n) BY <1>7 DEF Adds
    <3>2. Here(q, m, Join(z, s)) BY <1>2, <2>1, <3>1, Zenon DEF Prefixed3
    <3>a. Adds(r, q, n) BY <3>1
    <3>3. Here(q, n, z) /\ Here(r, k, s) BY <1>b, <1>c, <3>a, <3>2, RawJoin, Zenon
    <3>4. Raw(p + 3, 4) = z /\ Raw(p + 7, 8) = s BY <1>7, <3>1, <3>3 DEF Here
    <3>5. Cell(p) = 199 /\ Cell(p + 1) = 12 /\ Cell(p + 2) = 255 BY <1>7, <2>1 DEF Prefixed3
    <3> QED BY <1>2, <2>1, <3>4, <3>5, Ts96At
  <2> QED BY <1>7, <2>1 DEF Prefixed3Reads
<1>9. u \in [1..m -> Byte] BY <1>2, <1>b, <1>c, JoinType, Zenon
<1>10. Encodes(v, TripleJoin(a, b, c, u), 0) BY <1>5, <1>6, <1>8, <1>9, TripleEncodes, Zenon
<1>11. TripleJoin(a, b, c, z) \o s = TripleJoin(a, b, c, u)
  <2>1. PICK d : d = <<a, b, c>> BY Zenon
  <2>2. d \in Seq(Byte) BY <2>1
  <2>3. z \in Seq(Byte) /\ s \in Seq(Byte) BY <1>b, WordSeq, Zenon
  <2>4. (d \o z) \o s = d \o (z \o s) BY <2>2, <2>3, JoinTwice, Zenon
  <2> QED BY <1>2, <2>1, <2>4, Zenon DEF TripleJoin, Join
<1>12. Ts96Head(v) = TripleJoin(a, b, c, z) \o s BY <1>1, <1>7 DEF Ts96Head
<1> QED BY <1>10, <1>11, <1>12, Zenon

-----------------------------------------------------------------------------
(* Every value *)

EncodesAs(v, e) == Encodes(v, e.head, e.body)

LEMMA NilIs ==
    ASSUME NEW v, v.k = "nil"
    PROVE  EncodesAs(v, Encode(v))
<1>1. Encode(v) = Enc(<<192>>, 0) BY DEF Encode, AppendNil
<1>2. Encodes(v, <<192>>, 0) BY NilEncodes
<1>3. Encode(v).head = <<192>> /\ Encode(v).body = 0 BY <1>1 DEF Enc
<1> QED BY <1>2, <1>3 DEF EncodesAs

LEMMA BoolIs ==
    ASSUME NEW v, v.k = "bool", v.b \in BOOLEAN
    PROVE  EncodesAs(v, Encode(v))
<1>1. Encode(v) = Enc(<<IF v.b THEN 195 ELSE 194>>, 0) BY DEF Encode, AppendBool
<1>2. Encodes(v, <<IF v.b THEN 195 ELSE 194>>, 0) BY BoolEncodes
<1>3. Encode(v).head = <<IF v.b THEN 195 ELSE 194>> /\ Encode(v).body = 0 BY <1>1 DEF Enc
<1> QED BY <1>2, <1>3 DEF EncodesAs

LEMMA FloatIs ==
    ASSUME NEW v, v.k = "float", v.single \in BOOLEAN
    PROVE  EncodesAs(v, Encode(v))
<1>1. PICK n \in Nat : n = IF v.single THEN 4 ELSE 8 OBVIOUS
<1>2. Encodes(v, <<IF v.single THEN 202 ELSE 203>>, n) BY <1>1, FloatEncodes
<1>3. Encode(v).head = <<IF v.single THEN 202 ELSE 203>> /\ Encode(v).body = n
    BY <1>1 DEF Encode, AppendFloat, Enc
<1> QED BY <1>2, <1>3 DEF EncodesAs

LEMMA IntIs ==
    ASSUME NEW v, v.k = "int" \/ v.k = "uint", v.w \in Word64
    PROVE  EncodesAs(v, Encode(v))
<1>1. PICK w \in Word64 : w = v.w OBVIOUS
<1>2. IntKind(v) BY DEF IntKind
<1>3. AppendInt(w).body = 0 /\ AppendUint(w).body = 0 BY IntFormOf
<1>4. CASE v.k = "int"
  <2>1. Encode(v) = AppendInt(w) BY <1>1, <1>4 DEF Encode
  <2>2. PICK m : IntForm(AppendInt(w).head, w, IntTyp(w), m) BY IntFormOf
  <2>3. IntTyp(w) = IntTypOf(v) BY <1>1, <1>4 DEF IntTyp, IntTypOf
  <2>4. Encodes(v, AppendInt(w).head, 0) BY <1>1, <1>2, <2>2, <2>3, IntEncodes, Zenon
  <2> QED BY <1>3, <2>1, <2>4 DEF EncodesAs
<1>5. CASE v.k = "uint"
  <2>1. Encode(v) = AppendUint(w) BY <1>1, <1>5 DEF Encode
  <2>2. PICK m : IntForm(AppendUint(w).head, w, "Uint", m) BY UintForm
  <2>3. "Uint" = IntTypOf(v) BY <1>5 DEF IntTypOf
  <2>4. Encodes(v, AppendUint(w).head, 0) BY <1>1, <1>2, <2>2, <2>3, IntEncodes, Zenon
  <2> QED BY <1>3, <2>1, <2>4 DEF EncodesAs
<1> QED BY <1>4, <1>5

LEMMA ArrayIs ==
    ASSUME NEW v, v.k = "array", v.n \in Nat, v.n < Huge
    PROVE  EncodesAs(v, Encode(v))
<1>1. PICK n \in Nat : n = v.n /\ n < Huge OBVIOUS
<1>2. PICK m \in {0, 1, 2, 4} : SizedForm(AppendArrayHeader(n).head, "Array", n, m) /\ (HighBit(n, m) <=> Between(n, 32768, 65535))
    BY <1>1, ArrayForm
<1>3. \A b : MeaningOf(v, b) = R("Array", <<n>>) BY <1>1 DEF MeaningOf
<1>4. SignedLength(v) <=> HighBit(n, m) BY <1>1, <1>2 DEF SignedLength
<1>5. Nested("Array") /\ v.k = Kind("Array") BY DEF Nested, Kind
<1>6. Encodes(v, AppendArrayHeader(n).head, 0) BY <1>1, <1>2, <1>3, <1>4, <1>5, HeaderEncodes
<1>7. Encode(v) = AppendArrayHeader(n) BY <1>1 DEF Encode
<1>8. AppendArrayHeader(n).body = 0 BY DEF AppendArrayHeader, Enc
<1> QED BY <1>6, <1>7, <1>8 DEF EncodesAs

LEMMA MapIs ==
    ASSUME NEW v, v.k = "map", v.n \in Nat, v.n < Huge
    PROVE  EncodesAs(v, Encode(v))
<1>1. PICK n \in Nat : n = v.n /\ n < Huge OBVIOUS
<1>2. PICK m \in {0, 1, 2, 4} : SizedForm(AppendMapHeader(n).head, "Map", n, m) /\ (HighBit(n, m) <=> Between(n, 32768, 65535))
    BY <1>1, MapForm
<1>3. \A b : MeaningOf(v, b) = R("Map", <<n>>) BY <1>1 DEF MeaningOf
<1>4. SignedLength(v) <=> HighBit(n, m) BY <1>1, <1>2 DEF SignedLength
<1>5. Nested("Map") /\ v.k = Kind("Map") BY DEF Nested, Kind
<1>6. Encodes(v, AppendMapHeader(n).head, 0) BY <1>1, <1>2, <1>3, <1>4, <1>5, HeaderEncodes
<1>7. Encode(v) = AppendMapHeader(n) BY <1>1 DEF Encode
<1>8. AppendMapHeader(n).body = 0 BY DEF AppendMapHeader, Enc
<1> QED BY <1>6, <1>7, <1>8 DEF EncodesAs

LEMMA BinIs ==
    ASSUME NEW v, v.k = "bin", v.n \in Nat, v.n < Huge, v.how \in {"AppendBinary", "AppendBinaryUnknownLength"}
    PROVE  EncodesAs(v, Encode(v))
<1>1. PICK n \in Nat : n = v.n /\ n < Huge OBVIOUS
<1>2. \A b : MeaningOf(v, b) = R("Bin", <<b, n>>) BY <1>1 DEF MeaningOf
<1>3. CASE v.how = "AppendBinary"
  <2>1. PICK m \in {0, 1, 2, 4} : SizedForm(AppendBinary(n).head, "Bin", n, m) /\ (HighBit(n, m) <=> Signed(n))
      BY <1>1, BinaryForm
  <2>2. SignedLength(v) <=> HighBit(n, m) BY <1>1, <1>3, <2>1 DEF SignedLength
  <2>3. Encodes(v, AppendBinary(n).head, n) BY <1>1, <1>2, <2>1, <2>2, BinEncodes
  <2>4. Encode(v) = AppendBinary(n) /\ AppendBinary(n).body = n BY <1>1, <1>3 DEF Encode, AppendBinary, Enc
  <2> QED BY <2>3, <2>4 DEF EncodesAs
<1>4. CASE v.how = "AppendBinaryUnknownLength"
  <2>1. SizedForm(AppendBinaryUnknownLength(n).head, "Bin", n, 4) /\ ~HighBit(n, 4) BY <1>1, UnknownLengthForm
  <2>2. SignedLength(v) <=> HighBit(n, 4) BY <1>4, <2>1 DEF SignedLength
  <2>3. Encodes(v, AppendBinaryUnknownLength(n).head, n) BY <1>1, <1>2, <2>1, <2>2, BinEncodes
  <2>4. Encode(v) = AppendBinaryUnknownLength(n) /\ AppendBinaryUnknownLength(n).body = n
      BY <1>1, <1>4 DEF Encode, AppendBinaryUnknownLength, Enc
  <2> QED BY <2>3, <2>4 DEF EncodesAs
<1> QED BY <1>3, <1>4

LEMMA StrIs ==
    ASSUME NEW v, v.k = "str", v.n \in Nat, v.n < Huge,
           v.how \in {"AppendString", "AppendStringDynamic", "AppendStringUnknownLength", "AppendStringMax255"}
    PROVE  EncodesAs(v, Encode(v))
<1>1. PICK n \in Nat : n = v.n /\ n < Huge OBVIOUS
<1>2. ASSUME v.how # "AppendStringMax255" PROVE \A b : MeaningOf(v, b) = R("Str", <<b, n>>)
    BY <1>1, <1>2 DEF MeaningOf
<1>3. CASE v.how \in {"AppendString", "AppendStringDynamic"}
  <2>1. PICK m \in {0, 1, 2, 4} : SizedForm(AppendString(n).head, "Str", n, m) /\ (HighBit(n, m) <=> Signed(n))
      BY <1>1, StringForm
  <2>2. Whole(v) => ~HighBit(n, m) BY <1>1, <1>3, <2>1 DEF Whole
  <2>3. Encodes(v, AppendString(n).head, n) BY <1>1, <1>2, <1>3, <2>1, <2>2, StrEncodes
  <2>4. CASE v.how = "AppendString"
    <3>1. Encode(v) = AppendString(n) BY <1>1, <2>4 DEF Encode
    <3>2. AppendString(n).body = n BY DEF AppendString, Enc
    <3> QED BY <2>3, <3>1, <3>2 DEF EncodesAs
  <2>5. CASE v.how = "AppendStringDynamic"
    <3>1. Encode(v) = AppendStringDynamic(n) BY <1>1, <2>5 DEF Encode
    <3> QED BY <2>3, <3>1, DynamicForm DEF EncodesAs
  <2> QED BY <1>3, <2>4, <2>5
<1>4. CASE v.how = "AppendStringUnknownLength"
  <2>1. SizedForm(AppendStringUnknownLength(n).head, "Str", n, 4) /\ ~HighBit(n, 4) BY <1>1, UnknownLengthForm
  <2>2. Encodes(v, AppendStringUnknownLength(n).head, n) BY <1>1, <1>2, <1>4, <2>1, StrEncodes
  <2>3. Encode(v) = AppendStringUnknownLength(n) /\ AppendStringUnknownLength(n).body = n
      BY <1>1, <1>4 DEF Encode, AppendStringUnknownLength, Enc
  <2> QED BY <2>2, <2>3 DEF EncodesAs
<1>5. CASE v.how = "AppendStringMax255"
  <2>1. PICK l \in Nat : l = (IF n > 255 THEN 255 ELSE n) /\ l < Huge BY <1>1 DEF Huge
  <2>2. /\ SizedForm(AppendStringMax255(n).head, "Str", l, 1) /\ (HighBit(l, 1) <=> l >= 128)
        /\ AppendStringMax255(n).body = l
      BY <2>1, Max255Form
  <2>3. \A b : MeaningOf(v, b) = R("Str", <<b, l>>) BY <1>1, <1>5, <2>1 DEF MeaningOf
  <2>4. Whole(v) => ~HighBit(l, 1) BY <1>1, <1>5, <2>1, <2>2 DEF Whole
  <2>5. Encodes(v, AppendStringMax255(n).head, l) BY <2>1, <2>2, <2>3, <2>4, StrEncodes
  <2>6. Encode(v) = AppendStringMax255(n) BY <1>1, <1>5 DEF Encode
  <2> QED BY <2>2, <2>5, <2>6 DEF EncodesAs
<1> QED BY <1>3, <1>4, <1>5

LEMMA TimeIs ==
    ASSUME NEW v, v.k = "time", v.s \in Word64, v.ns \in Nano,
           v.f \in {"TsAuto", "Ts32", "Ts64", "Ts96", "TsInt", "TsFluentd", "Ext"}
    PROVE  EncodesAs(v, Encode(v))
<1>1. Format(v) \in {"Ts32", "Ts64", "Ts96", "TsInt", "TsFluentd", "Ext"} BY DEF Format
<1>2. Format(v) = "Ext" <=> v.f = "Ext" BY DEF Format
<1>3. CASE Format(v) = "Ext"
  <2>1. Encodes(v, TripleJoin(199, 8, 0, EventTime(v)), 0) BY <1>3, ExtEncodes
  <2>2. Encode(v) = ExtEventTime(v) BY <1>2, <1>3 DEF Encode
  <2>3. ExtEventTime(v).head = TripleJoin(199, 8, 0, EventTime(v)) /\ ExtEventTime(v).body = 0
      BY DEF ExtEventTime, Enc, TripleJoin, fluentdEventTime
  <2> QED BY <2>1, <2>2, <2>3 DEF EncodesAs
<1>4. ASSUME Format(v) # "Ext" PROVE Encode(v) = AppendTimestamp(v) BY <1>2, <1>4 DEF Encode
<1>5. CASE Format(v) = "Ts32"
  <2>1. Encodes(v, PairJoin(214, 255, Low(v.s, 4)), 0) BY <1>5, Ts32Encodes
  <2>2. AppendTimestamp(v).head = PairJoin(214, 255, Low(v.s, 4)) /\ AppendTimestamp(v).body = 0
      BY <1>5 DEF AppendTimestamp, Enc, PairJoin, msgpackTimestamp
  <2> QED BY <1>4, <1>5, <2>1, <2>2 DEF EncodesAs
<1>6. CASE Format(v) = "Ts64"
  <2>1. Encodes(v, PairJoin(215, 255, Pack64(v.s, v.ns)), 0) BY <1>6, Ts64Encodes
  <2>2. AppendTimestamp(v).head = PairJoin(215, 255, Pack64(v.s, v.ns)) /\ AppendTimestamp(v).body = 0
      BY <1>6 DEF AppendTimestamp, Enc, PairJoin, msgpackTimestamp
  <2> QED BY <1>4, <1>6, <2>1, <2>2 DEF EncodesAs
<1>7. CASE Format(v) = "Ts96"
  <2>1. Encodes(v, Ts96Head(v), 0) BY <1>7, Ts96Encodes
  <2>a. AppendTimestamp(v) = Enc(Join(Join(<<199, 12, msgpackTimestamp>>, Bytes(v.ns, 4)), v.s), 0)
      BY <1>7 DEF AppendTimestamp, Join
  <2>b. Join(<<199, 12, msgpackTimestamp>>, Bytes(v.ns, 4)) = TripleJoin(199, 12, 255, Bytes(v.ns, 4))
      BY DEF msgpackTimestamp, TripleJoin, Join
  <2>d. Ts96Head(v) = Join(TripleJoin(199, 12, 255, Bytes(v.ns, 4)), v.s) BY DEF Ts96Head, Join
  <2>c. AppendTimestamp(v) = Enc(Ts96Head(v), 0) BY <2>a, <2>b, <2>d
  <2>2. AppendTimestamp(v).head = Ts96Head(v) /\ AppendTimestamp(v).body = 0
      BY <2>c DEF Enc
  <2> QED BY <1>4, <1>7, <2>1, <2>2 DEF EncodesAs
<1>8. CASE Format(v) = "TsInt"
  <2>0. v.ns \in Nat BY Nanoseconds
  <2>1. PICK m : IntForm(AppendInt(v.s).head, v.s, IntTyp(v.s), m) BY IntFormOf
  <2>2. AppendInt(v.s).body = 0 BY IntFormOf
  <2>3. Encodes(v, AppendInt(v.s).head, 0) BY <1>8, <2>0, <2>1, TimeIntEncodes
  <2>4. AppendTimestamp(v) = AppendInt(v.s) BY <1>8 DEF AppendTimestamp
  <2> QED BY <1>4, <1>8, <2>2, <2>3, <2>4 DEF EncodesAs
<1>9. CASE Format(v) = "TsFluentd"
  <2>1. Encodes(v, PairJoin(215, 0, EventTime(v)), 0) BY <1>9, FluentdEncodes
  <2>2. AppendTimestamp(v).head = PairJoin(215, 0, EventTime(v)) /\ AppendTimestamp(v).body = 0
      BY <1>9 DEF AppendTimestamp, Enc, PairJoin, fluentdEventTime
  <2> QED BY <1>4, <1>9, <2>1, <2>2 DEF EncodesAs
<1> QED BY <1>1, <1>3, <1>5, <1>6, <1>7, <1>8, <1>9

\* What the encoders write is read back by every decoder: wherever the encoding of a value lies
\* in a buffer, its token, what the iterator and AppendText return for it, what the Read
\* functions return and where they go on, what Value takes for its length and shows, and the
\* number of its items are right, up to the exceptions that Good names, such as the
\* iterator's times with an ext8 header.
THEOREM RoundTrip ==
    ASSUME NEW v \in Value
    PROVE  EncodesAs(v, Encode(v))
<1>1. CASE v \in [k : {"nil"}] BY <1>1, NilIs
<1>2. CASE v \in [k : {"bool"}, b : BOOLEAN] BY <1>2, BoolIs
<1>3. CASE v \in [k : {"float"}, single : BOOLEAN] BY <1>3, FloatIs
<1>4. CASE v \in [k : {"int", "uint"}, w : Word64] BY <1>4, IntIs
<1>5. CASE v \in [k : {"array", "map"}, n : Size]
  <2>1. v.n \in Nat /\ v.n < Huge BY <1>5 DEF Size, Below
  <2> QED BY <1>5, <2>1, ArrayIs, MapIs
<1>6. CASE v \in [k : {"str"}, n : Size, how : {"AppendString", "AppendStringDynamic",
                                      "AppendStringUnknownLength", "AppendStringMax255"}]
  <2>1. v.n \in Nat /\ v.n < Huge BY <1>6 DEF Size, Below
  <2> QED BY <1>6, <2>1, StrIs
<1>7. CASE v \in [k : {"bin"}, n : Size, how : {"AppendBinary", "AppendBinaryUnknownLength"}]
  <2>1. v.n \in Nat /\ v.n < Huge BY <1>7 DEF Size, Below
  <2> QED BY <1>7, <2>1, BinIs
<1>8. CASE v \in [k : {"time"}, s : Word64, ns : Below(1000000000),
          f : {"TsAuto", "Ts32", "Ts64", "Ts96", "TsInt", "TsFluentd", "Ext"}]
    BY <1>8, TimeIs DEF Nano
<1> QED BY <1>1, <1>2, <1>3, <1>4, <1>5, <1>6, <1>7, <1>8 DEF Value

-----------------------------------------------------------------------------
(* Behind: how many values are still to come *)

\* The recursive function of Behind, and Behind, of the values vs.
NeededOf(vs, i) ==
    CHOOSE f : f = [j \in (i - 1)..Len(vs) |-> IF j < i THEN 1 ELSE f[j - 1] - 1 + Children(vs[j])]
EndsOf(vs, i) == {j \in i..Len(vs) : NeededOf(vs, i)[j] = 0}
BehindOf(vs, i) ==
    IF EndsOf(vs, i) = {} THEN Len(vs) + 2
       ELSE 1 + CHOOSE j \in EndsOf(vs, i) : \A k \in EndsOf(vs, i) : j <= k

LEMMA BehindIs ==
    ASSUME NEW i
    PROVE  Behind(i) = BehindOf(vals, i)
BY Zenon DEF Behind, BehindOf, EndsOf, NeededOf

LEMMA ChildrenType ==
    ASSUME NEW v \in Value
    PROVE  Children(v) \in Nat
<1>1. v.k = "array" \/ v.k = "map" => v.n \in Nat
  <2>1. CASE v \in [k : {"array", "map"}, n : Size]
    <3>1. v.n \in Size BY <2>1
    <3> QED BY <3>1 DEF Size, Below
  <2>2. CASE v \notin [k : {"array", "map"}, n : Size]
    <3>1. v.k # "array" /\ v.k # "map" BY <2>2 DEF Value
    <3> QED BY <3>1
  <2> QED BY <2>1, <2>2
<1> QED BY <1>1 DEF Children

LEMMA NeededDef ==
    ASSUME NEW vs \in Seq(Value), NEW i \in Nat, 1 <= i, i <= Len(vs) + 1
    PROVE  /\ NeededOf(vs, i)[i - 1] = 1
           /\ \A j \in i..Len(vs) : NeededOf(vs, i)[j] = NeededOf(vs, i)[j - 1] - 1 + Children(vs[j])
           /\ \A j \in (i - 1)..Len(vs) : NeededOf(vs, i)[j] \in Int
<1>0. PICK N \in Nat, M \in Nat : N = Len(vs) /\ M = N + 1 - i OBVIOUS
<1>1. PICK c : c = [j \in 1..N |-> Children(vs[j])] BY Zenon
<1>2. \A j \in 1..N : c[j] \in Nat /\ c[j] = Children(vs[j])
  <2>1. ASSUME NEW j \in 1..N PROVE Children(vs[j]) \in Nat
    <3>1. vs[j] \in Value BY <1>0
    <3> QED BY <3>1, ChildrenType, Zenon
  <2> QED BY <1>1, <2>1
<1> DEFINE g == [k \in 1..M |-> [x \in Int |-> x - 1 + c[k + i - 1]]]
           Counts(f) == f = [j \in (i - 1)..N |-> IF j < i THEN 1 ELSE f[j - 1] - 1 + Children(vs[j])]
<1>3. \A k \in 1..M : k + i - 1 \in 1..N BY <1>0
<1>a. \A k \in 1..M : c[k + i - 1] \in Int BY <1>2, <1>3
<1>b. \A k \in 1..M : [x \in Int |-> x - 1 + c[k + i - 1]] \in [Int -> Int] BY <1>a
<1>4. g \in [1..M -> [Int -> Int]] BY <1>b, Zenon
<1>5. \A k \in 1..M : \A x \in Int : g[k][x] = x - 1 + c[k + i - 1] OBVIOUS
<1> HIDE DEF g
<1>6. PICK f : Built(f, Int, 1, M, g)
  <2>1. 1 \in Int OBVIOUS
  <2> QED BY <1>4, <2>1, RecursionExists, Zenon
<1>7. f \in [0..M -> Int] /\ f[0] = 1 /\ \A k \in 1..M : f[k] = g[k][f[k - 1]] BY <1>6 DEF Built
<1> DEFINE h == [j \in (i - 1)..N |-> f[j - i + 1]]
<1>8. Counts(h)
  <2>1. ASSUME NEW j \in (i - 1)..N PROVE h[j] = IF j < i THEN 1 ELSE h[j - 1] - 1 + Children(vs[j])
    <3>1. CASE j < i
      <4>1. j - i + 1 = 0 BY <3>1
      <4>2. h[j] = f[j - i + 1] OBVIOUS
      <4>a. f[j - i + 1] = f[0] BY <4>1, Zenon
      <4>3. h[j] = 1 BY <1>7, <4>2, <4>a, Zenon
      <4> QED BY <3>1, <4>3
    <3>2. CASE ~(j < i)
      <4>1. PICK k \in 1..M : k = j - i + 1 /\ k - 1 = (j - 1) - i + 1 /\ k + i - 1 = j /\ k - 1 \in 0..M BY <1>0, <3>2
      <4>2. j - 1 \in (i - 1)..N /\ j \in 1..N BY <3>2
      <4>3. h[j - 1] = f[k - 1] /\ h[j] = f[k] BY <4>1, <4>2
      <4>4. f[k - 1] \in Int BY <1>7, <4>1
      <4>a. f[k] = g[k][f[k - 1]] BY <1>7, <4>1
      <4>b. g[k][f[k - 1]] = f[k - 1] - 1 + c[k + i - 1] BY <1>5, <4>1, <4>4, Zenon
      <4>5. f[k] = f[k - 1] - 1 + c[j] BY <4>1, <4>a, <4>b
      <4>6. c[j] = Children(vs[j]) BY <1>2, <4>2
      <4> QED BY <3>2, <4>3, <4>5, <4>6
    <3> QED BY <3>1, <3>2
  <2>2. h = [j \in (i - 1)..N |-> h[j]] OBVIOUS
  <2> HIDE DEF h
  <2>3. h = [j \in (i - 1)..N |-> IF j < i THEN 1 ELSE h[j - 1] - 1 + Children(vs[j])] BY <2>1, <2>2, Zenon
  <2> QED BY <2>3, Zenon DEF Counts
<1> DEFINE n == NeededOf(vs, i)
<1>9. Counts(n)
  <2>1. n = CHOOSE f1 : Counts(f1) BY <1>0 DEF NeededOf
  <2> HIDE DEF Counts, n, h
  <2> QED BY <1>8, <2>1
<1> HIDE DEF n, h
<1>10. \A j \in (i - 1)..N : n[j] = IF j < i THEN 1 ELSE n[j - 1] - 1 + Children(vs[j]) BY <1>9
<1>11. n[i - 1] = 1
  <2>1. i - 1 \in (i - 1)..N /\ i - 1 < i BY <1>0
  <2> QED BY <1>10, <2>1
<1>12. ASSUME NEW j \in i..N PROVE n[j] = n[j - 1] - 1 + Children(vs[j])
  <2>1. j \in (i - 1)..N /\ ~(j < i) OBVIOUS
  <2> QED BY <1>10, <2>1
<1>13. \A j \in (i - 1)..N : n[j] \in Int
  <2> DEFINE q == [k \in 0..M |-> n[k + i - 1]]
  <2>1. \A k \in 0..M : q[k] = n[k + i - 1] OBVIOUS
  <2> HIDE DEF q
  <2>2. q[0] \in Int
    <3>1. 0 \in 0..M /\ 0 + i - 1 = i - 1 OBVIOUS
    <3> QED BY <1>11, <2>1, <3>1
  <2>3. ASSUME NEW k \in 1..M, q[k - 1] \in Int PROVE q[k] \in Int
    <3>1. PICK j \in i..N : j = k + i - 1 /\ j - 1 = (k - 1) + i - 1 /\ k - 1 \in 0..M /\ k \in 0..M /\ j \in 1..N BY <1>0
    <3>2. q[k] = n[j] /\ q[k - 1] = n[j - 1] BY <2>1, <3>1, SMTT(30)
    <3>3. Children(vs[j]) \in Nat BY <1>2, <3>1
    <3> QED BY <1>12, <2>3, <3>2, <3>3
  <2>a. \A k \in 1..M : q[k - 1] \in Int => q[k] \in Int BY <2>3, Zenon
  <2>4. \A k \in 0..M : q[k] \in Int BY <2>2, <2>a, Along, Zenon
  <2>5. ASSUME NEW j \in (i - 1)..N PROVE n[j] \in Int
    <3>1. PICK k \in 0..M : j = k + i - 1 BY <1>0
    <3>2. n[k + i - 1] \in Int BY <2>1, <2>4, Zenon
    <3> QED BY <3>1, <3>2
  <2> QED BY <2>5
<1> QED BY <1>0, <1>11, <1>12, <1>13 DEF n

\* Values are still to come from i on, up to the one at j.
StillOpen(vs, i, j) == \A k \in i..j : NeededOf(vs, i)[k] > 0

LEMMA BehindFound ==
    ASSUME NEW vs \in Seq(Value), NEW i \in Nat, 1 <= i, NEW j \in i..Len(vs),
           NeededOf(vs, i)[j] = 0, StillOpen(vs, i, j - 1)
    PROVE  BehindOf(vs, i) = j + 1
<1>1. \A k \in (i - 1)..Len(vs) : NeededOf(vs, i)[k] \in Int
  <2>1. i <= Len(vs) + 1 OBVIOUS
  <2> QED BY <2>1, NeededDef, Zenon
<1> DEFINE E == EndsOf(vs, i)
<1>2. j \in E BY DEF EndsOf
<1>3. \A k \in E : k \in i..Len(vs) /\ NeededOf(vs, i)[k] = 0 BY DEF EndsOf
<1>4. \A k \in E : k \in Nat /\ j <= k
  <2>1. ASSUME NEW k \in E, k < j PROVE FALSE
    <3>1. k \in i..(j - 1) BY <1>3, <2>1
    <3> QED BY <1>3, <2>1, <3>1 DEF StillOpen
  <2> QED BY <1>3, <2>1
<1> HIDE DEF E
<1>5. ASSUME NEW x \in E, \A k \in E : x <= k PROVE x = j
  <2>1. x <= j /\ j <= x /\ x \in Nat BY <1>2, <1>4, <1>5
  <2> QED BY <2>1
<1>6. PICK y : y = CHOOSE x \in E : \A k \in E : x <= k BY Zenon
<1>a. y \in E /\ \A k \in E : y <= k BY <1>2, <1>4, <1>6, Zenon
<1>b. y = j BY <1>a, <1>5, Zenon
<1>7. E # {} BY <1>2
<1>8. BehindOf(vs, i) = 1 + y BY <1>6, <1>7, Zenon DEF BehindOf, E
<1> QED BY <1>8, <1>b

LEMMA BehindLater ==
    ASSUME NEW vs \in Seq(Value), NEW i \in Nat, 1 <= i, NEW j \in Nat, j <= Len(vs), StillOpen(vs, i, j)
    PROVE  /\ BehindOf(vs, i) \in Nat /\ BehindOf(vs, i) <= Len(vs) + 2
           /\ i <= Len(vs) => i < BehindOf(vs, i)
           /\ i <= j => j + 1 < BehindOf(vs, i)
           /\ i > Len(vs) => BehindOf(vs, i) = Len(vs) + 2
<1> DEFINE E == EndsOf(vs, i)
<1>1. \A k \in E : k \in i..Len(vs) /\ NeededOf(vs, i)[k] = 0 BY DEF EndsOf
<1>2. CASE E = {}
  <2>1. BehindOf(vs, i) = Len(vs) + 2 BY <1>2 DEF BehindOf
  <2> QED BY <2>1
<1>3. CASE E # {}
  <2> HIDE DEF E
  <2>1. PICK x \in E : \A k \in E : x <= k
    <3>1. PICK N \in Nat : N = Len(vs) OBVIOUS
    <3> DEFINE P == {n \in Nat : \A k \in E : n <= k}
    <3>2. CASE \E n \in P : n \in E BY <3>2
    <3>3. CASE \A n \in P : n \notin E
      <4>1. 0 \in P BY <1>1
      <4>2. ASSUME NEW n \in Nat, n \in P PROVE n + 1 \in P
        <5>1. ASSUME NEW k \in E PROVE n + 1 <= k
          <6>1. n <= k /\ k # n /\ k \in Nat BY <1>1, <3>3, <4>2
          <6> QED BY <6>1
        <5> QED BY <5>1
      <4> HIDE DEF P
      <4>3. \A n \in Nat : n \in P BY <4>1, <4>2, Induction
      <4>4. N + 1 \in P BY <3>1, <4>3
      <4>5. PICK k \in E : TRUE BY <1>3
      <4>6. N + 1 <= k BY <4>4 DEF P
      <4> QED BY <1>1, <3>1, <4>6
    <3> QED BY <3>2, <3>3
  <2>2. PICK y : y = CHOOSE z \in E : \A k \in E : z <= k BY Zenon
  <2>3. y \in E BY <2>1, <2>2
  <2>4. BehindOf(vs, i) = 1 + y BY <1>3, <2>2 DEF BehindOf, E
  <2>5. y \in i..Len(vs) /\ NeededOf(vs, i)[y] = 0 BY <1>1, <2>3
  <2>6. i <= j => j < y
    <3>1. ASSUME i <= j, y <= j PROVE FALSE
      <4>1. y \in i..j BY <2>5, <3>1
      <4>2. NeededOf(vs, i)[y] > 0 BY <4>1 DEF StillOpen
      <4> QED BY <2>5, <4>2
    <3> QED BY <2>5, <3>1
  <2> QED BY <2>4, <2>5, <2>6
<1> QED BY <1>2, <1>3

LEMMA BehindType ==
    ASSUME NEW vs \in Seq(Value), NEW i \in Nat, 1 <= i
    PROVE  /\ BehindOf(vs, i) \in Nat /\ BehindOf(vs, i) <= Len(vs) + 2
           /\ i <= Len(vs) => i < BehindOf(vs, i)
           /\ i > Len(vs) => BehindOf(vs, i) = Len(vs) + 2
<1>1. StillOpen(vs, i, 0) BY DEF StillOpen
<1>2. 0 \in Nat /\ 0 <= Len(vs) OBVIOUS
<1> QED BY <1>1, <1>2, BehindLater

-----------------------------------------------------------------------------
(* The loops in progress: t values are still to come *)

Totals(f, s, t) ==
    /\ f \in [1..(Len(s) + 1) -> Nat] /\ f[Len(s) + 1] = 0 /\ f[1] = t
    /\ \A i \in 1..Len(s) : f[i] = s[i] + f[i + 1]
Loops(s, t) == \E f : Totals(f, s, t)

LEMMA LoopOne ==
    ASSUME NEW a \in Nat
    PROVE  <<a>> \in Seq(Nat) /\ <<a>> # <<>> /\ Loops(<<a>>, a)
<1>1. PICK s : s = <<a>> BY Zenon
<1>2. s \in Seq(Nat) /\ Len(s) = 1 /\ s[1] = a BY <1>1
<1> DEFINE f == [i \in 1..2 |-> IF i = 1 THEN a ELSE 0]
<1>3. f \in [1..2 -> Nat] /\ f[1] = a /\ f[2] = 0 OBVIOUS
<1> HIDE DEF f
<1>4. Len(s) + 1 = 2 BY <1>2
<1>5. \A i \in 1..Len(s) : f[i] = s[i] + f[i + 1] BY <1>2, <1>3
<1>6. Totals(f, s, a) BY <1>3, <1>4, <1>5 DEF Totals
<1>7. Loops(s, a) BY <1>6, Zenon DEF Loops
<1>8. s # <<>> BY <1>2
<1> QED BY <1>1, <1>2, <1>7, <1>8, Zenon

LEMMA TailIs ==
    ASSUME NEW s \in Seq(Nat), s # <<>>
    PROVE  Tail(s) \in Seq(Nat) /\ Len(Tail(s)) = Len(s) - 1 /\ \A i \in 1..(Len(s) - 1) : Tail(s)[i] = s[i + 1]
OBVIOUS

LEMMA ConcatIs ==
    ASSUME NEW d \in Seq(Nat), NEW r \in Seq(Nat)
    PROVE  /\ d \o r \in Seq(Nat) /\ Len(d \o r) = Len(d) + Len(r)
           /\ \A i \in 1..(Len(d) + Len(r)) : (d \o r)[i] = IF i <= Len(d) THEN d[i] ELSE r[i - Len(d)]
OBVIOUS

LEMMA LoopPop ==
    ASSUME NEW s \in Seq(Nat), s # <<>>, Head(s) = 0, NEW t, Loops(s, t)
    PROVE  Loops(Tail(s), t) /\ (Len(s) = 1 => t = 0)
<1>1. PICK f : Totals(f, s, t) BY Zenon DEF Loops
<1>2. PICK L \in Nat : L = Len(s) /\ L >= 1 OBVIOUS
<1>0. PICK r : r = Tail(s) BY Zenon
<1>3. r \in Seq(Nat) /\ r = Tail(s) /\ Len(r) = L - 1 /\ \A i \in 1..(L - 1) : r[i] = s[i + 1]
  <2>1. Tail(s) \in Seq(Nat) /\ Len(Tail(s)) = Len(s) - 1 /\ \A i \in 1..(Len(s) - 1) : Tail(s)[i] = s[i + 1] BY TailIs, Zenon
  <2> QED BY <1>0, <1>2, <2>1, Zenon
<1>4. f \in [1..(L + 1) -> Nat] /\ f[L + 1] = 0 /\ f[1] = t /\ \A i \in 1..L : f[i] = s[i] + f[i + 1] BY <1>1, <1>2 DEF Totals
<1>5. s[1] = 0 BY <1>2
<1>6. f[2] = t
  <2>1. 1 \in 1..L /\ 2 \in 1..(L + 1) BY <1>2
  <2>2. f[1] = s[1] + f[2] /\ f[2] \in Nat BY <1>4, <2>1
  <2> QED BY <1>4, <1>5, <2>2
<1> DEFINE g == [i \in 1..L |-> f[i + 1]]
<1>7. g \in [1..L -> Nat] BY <1>4
<1>8. \A i \in 1..L : g[i] = f[i + 1] OBVIOUS
<1> HIDE DEF g
<1>9. g[L] = 0 /\ g[1] = t
  <2>1. 1 \in 1..L /\ L \in 1..L BY <1>2
  <2>2. g[1] = f[1 + 1] /\ g[L] = f[L + 1] BY <1>8, <2>1
  <2> QED BY <1>4, <1>6, <2>2
<1>10. ASSUME NEW i \in 1..(L - 1) PROVE g[i] = r[i] + g[i + 1]
  <2>1. i \in 1..L /\ i + 1 \in 1..L BY <1>2
  <2>2. g[i] = f[i + 1] /\ g[i + 1] = f[(i + 1) + 1] BY <1>8, <2>1
  <2>3. f[i + 1] = s[i + 1] + f[(i + 1) + 1] BY <1>4, <2>1
  <2> QED BY <1>3, <2>2, <2>3
<1>11. Totals(g, r, t)
  <2>1. Len(r) + 1 = L BY <1>3
  <2> QED BY <1>3, <1>7, <1>9, <1>10, <2>1 DEF Totals
<1>12. Loops(r, t) BY <1>11, Zenon DEF Loops
<1>13. Len(s) = 1 => t = 0 BY <1>2, <1>4, <1>6
<1> QED BY <1>3, <1>12, <1>13

Pushed(s, a) == <<a, Head(s) - 1>> \o Tail(s)

LEMMA LoopPush ==
    ASSUME NEW s \in Seq(Nat), s # <<>>, Head(s) > 0, NEW a \in Nat
    PROVE  /\ Pushed(s, a) \in Seq(Nat) /\ Pushed(s, a) # <<>>
           /\ \A t : Loops(s, t) => t \in Nat /\ t > 0 /\ Loops(Pushed(s, a), t - 1 + a)
<1>2. PICK L \in Nat : L = Len(s) /\ L >= 1 OBVIOUS
<1>0. PICK r : r = Tail(s) BY Zenon
<1>3. r \in Seq(Nat) /\ r = Tail(s) /\ Len(r) = L - 1 /\ \A i \in 1..(L - 1) : r[i] = s[i + 1]
  <2>1. Tail(s) \in Seq(Nat) /\ Len(Tail(s)) = Len(s) - 1 /\ \A i \in 1..(Len(s) - 1) : Tail(s)[i] = s[i + 1] BY TailIs, Zenon
  <2> QED BY <1>0, <1>2, <2>1, Zenon
<1>a. PICK h \in Nat : h = Head(s) - 1 /\ s[1] = h + 1 BY <1>2
<1>b. PICK d : d = <<a, h>> BY Zenon
<1>c. d \in Seq(Nat) /\ Len(d) = 2 /\ d[1] = a /\ d[2] = h BY <1>a, <1>b
<1> DEFINE u == d \o r
<1>d. /\ u \in Seq(Nat) /\ Len(u) = L + 1
      /\ \A i \in 1..(L + 1) : u[i] = IF i <= 2 THEN d[i] ELSE r[i - 2]
  <2>1. /\ u \in Seq(Nat) /\ Len(u) = Len(d) + Len(r)
        /\ \A i \in 1..(Len(d) + Len(r)) : u[i] = IF i <= Len(d) THEN d[i] ELSE r[i - Len(d)]
      BY <1>3, <1>c, ConcatIs, Zenon
  <2>3. Len(d) + Len(r) = L + 1 BY <1>3, <1>c
  <2> HIDE DEF u
  <2> QED BY <2>1, <2>3, <1>c, Zenon
<1>e. Pushed(s, a) = u BY <1>3, <1>a, <1>b DEF Pushed
<1> HIDE DEF u
<1>f. u # <<>> BY <1>d
<1>1. ASSUME NEW t, Loops(s, t) PROVE t \in Nat /\ t > 0 /\ Loops(u, t - 1 + a)
  <2>1. PICK f : Totals(f, s, t) BY <1>1, Zenon DEF Loops
  <2>4. f \in [1..(L + 1) -> Nat] /\ f[L + 1] = 0 /\ f[1] = t /\ \A i \in 1..L : f[i] = s[i] + f[i + 1] BY <1>2, <2>1 DEF Totals
  <2>5. t = h + 1 + f[2] /\ f[2] \in Nat
    <3>1. 1 \in 1..L /\ 2 \in 1..(L + 1) BY <1>2
    <3>2. f[1] = s[1] + f[1 + 1] BY <2>4, <3>1
    <3> QED BY <1>a, <2>4, <3>1, <3>2
  <2> DEFINE g == [i \in 1..(L + 2) |-> IF i = 1 THEN t - 1 + a ELSE IF i = 2 THEN h + f[2] ELSE f[i - 1]]
  <2>6. g \in [1..(L + 2) -> Nat]
    <3>1. ASSUME NEW i \in 1..(L + 2) PROVE g[i] \in Nat
      <4>1. CASE i = 1 BY <2>5, <4>1
      <4>2. CASE i = 2 BY <2>5, <4>2
      <4>3. CASE i > 2
        <5>1. i - 1 \in 1..(L + 1) BY <4>3
        <5> QED BY <2>4, <4>3, <5>1
      <4> QED BY <4>1, <4>2, <4>3
    <3> QED BY <3>1
  <2>7. g[1] = t - 1 + a /\ g[2] = h + f[2] /\ \A i \in 3..(L + 2) : g[i] = f[i - 1] BY <1>2
  <2> HIDE DEF g
  <2>8. g[L + 2] = 0
    <3>1. L + 2 \in 3..(L + 2) /\ (L + 2) - 1 = L + 1 BY <1>2
    <3>2. g[L + 2] = f[(L + 2) - 1] BY <2>7, <3>1, Zenon
    <3> QED BY <2>4, <3>1, <3>2
  <2>9. ASSUME NEW i \in 1..(L + 1) PROVE g[i] = u[i] + g[i + 1]
    <3>0. u[i] = IF i <= 2 THEN d[i] ELSE r[i - 2] BY <1>d
    <3>1. CASE i = 1
      <4>1. u[i] = a BY <1>c, <3>0, <3>1
      <4>2. g[1] = t - 1 + a /\ g[2] = h + f[2] BY <2>7
      <4>a. PICK e \in Nat : e = f[2] /\ t = h + 1 + e BY <2>5
      <4>b. t - 1 + a = a + (h + e)
        <5>1. PICK x \in Nat : x = t /\ x = h + 1 + e BY <4>a
        <5> QED BY <5>1
      <4>c. g[2] = h + e BY <4>2, <4>a
      <4>3. g[1] = a + g[2] BY <4>2, <4>b, <4>c, Zenon
      <4> QED BY <3>1, <4>1, <4>3
    <3>2. CASE i = 2
      <4>1. u[i] = h BY <1>c, <3>0, <3>2
      <4>2. 3 \in 3..(L + 2) BY <1>2
      <4>3. g[3] = f[2] BY <2>7, <4>2
      <4> QED BY <2>7, <3>2, <4>1, <4>3
    <3>3. CASE i > 2
      <4>1. i \in 3..(L + 2) /\ i + 1 \in 3..(L + 2) /\ i - 1 \in 1..L /\ i - 2 \in 1..(L - 1) BY <3>3
      <4>2. g[i] = f[i - 1] /\ g[i + 1] = f[(i + 1) - 1] BY <2>7, <4>1
      <4>3. f[i - 1] = s[i - 1] + f[(i - 1) + 1] BY <2>4, <4>1
      <4>4. u[i] = r[i - 2] BY <3>0, <3>3
      <4>5. r[i - 2] = s[(i - 2) + 1] BY <1>3, <4>1
      <4>6. (i - 2) + 1 = i - 1 /\ (i - 1) + 1 = (i + 1) - 1 OBVIOUS
      <4> QED BY <4>2, <4>3, <4>4, <4>5, <4>6
    <3> QED BY <3>1, <3>2, <3>3
  <2>10. Totals(g, u, t - 1 + a)
    <3>1. Len(u) + 1 = L + 2 /\ Len(u) = L + 1 BY <1>d
    <3> QED BY <2>6, <2>7, <2>8, <2>9, <3>1 DEF Totals
  <2>11. Loops(u, t - 1 + a) BY <2>10, Zenon DEF Loops
  <2>12. t \in Nat /\ t > 0 BY <2>5
  <2> QED BY <2>11, <2>12
<1> QED BY <1>d, <1>e, <1>f, <1>1, Zenon

-----------------------------------------------------------------------------
(* The buffer: every value lies where its span says, one behind the other *)

Span == [start : Nat, body : Nat, end : Nat]
Placed(i) ==
    /\ Lies(Encode(vals[i]).head, spans[i].start)
    /\ spans[i].body = spans[i].start + Len(Encode(vals[i]).head)
    /\ spans[i].end = spans[i].body + Encode(vals[i]).body
    /\ Start(i + 1) = spans[i].end /\ spans[i].end <= buf.len
    /\ \A j \in 1..Len(vals) : i < j => spans[i].end <= spans[j].start
Within == buf.len \in Nat /\ \A p \in DOMAIN buf.at : p \in Nat /\ p < buf.len
Written ==
    /\ vals \in Seq(Value) /\ spans \in Seq(Span) /\ Len(spans) = Len(vals)
    /\ Within /\ Bytewise /\ Start(1) = 0
    /\ \A i \in 1..Len(vals) : Placed(i)

\* What the reader gets ends in the last value.
Opened == vals # <<>> /\ lim \in Nat /\ spans[Len(vals)].start <= lim /\ lim <= buf.len

\* Where the reader is before the value at i.
Reach(i) == IF Start(i) <= lim THEN Start(i) ELSE lim

LEMMA SpanAt ==
    ASSUME Written, NEW i \in 1..Len(vals)
    PROVE  /\ vals[i] \in Value /\ spans[i] \in Span
           /\ spans[i].start \in Nat /\ spans[i].body \in Nat /\ spans[i].end \in Nat
           /\ spans[i].start < spans[i].body /\ spans[i].body <= spans[i].end /\ spans[i].end <= buf.len
           /\ Start(i) = spans[i].start /\ Start(i + 1) = spans[i].end
<1>1. vals[i] \in Value /\ spans[i] \in Span /\ Placed(i) BY DEF Written
<1>a. PICK v \in Value, s \in Span : v = vals[i] /\ s = spans[i] BY <1>1
<1>2. PICK e : v = vals[i] /\ s = spans[i] /\ e = Encode(v) BY <1>a, Zenon
<1>3. Encodes(v, e.head, e.body) BY <1>2, RoundTrip, Zenon DEF EncodesAs
<1>4. e.head \in Seq(Byte) /\ Len(e.head) >= 1 /\ e.body \in Nat BY <1>3, Zenon DEF Encodes
<1>5. s.start \in Nat /\ s.body \in Nat /\ s.end \in Nat BY DEF Span
<1>6. /\ s.body = s.start + Len(e.head) /\ s.end = s.body + e.body
      /\ Start(i + 1) = s.end /\ s.end <= buf.len
    BY <1>1, <1>2 DEF Placed
<1>7. Len(e.head) \in Nat BY <1>4
<1>8. s.start < s.body /\ s.body <= s.end BY <1>4, <1>5, <1>6, <1>7
<1>9. Start(i) = s.start BY <1>2 DEF Start
<1> QED BY <1>1, <1>2, <1>5, <1>6, <1>8, <1>9

LEMMA GoodAt ==
    ASSUME Written, lim \in Nat, NEW i \in 1..Len(vals)
    PROVE  Good(vals[i], spans[i].start, spans[i].body, spans[i].end)
<1>1. vals[i] \in Value /\ spans[i].start \in Nat BY SpanAt
<1>a. PICK v \in Value : v = vals[i] BY <1>1
<1>2. PICK h, n : v = vals[i] /\ h = Encode(v).head /\ n = Encode(v).body BY <1>a, Zenon
<1>3. Encodes(v, h, n) BY <1>2, RoundTrip, Zenon DEF EncodesAs
<1>4. PICK p \in Nat : p = spans[i].start BY <1>1
<1>5. Placed(i) /\ Bytewise BY DEF Written
<1>6. Lies(h, p) /\ spans[i].body = p + Len(h) /\ spans[i].end = p + Len(h) + n BY <1>2, <1>4, <1>5 DEF Placed
<1>7. Good(v, p, p + Len(h), p + Len(h) + n) BY <1>3, <1>5, <1>6, Zenon DEF Encodes
<1> QED BY <1>2, <1>4, <1>6, <1>7

LEMMA Later ==
    ASSUME Written, NEW i \in 1..Len(vals), NEW j \in Nat, i < j
    PROVE  Start(j) \in Nat /\ spans[i].end <= Start(j) /\ Start(j) <= buf.len
<1>0. vals \in Seq(Value) BY DEF Written
<1>1. CASE j <= Len(vals)
  <2>1. j \in 1..Len(vals) BY <1>1
  <2>2. Start(j) = spans[j].start /\ spans[j].start \in Nat /\ spans[j].start < spans[j].body
        /\ spans[j].body <= spans[j].end /\ spans[j].end <= buf.len /\ spans[j].body \in Nat /\ spans[j].end \in Nat
      BY <2>1, SpanAt
  <2>3. Placed(i) BY DEF Written
  <2>4. spans[i].end <= spans[j].start BY <2>1, <2>3 DEF Placed
  <2>5. buf.len \in Nat BY DEF Written, Within
  <2> QED BY <2>2, <2>4, <2>5
<1>2. CASE ~(j <= Len(vals))
  <2>1. Start(j) = buf.len BY <1>2 DEF Start
  <2>2. buf.len \in Nat BY DEF Written, Within
  <2>3. spans[i].end <= buf.len BY SpanAt
  <2> QED BY <2>1, <2>2, <2>3
<1> QED BY <1>1, <1>2

LEMMA ReachIs ==
    ASSUME Written, Opened, NEW i \in Nat, 1 <= i
    PROVE  /\ Reach(i) \in Nat /\ Reach(i) <= lim
           /\ i <= Len(vals) => Reach(i) = spans[i].start
           /\ i > Len(vals) => Reach(i) = lim
<1>0. vals \in Seq(Value) /\ buf.len \in Nat BY DEF Written, Within
<1>1. PICK N \in Nat : N = Len(vals) /\ N \in 1..Len(vals) BY <1>0 DEF Opened
<1>2. lim \in Nat /\ spans[N].start <= lim /\ lim <= buf.len BY <1>1 DEF Opened
<1>3. CASE i <= N
  <2>1. i \in 1..Len(vals) BY <1>1, <1>3
  <2>2. spans[i].start \in Nat /\ Start(i) = spans[i].start /\ spans[i].start < spans[i].body /\ spans[i].body <= spans[i].end
        /\ spans[i].body \in Nat /\ spans[i].end \in Nat
      BY <2>1, SpanAt
  <2>3. spans[i].start <= lim
    <3>1. CASE i = N BY <1>2, <3>1
    <3>2. CASE i < N
      <4>1. spans[i].end <= Start(N) /\ Start(N) \in Nat BY <1>1, <2>1, <3>2, Later
      <4>2. Start(N) = spans[N].start BY <1>1, SpanAt
      <4> QED BY <1>2, <2>2, <4>1, <4>2
    <3> QED BY <1>3, <3>1, <3>2
  <2>4. Reach(i) = spans[i].start BY <2>2, <2>3 DEF Reach
  <2> QED BY <1>1, <1>3, <2>2, <2>3, <2>4
<1>4. CASE i > N
  <2>1. Start(i) = buf.len BY <1>1, <1>4 DEF Start
  <2>2. Reach(i) = lim BY <1>0, <1>2, <2>1 DEF Reach
  <2> QED BY <1>1, <1>2, <1>4, <2>2
<1> QED BY <1>3, <1>4

\* The token of a value.
LEMMA TokenAt ==
    ASSUME Written, lim \in Nat, NEW i \in 1..Len(vals), NEW p, p = spans[i].start, NEW t, t = Token(p)
    PROVE  /\ Cell(p) # Unknown /\ p \in Nat
           /\ t.next \in Nat /\ t.length \in Nat /\ t.items \in Nat /\ p < t.next
           /\ HasToken(p) => t.next <= lim
           /\ ~HasToken(p) => lim < t.next
           /\ t.next + t.length = IF Ext8(vals[i]) THEN spans[i].end - 1 ELSE spans[i].end
           /\ Nested(t.typ) <=> vals[i].k \in {"array", "map"}
           /\ Nested(t.typ) => t.length = 0
           /\ (IF t.typ = "Map" THEN 2 * t.items ELSE t.items) = Children(vals[i])
<1>1. Good(vals[i], spans[i].start, spans[i].body, spans[i].end) BY GoodAt
<1>2. TokenGood(vals[i], p, spans[i].end) BY <1>1, Zenon DEF Good
<1>3. p \in Nat /\ Bytewise BY SpanAt DEF Written
<1>4. /\ t.length \in Nat /\ t.items \in Nat
      /\ t.next \in Nat /\ p < t.next
      /\ HasToken(p) => t.next <= lim
      /\ t.next <= lim => HasToken(p)
      /\ Nested(t.typ) => t.length = 0
    BY <1>3, TokenType
<1>5. ~HasToken(p) => lim < t.next BY <1>4
<1>6. /\ Cell(p) # Unknown
      /\ t.next + t.length = IF Ext8(vals[i]) THEN spans[i].end - 1 ELSE spans[i].end
      /\ Nested(t.typ) <=> vals[i].k \in {"array", "map"}
      /\ (IF t.typ = "Map" THEN 2 * t.items ELSE t.items) = Children(vals[i])
    BY <1>2 DEF TokenGood
<1> QED BY <1>3, <1>4, <1>5, <1>6

LEMMA Found ==
    ASSUME Written, Opened, NEW i \in Nat, 1 <= i, HasToken(Reach(i))
    PROVE  i \in 1..Len(vals) /\ Reach(i) = spans[i].start /\ Cell(Reach(i)) # Unknown
<1>0. vals \in Seq(Value) /\ lim \in Nat BY DEF Written, Opened
<1>1. CASE i <= Len(vals)
  <2>1. i \in 1..Len(vals) /\ Reach(i) = spans[i].start BY <1>0, <1>1, ReachIs
  <2>2. Cell(Reach(i)) # Unknown BY <1>0, <2>1, TokenAt
  <2> QED BY <2>1, <2>2
<1>2. CASE ~(i <= Len(vals))
  <2>1. Reach(i) = lim BY <1>0, <1>2, ReachIs
  <2>2. ~Has(lim, 1) BY <1>0 DEF Has
  <2> QED BY <2>1, <2>2 DEF HasToken
<1> QED BY <1>1, <1>2

LEMMA NotFound ==
    ASSUME Written, lim \in Nat, NEW i \in 1..Len(vals), ~HasToken(spans[i].start), ~Ext8(vals[i])
    PROVE  lim < spans[i].end
<1>1. PICK p, t : p = spans[i].start /\ t = Token(p) BY Zenon
<1>2. /\ t.next \in Nat /\ t.length \in Nat /\ lim < t.next
      /\ t.next + t.length = IF Ext8(vals[i]) THEN spans[i].end - 1 ELSE spans[i].end
    BY <1>1, TokenAt
<1>3. spans[i].end = t.next + t.length BY <1>2
<1>4. spans[i].end \in Nat BY SpanAt
<1> QED BY <1>2, <1>3, <1>4

\* Skip, and what AppendText's loops do alike.
LEMMA SkippedType ==
    ASSUME Bytewise, lim \in Nat, NEW p \in Nat, HasToken(p)
    PROVE  /\ Skipped(Token(p)).items \in Nat /\ Skipped(Token(p)).pos \in Nat /\ Skipped(Token(p)).pos <= lim
<1>1. PICK t : t = Token(p) BY Zenon
<1>2. t.length \in Nat /\ t.items \in Nat /\ t.next \in Nat /\ t.next <= lim BY <1>1, TokenType
<1>3. Skipped(t).items = (IF t.typ = "Map" THEN 2 * t.items ELSE t.items) BY DEF Skipped
<1>4. Skipped(t).pos = IF t.typ \in {"Array", "Map"} THEN t.next
                       ELSE IF t.next + t.length <= lim THEN t.next + t.length ELSE lim BY DEF Skipped
<1>5. Skipped(t).items \in Nat BY <1>2, <1>3
<1>6. Skipped(t).pos \in Nat /\ Skipped(t).pos <= lim BY <1>2, <1>4
<1> QED BY <1>1, <1>5, <1>6

LEMMA SkippedAt ==
    ASSUME Written, Opened, NEW i \in 1..Len(vals), ~Ext8(vals[i]), NEW p, p = spans[i].start, HasToken(p)
    PROVE  Skipped(Token(p)).items = Children(vals[i]) /\ Skipped(Token(p)).pos = Reach(i + 1)
<1>0. lim \in Nat BY DEF Opened
<1>1. PICK t : t = Token(p) BY Zenon
<1>2. /\ t.length \in Nat /\ t.items \in Nat /\ t.next \in Nat /\ t.next <= lim
      /\ t.next + t.length = IF Ext8(vals[i]) THEN spans[i].end - 1 ELSE spans[i].end
      /\ Nested(t.typ) => t.length = 0
      /\ (IF t.typ = "Map" THEN 2 * t.items ELSE t.items) = Children(vals[i])
    BY <1>0, <1>1, TokenAt
<1>a. t.next + t.length = spans[i].end BY <1>2
<1>3. Skipped(t).items = (IF t.typ = "Map" THEN 2 * t.items ELSE t.items) BY DEF Skipped
<1>4. Skipped(t).pos = IF Nested(t.typ) THEN t.next
                       ELSE IF t.next + t.length <= lim THEN t.next + t.length ELSE lim BY DEF Skipped, Nested
<1>5. Start(i + 1) = spans[i].end /\ spans[i].end \in Nat BY SpanAt
<1>6. Reach(i + 1) = IF spans[i].end <= lim THEN spans[i].end ELSE lim BY <1>5 DEF Reach
<1>7. Skipped(t).pos = Reach(i + 1)
  <2>1. CASE Nested(t.typ)
    <3>1. t.next = spans[i].end BY <1>2, <1>a, <2>1
    <3> QED BY <1>2, <1>4, <1>6, <2>1, <3>1
  <2>2. CASE ~Nested(t.typ) BY <1>4, <1>6, <1>a, <2>2
  <2> QED BY <2>1, <2>2
<1> QED BY <1>1, <1>2, <1>3, <1>7

-----------------------------------------------------------------------------
(* The inductive invariant: what holds of a reader that does c at p, with the
   token t and the loops s, before the value at i and after it has read x *)

CleanOf(vs, i) == \A j \in DOMAIN vs : j < i => ~Ext8(vs[j])
WholeOf(vs, i) == \A j \in DOMAIN vs : 1 < j /\ j < i => Whole(vs[j])

IterRead(v, span, val, c) ==
    /\ \/ (val = MeaningOf(v, span.body) <=> Kept(v))
       \/ c = "text" /\ IsNumber(v, val)
    /\ span.end <= lim
IterGot(x, c) == x.i # 0 /\ CleanOf(vals, x.i + 1) => IterRead(vals[x.i], spans[x.i], x.val, c)

NextAt(p, s, i, x) == s = <<>> /\ (CleanOf(vals, i) => p = Reach(i)) /\ IterGot(x, "next")

TokenIs(t, q, p, i) ==
    /\ t = Token(q) /\ HasToken(q) /\ p = t.next
    /\ CleanOf(vals, i) => i \in 1..Len(vals) /\ q = spans[i].start
TokenFrom(t, p, s, i) == s = <<>> /\ \E q \in Nat : TokenIs(t, q, p, i)

\* The values from i to j - 1 have been passed.
Passed(s, i, j, p) ==
    p = Reach(j) /\ Loops(s, NeededOf(vals, i)[j - 1]) /\ StillOpen(vals, i, j - 2)
LoopAt(p, s, i) ==
    /\ s \in Seq(Nat) /\ s # <<>>
    /\ CleanOf(vals, BehindOf(vals, i)) =>
          i <= Len(vals) /\ \E j \in (i + 1)..(Len(vals) + 1) : Passed(s, i, j, p)

DoneAt(s, i) ==
    CleanOf(vals, BehindOf(vals, i)) /\ i <= Len(vals) =>
       IF s = <<>> THEN lim < spans[i].end
                   ELSE BehindOf(vals, i) > Len(vals) + 1 \/ lim < Start(BehindOf(vals, i))
LostAt(s) == CleanOf(vals, Len(vals) + 1) => s # <<>> /\ lim < buf.len

OffsetAt(p, i, x) ==
    /\ p = Start(i) /\ i <= Len(vals) + 1
    /\ x.i # 0 =>
          /\ (x.val = MeaningOf(vals[x.i], spans[x.i].body)) <=> (Kept(vals[x.i]) /\ ~SignedLength(vals[x.i]))
          /\ p = spans[x.i].end
PanicAt(i) ==
    \/ vals[i].k = "bin" /\ SignedLength(vals[i])
    \/ Ext8(vals[i]) /\ lim = spans[i].end - 1

ElementRead(p, x) ==
    x.i # 0 /\ WholeOf(vals, x.i + 1) =>
       /\ (x.val = MeaningOf(vals[x.i], spans[x.i].body) <=> Kept(vals[x.i])) \/ IsNumber(vals[x.i], x.val)
       /\ p = spans[x.i].end
Counted(s, i) ==
    ~SignedLength(vals[1]) => NeededOf(vals, 1)[i - 1] = Head(s) /\ StillOpen(vals, 1, i - 2)
ElementAt(p, s, i, x) ==
    /\ Head(s) \in Nat /\ s = <<Head(s)>> /\ 2 <= i
    /\ SignedLength(vals[1]) => Head(s) = 0
    /\ WholeOf(vals, i) => p = Start(i) /\ i <= Len(vals) + 1 /\ Counted(s, i)
    /\ ElementRead(p, x)
AllWhole == WholeOf(vals, Len(vals) + 1) /\ lim = buf.len

Reads(c, p, t, s, i, x) ==
    /\ p \in Nat /\ p <= lim /\ i \in Nat /\ 1 <= i
    /\ c = "next" => NextAt(p, s, i, x)
    /\ c = "token" => TokenFrom(t, p, s, i)
    /\ c \in {"skip", "text"} => LoopAt(p, s, i)
    /\ c = "text" => IterGot(x, c)
    /\ c = "done" => DoneAt(s, i)
    /\ c = "lost" => LostAt(s)
    /\ c = "offset" => OffsetAt(p, i, x)
    /\ c = "failed" => lim < spans[i].end
    /\ c = "panic" => PanicAt(i)
    /\ c = "value" => x = Nothing
    /\ c = "element" => ElementAt(p, s, i, x)
    /\ c \in {"stray", "vpanic"} => ~AllWhole
    /\ c = "yielded" => (AllWhole => i = BehindOf(vals, 1) \/ SignedLength(vals[1]))
    /\ c = "emptied" => (AllWhole => BehindOf(vals, 1) > Len(vals) + 1)

Fresh == lim = 0 /\ pos = 0 /\ todo = <<>> /\ idx = 1 /\ got = Nothing

Inv ==
    /\ Written /\ lim \in Nat
    /\ pc = "write" => Fresh
    /\ pc # "write" => Opened
    /\ Reads(pc, pos, tok, todo, idx, got)

-----------------------------------------------------------------------------
(* Steps of a reader change neither the buffer nor what is to be read of it *)

LEMMA CellFrame ==
    ASSUME buf' = buf, NEW p
    PROVE  Cell(p)' = Cell(p)
BY DEF Cell

LEMMA RawFrame ==
    ASSUME buf' = buf, NEW p, NEW n
    PROVE  Raw(p, n)' = Raw(p, n)
<1>1. \A q : Cell(q)' = Cell(q) BY CellFrame
<1> QED BY <1>1 DEF Raw

LEMMA TokenFrame ==
    ASSUME buf' = buf, lim' = lim, NEW p
    PROVE  Token(p)' = Token(p) /\ (HasToken(p)' <=> HasToken(p))
<1>1. Cell(p)' = Cell(p) BY CellFrame
<1>2. \A q, n : Raw(q, n)' = Raw(q, n) BY RawFrame
<1>3. Token(p)' = Token(p) BY <1>1, <1>2 DEF Token
<1>4. \A q, n : Has(q, n)' <=> Has(q, n) BY DEF Has
<1>5. HasToken(p)' <=> HasToken(p) BY <1>1, <1>4 DEF HasToken
<1> QED BY <1>3, <1>5

LEMMA WrittenFrame ==
    ASSUME Written, written' = written
    PROVE  Written'
<1>1. vals' = vals /\ spans' = spans /\ buf' = buf BY DEF written
<1>2. \A p : Cell(p)' = Cell(p) BY <1>1, CellFrame
<1>3. \A i : Start(i)' = Start(i) BY <1>1 DEF Start
<1>4. \A h, p : Lies(h, p)' <=> Lies(h, p) BY <1>2 DEF Lies
<1>5. \A i : Placed(i)' <=> Placed(i) BY <1>1, <1>3, <1>4 DEF Placed
<1>6. Bytewise' <=> Bytewise BY <1>1 DEF Bytewise
<1>7. Within' <=> Within BY <1>1 DEF Within
<1> QED BY <1>1, <1>3, <1>5, <1>6, <1>7 DEF Written

LEMMA OpenedFrame ==
    ASSUME Opened, written' = written, lim' = lim
    PROVE  Opened'
BY DEF Opened, written

LEMMA ReachFrame ==
    ASSUME written' = written, lim' = lim, NEW i
    PROVE  Start(i)' = Start(i) /\ Reach(i)' = Reach(i)
<1>1. vals' = vals /\ spans' = spans /\ buf' = buf BY DEF written
<1>2. Start(i)' = Start(i) BY <1>1 DEF Start
<1> QED BY <1>1, <1>2 DEF Reach

LEMMA TokenFromFrame ==
    ASSUME written' = written, lim' = lim, NEW t, NEW p, NEW s, NEW i
    PROVE  TokenFrom(t, p, s, i)' <=> TokenFrom(t, p, s, i)
<1>1. vals' = vals /\ spans' = spans /\ buf' = buf BY DEF written
<1>2. \A q : Token(q)' = Token(q) /\ (HasToken(q)' <=> HasToken(q)) BY <1>1, TokenFrame
<1>3. ASSUME NEW q PROVE TokenIs(t, q, p, i)' <=> TokenIs(t, q, p, i)
    BY <1>1, <1>2 DEF TokenIs
<1> QED BY <1>3 DEF TokenFrom

LEMMA LoopAtFrame ==
    ASSUME written' = written, lim' = lim, NEW p, NEW s, NEW i
    PROVE  LoopAt(p, s, i)' <=> LoopAt(p, s, i)
<1>1. vals' = vals /\ spans' = spans /\ buf' = buf BY DEF written
<1>2. \A j : Reach(j)' = Reach(j) BY ReachFrame
<1>3. ASSUME NEW j PROVE Passed(s, i, j, p)' <=> Passed(s, i, j, p) BY <1>1, <1>2 DEF Passed
<1> QED BY <1>1, <1>3 DEF LoopAt

LEMMA NextAtFrame ==
    ASSUME written' = written, lim' = lim, NEW p, NEW s, NEW i, NEW x, NEW c
    PROVE  /\ NextAt(p, s, i, x)' <=> NextAt(p, s, i, x)
           /\ IterGot(x, c)' <=> IterGot(x, c)
<1>1. vals' = vals /\ spans' = spans /\ buf' = buf BY DEF written
<1>2. \A j : Reach(j)' = Reach(j) BY ReachFrame
<1>3. ASSUME NEW d PROVE IterGot(x, d)' <=> IterGot(x, d)
  <2>1. \A v, sp, val : IterRead(v, sp, val, d)' <=> IterRead(v, sp, val, d) BY DEF IterRead
  <2> QED BY <1>1, <2>1 DEF IterGot
<1> QED BY <1>1, <1>2, <1>3 DEF NextAt

LEMMA OthersFrame ==
    ASSUME written' = written, lim' = lim, NEW p, NEW s, NEW i, NEW x
    PROVE  /\ DoneAt(s, i)' <=> DoneAt(s, i)
           /\ (LostAt(s)' <=> LostAt(s)) /\ (AllWhole' <=> AllWhole)
           /\ OffsetAt(p, i, x)' <=> OffsetAt(p, i, x)
           /\ PanicAt(i)' <=> PanicAt(i)
<1>1. vals' = vals /\ spans' = spans /\ buf' = buf BY DEF written
<1>2. \A j : Start(j)' = Start(j) BY ReachFrame
<1>3. DoneAt(s, i)' <=> DoneAt(s, i) BY <1>1, <1>2 DEF DoneAt
<1>4. (LostAt(s)' <=> LostAt(s)) /\ (AllWhole' <=> AllWhole) BY <1>1 DEF LostAt, AllWhole
<1>5. OffsetAt(p, i, x)' <=> OffsetAt(p, i, x) BY <1>1, <1>2 DEF OffsetAt
<1>6. PanicAt(i)' <=> PanicAt(i) BY <1>1 DEF PanicAt
<1> QED BY <1>3, <1>4, <1>5, <1>6

LEMMA ElementAtFrame ==
    ASSUME written' = written, lim' = lim, NEW p, NEW s, NEW i, NEW x
    PROVE  ElementAt(p, s, i, x)' <=> ElementAt(p, s, i, x)
<1>1. vals' = vals /\ spans' = spans /\ buf' = buf BY DEF written
<1>2. \A j : Start(j)' = Start(j) BY ReachFrame
<1>3. Counted(s, i)' <=> Counted(s, i) BY <1>1 DEF Counted
<1>4. ElementRead(p, x)' <=> ElementRead(p, x) BY <1>1 DEF ElementRead
<1> QED BY <1>1, <1>2, <1>3, <1>4 DEF ElementAt

LEMMA ReadsFrame ==
    ASSUME written' = written, lim' = lim, NEW c, NEW p, NEW t, NEW s, NEW i, NEW x
    PROVE  Reads(c, p, t, s, i, x)' <=> Reads(c, p, t, s, i, x)
<1>1. vals' = vals /\ spans' = spans /\ buf' = buf BY DEF written
<1>2. TokenFrom(t, p, s, i)' <=> TokenFrom(t, p, s, i) BY TokenFromFrame
<1>3. LoopAt(p, s, i)' <=> LoopAt(p, s, i) BY LoopAtFrame
<1>4. NextAt(p, s, i, x)' <=> NextAt(p, s, i, x) BY NextAtFrame
<1>5. IterGot(x, c)' <=> IterGot(x, c) BY NextAtFrame
<1>6. /\ DoneAt(s, i)' <=> DoneAt(s, i)
      /\ (LostAt(s)' <=> LostAt(s)) /\ (AllWhole' <=> AllWhole)
      /\ OffsetAt(p, i, x)' <=> OffsetAt(p, i, x)
      /\ PanicAt(i)' <=> PanicAt(i)
    BY OthersFrame
<1>7. ElementAt(p, s, i, x)' <=> ElementAt(p, s, i, x) BY ElementAtFrame
<1> QED BY <1>1, <1>2, <1>3, <1>4, <1>5, <1>6, <1>7 DEF Reads

\* A step of a reader.
LEMMA ReaderStep ==
    ASSUME Inv, pc # "write", written' = written, lim' = lim, pc' # "write",
           Reads(pc', pos', tok', todo', idx', got')
    PROVE  Inv'
<1>1. Written /\ Opened /\ lim \in Nat BY DEF Inv
<1>2. Written' BY <1>1, WrittenFrame
<1>3. Opened' BY <1>1, OpenedFrame
<1>4. lim' \in Nat BY <1>1
<1>5. Reads(pc, pos, tok, todo, idx, got)'
  <2>1. \A c, p, t, s, i, x : Reads(c, p, t, s, i, x)' <=> Reads(c, p, t, s, i, x) BY ReadsFrame
  <2> QED BY <2>1
<1> QED BY <1>2, <1>3, <1>4, <1>5 DEF Inv

LEMMA Initially ==
    ASSUME Init
    PROVE  Inv
<1>1. vals = <<>> /\ spans = <<>> /\ buf.len = 0 /\ buf.at = <<>> BY DEF Init
<1>2. Len(vals) = 0 /\ Len(spans) = 0 BY <1>1
<1>3. vals \in Seq(Value) /\ spans \in Seq(Span) BY <1>1
<1>4. DOMAIN buf.at = {} BY <1>1
<1>5. Within /\ Bytewise BY <1>1, <1>4 DEF Within, Bytewise
<1>6. Start(1) = 0 BY <1>1, <1>2 DEF Start
<1>7. Written BY <1>2, <1>3, <1>5, <1>6 DEF Written
<1>8. Fresh /\ pc = "write" /\ lim \in Nat BY DEF Init, Fresh
<1>9. Reads(pc, pos, tok, todo, idx, got) BY <1>8 DEF Reads, Fresh
<1> QED BY <1>7, <1>8, <1>9 DEF Inv

\* What a buffer holds is not changed by what is appended to it.
LEMMA ExtendedIs ==
    ASSUME Within, Bytewise, NEW h \in Seq(Byte), NEW m \in Nat, NEW e, e.head = h, e.body = m, buf' = Extended(buf, e)
    PROVE  /\ buf'.len = buf.len + Len(h) + m /\ Within' /\ Bytewise'
           /\ \A p \in Nat : p < buf.len => Cell(p)' = Cell(p)
           /\ \A p \in Nat, j \in 1..Len(h) : p = buf.len + j - 1 => Cell(p)' = h[j]
<1>0. PICK l \in Nat, n \in Nat : l = buf.len /\ n = Len(h) BY DEF Within
<1>2. /\ buf'.len = l + n + m
      /\ buf'.at = [p \in DOMAIN buf.at \cup l..(l + n - 1) |->
                       IF p < l THEN buf.at[p] ELSE h[p - l + 1]]
    BY <1>0 DEF Extended
<1>3. DOMAIN buf'.at = DOMAIN buf.at \cup l..(l + n - 1) BY <1>2
<1>4. \A p \in DOMAIN buf'.at : buf'.at[p] = IF p < l THEN buf.at[p] ELSE h[p - l + 1] BY <1>2
<1>5. \A p \in DOMAIN buf.at : p \in Nat /\ p < l BY <1>0 DEF Within
<1>6. Within'
  <2>1. buf'.len \in Nat BY <1>0, <1>2
  <2>2. ASSUME NEW p \in DOMAIN buf'.at PROVE p \in Nat /\ p < buf'.len
    <3>1. p \in DOMAIN buf.at \/ p \in l..(l + n - 1) BY <1>3
    <3> QED BY <1>0, <1>2, <1>5, <3>1
  <2> QED BY <2>1, <2>2 DEF Within
<1>7. Bytewise'
  <2>1. ASSUME NEW p \in DOMAIN buf'.at PROVE buf'.at[p] \in Byte
    <3>1. CASE p \in DOMAIN buf.at
      <4>1. buf'.at[p] = buf.at[p] BY <1>4, <1>5, <3>1
      <4> QED BY <3>1, <4>1 DEF Bytewise
    <3>2. CASE p \in l..(l + n - 1)
      <4>1. buf'.at[p] = h[p - l + 1] BY <1>0, <1>4, <3>2
      <4>2. p - l + 1 \in 1..n BY <1>0, <3>2
      <4>3. h[p - l + 1] \in Byte BY <1>0, <4>2
      <4> QED BY <4>1, <4>3
    <3> QED BY <1>3, <3>1, <3>2
  <2> QED BY <2>1 DEF Bytewise
<1>8. ASSUME NEW p \in Nat, p < l PROVE Cell(p)' = Cell(p)
  <2>1. p \in DOMAIN buf'.at <=> p \in DOMAIN buf.at BY <1>0, <1>3, <1>8
  <2>2. p \in DOMAIN buf.at => buf'.at[p] = buf.at[p] BY <1>3, <1>4, <1>8
  <2> QED BY <2>1, <2>2 DEF Cell
<1>9. ASSUME NEW p \in Nat, NEW j \in 1..n, p = l + j - 1 PROVE Cell(p)' = h[j]
  <2>1. p \in DOMAIN buf'.at BY <1>0, <1>3, <1>9
  <2>a. ~(p < l) BY <1>0, <1>9
  <2>2. buf'.at[p] = h[p - l + 1] BY <1>4, <2>1, <2>a
  <2>3. p - l + 1 = j BY <1>0, <1>9
  <2> QED BY <2>1, <2>2, <2>3 DEF Cell
<1>10. \A p \in Nat : p < buf.len => Cell(p)' = Cell(p) BY <1>0, <1>8
<1>11. \A p \in Nat, j \in 1..Len(h) : p = buf.len + j - 1 => Cell(p)' = h[j] BY <1>0, <1>9
<1> QED BY <1>0, <1>2, <1>6, <1>7, <1>10, <1>11

LEMMA AppendIs ==
    ASSUME NEW S, NEW s \in Seq(S), NEW x \in S
    PROVE  /\ Append(s, x) \in Seq(S) /\ Len(Append(s, x)) = Len(s) + 1
           /\ \A i \in 1..Len(s) : Append(s, x)[i] = s[i]
           /\ Append(s, x)[Len(s) + 1] = x
OBVIOUS

LEMMA WritePreserves ==
    ASSUME Inv, NEW v \in Values, Write(v)
    PROVE  Inv'
<1>0. Written /\ pc = "write" /\ Fresh /\ v \in Value BY MsgpackAssumption DEF Inv, Write
<1>1. PICK e : e = Encode(v) BY Zenon
<1>2. PICK h, m : h = e.head /\ m = e.body BY Zenon
<1>3. Encodes(v, h, m) BY <1>0, <1>1, <1>2, RoundTrip, Zenon DEF EncodesAs
<1>4. h \in Seq(Byte) /\ Len(h) >= 1 /\ m \in Nat BY <1>3, Zenon DEF Encodes
<1>5. PICK l \in Nat, n \in Nat, N \in Nat : l = buf.len /\ n = Len(h) /\ N = Len(vals) /\ n >= 1
    BY <1>0, <1>4 DEF Written, Within
<1>a. PICK b \in Nat, c \in Nat : b = l + n /\ c = l + n + m BY <1>4, <1>5
<1>b. [start |-> l, body |-> b, end |-> c] \in Span BY DEF Span
<1>6. PICK sp \in Span : sp = [start |-> l, body |-> b, end |-> c] BY <1>b
<1>c. sp.start = l /\ sp.body = l + n /\ sp.end = l + n + m BY <1>a, <1>6
<1>7. /\ buf' = Extended(buf, e) /\ vals' = Append(vals, v) /\ spans' = Append(spans, sp)
      /\ UNCHANGED <<lim, pc, pos, tok, todo, idx, got>>
    BY <1>1, <1>2, <1>5, <1>6, <1>a DEF Write
<1>8. /\ vals \in Seq(Value) /\ spans \in Seq(Span) /\ Len(spans) = N
      /\ Within /\ Bytewise /\ Start(1) = 0 /\ \A i \in 1..N : Placed(i)
    BY <1>0, <1>5 DEF Written
<1>9. /\ vals' \in Seq(Value) /\ Len(vals') = N + 1 /\ vals'[N + 1] = v
      /\ \A i \in 1..N : vals'[i] = vals[i]
    BY <1>0, <1>5, <1>7, <1>8, AppendIs
<1>10. /\ spans' \in Seq(Span) /\ Len(spans') = N + 1 /\ spans'[N + 1] = sp
       /\ \A i \in 1..N : spans'[i] = spans[i]
    BY <1>7, <1>8, AppendIs
<1>11. /\ buf'.len = l + n + m /\ Within' /\ Bytewise'
       /\ \A p \in Nat : p < l => Cell(p)' = Cell(p)
       /\ \A p \in Nat, j \in 1..n : p = l + j - 1 => Cell(p)' = h[j]
  <2>1. h \in Seq(Byte) /\ m \in Nat /\ e.head = h /\ e.body = m /\ buf' = Extended(buf, e) BY <1>2, <1>4, <1>7
  <2>2. /\ buf'.len = buf.len + Len(h) + m /\ Within' /\ Bytewise'
        /\ \A p \in Nat : p < buf.len => Cell(p)' = Cell(p)
        /\ \A p \in Nat, j \in 1..Len(h) : p = buf.len + j - 1 => Cell(p)' = h[j]
      BY <1>8, <2>1, ExtendedIs
  <2> QED BY <1>5, <2>2
<1>12. \A i \in 1..(N + 1) : Start(i)' = Start(i)
  <2>1. ASSUME NEW i \in 1..(N + 1) PROVE Start(i)' = Start(i)
    <3>1. CASE i <= N
      <4>1. Start(i)' = spans'[i].start BY <1>9, <3>1 DEF Start
      <4>2. Start(i) = spans[i].start BY <1>5, <3>1 DEF Start
      <4> QED BY <1>10, <3>1, <4>1, <4>2
    <3>2. CASE i = N + 1
      <4>1. Start(i)' = spans'[i].start BY <1>9, <3>2 DEF Start
      <4>2. Start(i) = l BY <1>5, <3>2 DEF Start
      <4> QED BY <1>10, <1>c, <3>2, <4>1, <4>2
    <3> QED BY <3>1, <3>2
  <2> QED BY <2>1
<1>13. ASSUME NEW i \in 1..N PROVE Placed(i)'
  <2>1. Placed(i) /\ i \in 1..Len(vals) BY <1>5, <1>8
  <2>2. /\ vals[i] \in Value /\ spans[i].start \in Nat /\ spans[i].body \in Nat /\ spans[i].end \in Nat
        /\ spans[i].body <= spans[i].end /\ spans[i].end <= l /\ Start(i + 1) = spans[i].end
      BY <1>0, <1>5, <2>1, SpanAt
  <2>3. vals'[i] = vals[i] /\ spans'[i] = spans[i] BY <1>9, <1>10
  <2>4. PICK g : g = Encode(vals[i]).head BY Zenon
  <2>5. Encodes(vals[i], g, Encode(vals[i]).body) BY <2>2, <2>4, RoundTrip, Zenon DEF EncodesAs
  <2>6. g \in Seq(Byte) BY <2>5, Zenon DEF Encodes
  <2>7. Lies(g, spans[i].start) /\ spans[i].body = spans[i].start + Len(g) BY <2>1, <2>4 DEF Placed
  <2>8. PICK q \in Nat, k \in Nat : q = spans[i].start /\ k = Len(g) /\ q + k <= l
      BY <1>5, <2>2, <2>6, <2>7
  <2>9. Lies(g, q)'
    <3>1. ASSUME NEW j \in 1..k PROVE Cell(q + j - 1)' = g[j]
      <4>1. PICK p \in Nat : p = q + j - 1 BY <2>8
      <4>2. p < l BY <1>5, <2>8, <4>1, SMTT(30)
      <4>3. Cell(p)' = Cell(p) BY <1>11, <4>2
      <4>4. Cell(p) = g[j] BY <2>7, <2>8, <4>1 DEF Lies
      <4> QED BY <4>1, <4>3, <4>4
    <3> QED BY <2>8, <3>1 DEF Lies
  <2>10. Lies(Encode(vals[i]).head, spans[i].start)'
    <3>1. spans'[i].start = q /\ Encode(vals'[i]).head = g BY <2>3, <2>4, <2>8
    <3>2. \A a, d : a = g /\ d = q => (Lies(a, d)' <=> Lies(g, q)') OBVIOUS
    <3> QED BY <2>9, <3>1, <3>2
  <2>11. Start(i + 1)' = spans[i].end BY <1>12, <2>2
  <2>12. spans[i].end <= buf'.len BY <1>4, <1>5, <1>11, <2>2
  <2>13. ASSUME NEW j \in 1..(N + 1), i < j PROVE spans[i].end <= spans'[j].start
    <3>1. CASE j <= N
      <4>1. spans[i].end <= spans[j].start BY <1>5, <2>1, <2>13, <3>1 DEF Placed
      <4> QED BY <1>10, <3>1, <4>1
    <3>2. CASE j = N + 1 BY <1>10, <1>c, <2>2, <3>2
    <3> QED BY <3>1, <3>2
  <2> QED BY <1>9, <2>1, <2>3, <2>10, <2>11, <2>12, <2>13 DEF Placed
<1>14. Placed(N + 1)'
  <2>1. Lies(h, l)'
    <3>1. ASSUME NEW j \in 1..n PROVE Cell(l + j - 1)' = h[j]
      <4>1. PICK p \in Nat : p = l + j - 1 BY <1>5
      <4>2. Cell(p)' = h[j] BY <1>11, <4>1
      <4> QED BY <4>1, <4>2
    <3> QED BY <1>5, <3>1 DEF Lies
  <2>2. Start(N + 2)' = buf'.len BY <1>9 DEF Start
  <2>3. Start(N + 1 + 1)' = buf'.len BY <2>2
  <2>4. Encode(vals'[N + 1]).head = h /\ Encode(vals'[N + 1]).body = m BY <1>1, <1>2, <1>9
  <2>5. Lies(Encode(vals[N + 1]).head, spans[N + 1].start)'
    <3>1. spans'[N + 1].start = l BY <1>10, <1>c
    <3>2. \A a, d : a = h /\ d = l => (Lies(a, d)' <=> Lies(h, l)') OBVIOUS
    <3> QED BY <2>1, <2>4, <3>1, <3>2
  <2>6. \A j \in 1..Len(vals') : ~(N + 1 < j) BY <1>9
  <2> QED BY <1>4, <1>5, <1>9, <1>10, <1>11, <1>c, <2>3, <2>4, <2>5, <2>6 DEF Placed
<1>15. Start(1)' = 0 BY <1>8, <1>12
<1>16. \A i \in 1..Len(vals') : Placed(i)'
  <2>1. ASSUME NEW i \in 1..(N + 1) PROVE Placed(i)'
    <3>1. CASE i = N + 1 BY <1>14, <3>1
    <3>2. CASE i # N + 1 BY <1>13, <3>2
    <3> QED BY <3>1, <3>2
  <2> QED BY <1>9, <2>1
<1>17. Written' BY <1>9, <1>10, <1>11, <1>15, <1>16 DEF Written
<1>18. Fresh' /\ pc' = "write" BY <1>0, <1>7 DEF Fresh
<1>19. Reads(pc, pos, tok, todo, idx, got)' BY <1>18 DEF Reads, Fresh
<1>20. lim' \in Nat BY <1>18 DEF Fresh
<1> QED BY <1>17, <1>18, <1>19, <1>20 DEF Inv

LEMMA OpenPreserves ==
    ASSUME Inv, NEW r \in {"next", "offset", "value"}, Open(r)
    PROVE  Inv'
<1>0. /\ Written /\ Fresh /\ vals # <<>>
      /\ \E n \in Cuts \cup {0} : \/ lim' = buf.len - n /\ spans[Len(vals)].start <= lim'
                                  \/ lim' = spans[Len(vals)].start + n /\ lim' <= buf.len
      /\ pc' = r /\ UNCHANGED <<written, pos, tok, todo, idx, got>>
    BY DEF Inv, Open
<1>1. vals' = vals /\ spans' = spans /\ buf' = buf /\ written' = written BY <1>0 DEF written
<1>2. PICK N \in Nat : N = Len(vals) /\ N \in 1..Len(vals) BY <1>0 DEF Written
<1>3. /\ spans[N].start \in Nat /\ spans[N].body \in Nat /\ spans[N].end \in Nat
      /\ spans[N].start < spans[N].body /\ spans[N].body <= spans[N].end /\ spans[N].end <= buf.len
    BY <1>0, <1>2, SpanAt
<1>4. buf.len \in Nat BY <1>0 DEF Written, Within
<1>5. lim' \in Nat /\ spans[N].start <= lim' /\ lim' <= buf.len
  <2>1. PICK n \in Cuts \cup {0} : \/ lim' = buf.len - n /\ spans[N].start <= lim'
                                   \/ lim' = spans[N].start + n /\ lim' <= buf.len
      BY <1>0, <1>2
  <2>2. n \in Nat BY MsgpackAssumption
  <2> QED BY <1>3, <1>4, <2>1, <2>2
<1>6. Written' BY <1>0, <1>1, WrittenFrame
<1>7. Opened' BY <1>0, <1>1, <1>2, <1>5 DEF Opened
<1>8. pos' = 0 /\ todo' = <<>> /\ idx' = 1 /\ got' = Nothing /\ Nothing.i = 0 BY <1>0 DEF Fresh, Nothing
<1>9. Start(1)' = 0 BY <1>6 DEF Written
<1>10. Reach(1)' = 0 BY <1>5, <1>9 DEF Reach
<1>11. IterGot(got, "next")' BY <1>8 DEF IterGot
<1>12. NextAt(pos, todo, idx, got)'
  <2>1. \A i : i = 1 => Reach(i)' = Reach(1)' OBVIOUS
  <2>2. Reach(idx)' = 0 BY <1>8, <1>10, <2>1
  <2> QED BY <1>8, <1>11, <2>2 DEF NextAt
<1>13. OffsetAt(pos, idx, got)'
  <2>1. \A i : i = 1 => Start(i)' = Start(1)' OBVIOUS
  <2>2. Start(idx)' = 0 BY <1>8, <1>9, <2>1
  <2>3. Len(vals') \in Nat BY <1>1, <1>2
  <2> QED BY <1>8, <2>2, <2>3 DEF OffsetAt
<1>14. Reads(pc, pos, tok, todo, idx, got)' BY <1>0, <1>5, <1>8, <1>12, <1>13 DEF Reads
<1> QED BY <1>0, <1>5, <1>6, <1>7, <1>14 DEF Inv

-----------------------------------------------------------------------------
(* Values before which none has an ext8 header *)

LEMMA CleanLess ==
    ASSUME vals \in Seq(Value), NEW i \in Int, NEW j \in Int, i <= j, CleanOf(vals, j)
    PROVE  CleanOf(vals, i)
BY DEF CleanOf

LEMMA CleanAll ==
    ASSUME vals \in Seq(Value), NEW i \in Int, CleanOf(vals, Len(vals) + 1)
    PROVE  CleanOf(vals, i)
BY DEF CleanOf

LEMMA CleanBehind ==
    ASSUME vals \in Seq(Value), NEW i \in Nat, 1 <= i, CleanOf(vals, BehindOf(vals, i))
    PROVE  CleanOf(vals, i) /\ (i <= Len(vals) => ~Ext8(vals[i]))
<1>1. PICK vs \in Seq(Value) : vs = vals OBVIOUS
<1>2. /\ BehindOf(vs, i) \in Nat /\ i <= Len(vs) => i < BehindOf(vs, i)
    BY <1>1, BehindType
<1>3. /\ BehindOf(vs, i) \in Nat /\ BehindOf(vs, i) <= Len(vs) + 2
      /\ i > Len(vs) => BehindOf(vs, i) = Len(vs) + 2
    BY <1>1, BehindType
<1>4. PICK b \in Nat : b = BehindOf(vs, i) BY <1>3
<1>5. CleanOf(vs, b) BY <1>1, <1>4
<1>6. CASE i <= Len(vs)
  <2>1. i < b BY <1>2, <1>4, <1>6
  <2>2. i \in DOMAIN vs BY <1>6
  <2> QED BY <1>1, <1>5, <2>1, <2>2 DEF CleanOf
<1>7. CASE ~(i <= Len(vs))
  <2>1. b = Len(vs) + 2 BY <1>3, <1>4, <1>7
  <2> QED BY <1>1, <1>5, <1>7, <2>1 DEF CleanOf
<1> QED BY <1>6, <1>7

-----------------------------------------------------------------------------
(* The steps of the iterator *)

LEMMA ReadAt ==
    ASSUME Written, lim \in Nat, NEW i \in 1..Len(vals), ~Ext8(vals[i]), NEW p, p = spans[i].start,
           NEW t, t = Token(p), t.next + t.length <= lim
    PROVE  /\ IterRead(vals[i], spans[i], Any(t, IsTime(i)), "next")
           /\ IterRead(vals[i], spans[i], Any(t, FALSE), "text")
<1>1. PICK v, b, end : v = vals[i] /\ b = spans[i].body /\ end = spans[i].end BY Zenon
<1>2. Good(v, p, b, end) BY <1>1, GoodAt, Zenon
<1>3. AnyGood(v, p, b) BY <1>2, Zenon DEF Good
<1>4. t.next + t.length = IF Ext8(v) THEN end - 1 ELSE end BY <1>1, TokenAt
<1>5. ~Ext8(v) => end <= lim BY <1>4
<1>6. IsTime(i) <=> v.k = "time" BY <1>1 DEF IsTime, Written
<1>7. Any(t, IsTime(i)) = Any(t, v.k = "time")
  <2>1. CASE v.k = "time"
    <3>1. IsTime(i) = TRUE /\ (v.k = "time") = TRUE BY <1>6, <2>1, Zenon DEF IsTime
    <3> QED BY <3>1, Zenon
  <2>2. CASE v.k # "time"
    <3>1. IsTime(i) = FALSE /\ (v.k = "time") = FALSE BY <1>6, <2>2, Zenon DEF IsTime
    <3> QED BY <3>1, Zenon
  <2> QED BY <2>1, <2>2, Zenon
<1>8. ~Ext8(v) BY <1>1
<1>9. /\ Any(t, v.k = "time") = MeaningOf(v, b) <=> Kept(v)
      /\ \/ Any(t, FALSE) = MeaningOf(v, b) <=> Kept(v)
         \/ IsNumber(v, Any(t, FALSE))
    BY <1>1, <1>3, <1>8, Zenon DEF AnyGood
<1>10. Any(t, IsTime(i)) = MeaningOf(v, b) <=> Kept(v) BY <1>7, <1>9, Zenon
<1>11. end <= lim BY <1>5, <1>8
<1>12. IterRead(vals[i], spans[i], Any(t, IsTime(i)), "next") BY <1>1, <1>10, <1>11, Zenon DEF IterRead
<1>13. IterRead(vals[i], spans[i], Any(t, FALSE), "text") BY <1>1, <1>9, <1>11, Zenon DEF IterRead
<1> QED BY <1>12, <1>13, Zenon

LEMMA NotBehind ==
    ASSUME Written, Opened, NEW i \in Nat, 1 <= i,
           NEW p, CleanOf(vals, i) => p = Reach(i), ~HasToken(p)
    PROVE  DoneAt(<<>>, i)
<1>0. vals \in Seq(Value) /\ lim \in Nat BY DEF Written, Opened
<1>1. ASSUME CleanOf(vals, BehindOf(vals, i)), i <= Len(vals)
      PROVE  lim < spans[i].end
  <2>1. CleanOf(vals, i) /\ ~Ext8(vals[i]) BY <1>0, <1>1, CleanBehind
  <2>2. i \in 1..Len(vals) BY <1>0, <1>1
  <2>3. p = spans[i].start BY <1>1, <2>1, ReachIs
  <2> QED BY <1>0, <2>1, <2>2, <2>3, NotFound
<1> QED BY <1>1 DEF DoneAt

LEMMA IterNextPreserves ==
    ASSUME Inv, IterNext
    PROVE  Inv'
<1>0. Written /\ Opened /\ pc = "next" /\ Reads(pc, pos, tok, todo, idx, got) BY DEF Inv, IterNext
<1>1. pos \in Nat /\ pos <= lim /\ idx \in Nat /\ 1 <= idx /\ NextAt(pos, todo, idx, got) BY <1>0 DEF Reads
<1>2. todo = <<>> /\ (CleanOf(vals, idx) => pos = Reach(idx)) BY <1>1 DEF NextAt
<1>3. written' = written /\ lim' = lim /\ todo' = todo /\ idx' = idx BY DEF IterNext
<1>4. vals \in Seq(Value) /\ lim \in Nat /\ Bytewise BY <1>0 DEF Written, Opened
<1>5. CASE HasToken(pos) /\ Cell(pos) # Unknown
  <2>1. tok' = Token(pos) /\ pos' = Token(pos).next /\ pc' = "token" BY <1>5 DEF IterNext
  <2>2. pos' \in Nat /\ pos' <= lim BY <1>1, <1>4, <1>5, <2>1, TokenType
  <2>3. CleanOf(vals, idx) => idx \in 1..Len(vals) /\ pos = spans[idx].start BY <1>0, <1>1, <1>2, <1>5, Found
  <2>4. TokenIs(tok', pos, pos', idx) BY <1>5, <2>1, <2>3 DEF TokenIs
  <2>5. TokenFrom(tok', pos', todo', idx') BY <1>1, <1>2, <1>3, <2>4 DEF TokenFrom
  <2>6. Reads(pc', pos', tok', todo', idx', got') BY <1>1, <1>3, <2>1, <2>2, <2>5 DEF Reads
  <2> QED BY <1>0, <1>3, <2>1, <2>6, ReaderStep
<1>6. CASE ~HasToken(pos)
  <2>1. pc' = "done" /\ pos' = pos BY <1>6 DEF IterNext
  <2>2. DoneAt(<<>>, idx) BY <1>0, <1>1, <1>2, <1>6, NotBehind
  <2>3. Reads(pc', pos', tok', todo', idx', got') BY <1>1, <1>2, <1>3, <2>1, <2>2 DEF Reads
  <2> QED BY <1>0, <1>3, <2>1, <2>3, ReaderStep
<1>7. CASE HasToken(pos) /\ Cell(pos) = Unknown
  <2>1. pc' = "lost" /\ pos' = pos BY <1>7 DEF IterNext
  <2>2. LostAt(todo')
    <3>1. ASSUME CleanOf(vals, Len(vals) + 1) PROVE FALSE
      <4>1. pos = Reach(idx) BY <1>1, <1>2, <1>4, <3>1, CleanAll
      <4> QED BY <1>0, <1>1, <1>7, <4>1, Found
    <3> QED BY <3>1 DEF LostAt
  <2>3. Reads(pc', pos', tok', todo', idx', got') BY <1>1, <1>3, <2>1, <2>2 DEF Reads
  <2> QED BY <1>0, <1>3, <2>1, <2>3, ReaderStep
<1> QED BY <1>5, <1>6, <1>7

LEMMA ReadPreserves ==
    ASSUME Inv, Read
    PROVE  Inv'
<1>0. Written /\ Opened /\ pc = "token" /\ Reads(pc, pos, tok, todo, idx, got) BY DEF Inv, Read
<1>1. pos \in Nat /\ pos <= lim /\ idx \in Nat /\ 1 <= idx /\ TokenFrom(tok, pos, todo, idx) BY <1>0 DEF Reads
<1>2. PICK q \in Nat : todo = <<>> /\ TokenIs(tok, q, pos, idx) BY <1>1 DEF TokenFrom
<1>3. /\ tok = Token(q) /\ HasToken(q) /\ pos = tok.next
      /\ CleanOf(vals, idx) => idx \in 1..Len(vals) /\ q = spans[idx].start
    BY <1>2 DEF TokenIs
<1>4. vals \in Seq(Value) /\ lim \in Nat /\ Bytewise BY <1>0 DEF Written, Opened
<1>5. tok.length \in Nat BY <1>3, <1>4, TokenType
<1>6. written' = written /\ lim' = lim /\ todo' = todo BY DEF Read
<1>7. CASE Has(pos, tok.length)
  <2>1. PICK x : x = Any(tok, IsTime(idx)) BY Zenon
  <2>2. got' = [i |-> idx, val |-> x] /\ pos' = pos + tok.length /\ idx' = idx + 1 /\ pc' = "next"
      BY <1>7, <2>1 DEF Read
  <2>3. pos + tok.length <= lim BY <1>7 DEF Has
  <2>4. IterGot(got', "next")
    <3>1. got'.i = idx /\ got'.val = x BY <2>2
    <3>2. ASSUME CleanOf(vals, idx + 1) PROVE IterRead(vals[idx], spans[idx], x, "next")
      <4>0. CleanOf(vals, idx) BY <1>1, <1>4, <3>2, CleanLess
      <4>1. /\ idx \in 1..Len(vals) /\ ~Ext8(vals[idx]) /\ q = spans[idx].start
            /\ tok.next + tok.length <= lim
          BY <1>1, <1>3, <2>3, <3>2, <4>0 DEF CleanOf
      <4>2. IterRead(vals[idx], spans[idx], Any(tok, IsTime(idx)), "next") BY <1>0, <1>3, <1>4, <4>1, ReadAt, Zenon
      <4> QED BY <2>1, <4>2, Zenon
    <3> QED BY <3>1, <3>2 DEF IterGot
  <2>5. ASSUME CleanOf(vals, idx + 1) PROVE pos' = Reach(idx + 1)
    <3>1. CleanOf(vals, idx) BY <1>1, <1>4, <2>5, CleanLess
    <3>2. idx \in 1..Len(vals) /\ q = spans[idx].start BY <1>3, <3>1
    <3>3. ~Ext8(vals[idx]) BY <1>4, <2>5, <3>2 DEF CleanOf
    <3>4. tok.next + tok.length = IF Ext8(vals[idx]) THEN spans[idx].end - 1 ELSE spans[idx].end
        BY <1>0, <1>3, <1>4, <3>2, TokenAt
    <3>5. Start(idx + 1) = spans[idx].end BY <1>0, <3>2, SpanAt
    <3> QED BY <1>3, <2>2, <2>3, <3>3, <3>4, <3>5 DEF Reach
  <2>6. NextAt(pos', todo', idx', got') BY <1>2, <1>6, <2>2, <2>4, <2>5 DEF NextAt
  <2>7. Reads(pc', pos', tok', todo', idx', got') BY <1>1, <1>5, <2>2, <2>3, <2>6 DEF Reads
  <2> QED BY <1>0, <1>6, <2>2, <2>7, ReaderStep
<1>8. CASE ~Has(pos, tok.length)
  <2>1. pc' = "done" /\ pos' = pos /\ idx' = idx BY <1>8 DEF Read
  <2>2. DoneAt(<<>>, idx)
    <3>1. ASSUME CleanOf(vals, BehindOf(vals, idx)), idx <= Len(vals) PROVE lim < spans[idx].end
      <4>1. CleanOf(vals, idx) /\ ~Ext8(vals[idx]) BY <1>1, <1>4, <3>1, CleanBehind
      <4>2. idx \in 1..Len(vals) /\ q = spans[idx].start BY <1>3, <4>1
      <4>3. tok.next + tok.length = IF Ext8(vals[idx]) THEN spans[idx].end - 1 ELSE spans[idx].end
          BY <1>0, <1>3, <1>4, <4>2, TokenAt
      <4> QED BY <1>1, <1>3, <1>4, <1>5, <1>8, <4>1, <4>3 DEF Has
    <3> QED BY <3>1 DEF DoneAt
  <2>3. Reads(pc', pos', tok', todo', idx', got') BY <1>1, <1>2, <1>6, <2>1, <2>2 DEF Reads
  <2> QED BY <1>0, <1>6, <2>1, <2>3, ReaderStep
<1> QED BY <1>7, <1>8

-----------------------------------------------------------------------------
(* The loops of Skip and AppendText *)

LEMMA LoopStart ==
    ASSUME Written, Opened, NEW i \in Nat, 1 <= i, NEW q \in Nat, HasToken(q),
           CleanOf(vals, i) => i \in 1..Len(vals) /\ q = spans[i].start
    PROVE  /\ Skipped(Token(q)).pos \in Nat /\ Skipped(Token(q)).pos <= lim
           /\ LoopAt(Skipped(Token(q)).pos, <<Skipped(Token(q)).items>>, i)
<1>0. vals \in Seq(Value) /\ lim \in Nat /\ Bytewise BY DEF Written, Opened
<1>1. PICK p, a : p = Skipped(Token(q)).pos /\ a = Skipped(Token(q)).items BY Zenon
<1>2. a \in Nat /\ p \in Nat /\ p <= lim BY <1>0, <1>1, SkippedType
<1>3. <<a>> \in Seq(Nat) /\ <<a>> # <<>> /\ Loops(<<a>>, a) BY <1>2, LoopOne
<1>4. ASSUME CleanOf(vals, BehindOf(vals, i))
      PROVE  i <= Len(vals) /\ \E j \in (i + 1)..(Len(vals) + 1) : Passed(<<a>>, i, j, p)
  <2>1. CleanOf(vals, i) /\ (i <= Len(vals) => ~Ext8(vals[i])) BY <1>0, <1>4, CleanBehind
  <2>2. i \in 1..Len(vals) /\ q = spans[i].start /\ ~Ext8(vals[i]) BY <2>1
  <2>3. a = Children(vals[i]) /\ p = Reach(i + 1) BY <1>1, <2>2, SkippedAt
  <2>4. PICK f : f = NeededOf(vals, i) BY Zenon
  <2>5. f[i - 1] = 1 /\ f[i] = f[i - 1] - 1 + Children(vals[i]) BY <1>0, <2>2, <2>4, NeededDef
  <2>6. f[i] = a BY <1>2, <2>3, <2>5
  <2>7. Loops(<<a>>, f[(i + 1) - 1])
    <3>1. (i + 1) - 1 = i OBVIOUS
    <3> QED BY <1>3, <2>6, <3>1
  <2>8. StillOpen(vals, i, (i + 1) - 2) BY DEF StillOpen
  <2>9. Passed(<<a>>, i, i + 1, p) BY <2>3, <2>4, <2>7, <2>8 DEF Passed
  <2>10. i + 1 \in (i + 1)..(Len(vals) + 1) BY <1>0, <2>2
  <2> QED BY <1>0, <2>2, <2>9, <2>10
<1>5. LoopAt(p, <<a>>, i) BY <1>3, <1>4 DEF LoopAt
<1> QED BY <1>1, <1>2, <1>5

\* A loop that still expects values is before one of those that belong to it.
LEMMA LoopInside ==
    ASSUME Written, Opened, NEW i \in Nat, 1 <= i, NEW s \in Seq(Nat), s # <<>>, Head(s) > 0,
           NEW j \in (i + 1)..(Len(vals) + 1), NEW p, Passed(s, i, j, p)
    PROVE  /\ j \in Nat /\ 1 <= j /\ p = Reach(j) /\ NeededOf(vals, i)[j - 1] \in Nat
           /\ Loops(s, NeededOf(vals, i)[j - 1])
           /\ NeededOf(vals, i)[j - 1] > 0 /\ StillOpen(vals, i, j - 1)
           /\ BehindOf(vals, i) \in Nat /\ j < BehindOf(vals, i)
<1>0. vals \in Seq(Value) BY DEF Written
<1>1. PICK N \in Nat : N = Len(vals) BY <1>0
<1>2. j \in Nat /\ 1 <= j /\ i < j /\ j <= N + 1 BY <1>1
<1>3. PICK f, m : f = NeededOf(vals, i) /\ m = f[j - 1] BY Zenon
<1>4. p = Reach(j) /\ Loops(s, m) /\ StillOpen(vals, i, j - 2) BY <1>3 DEF Passed
<1>5. \A t : Loops(s, t) => t \in Nat /\ t > 0
  <2>1. 0 \in Nat OBVIOUS
  <2> QED BY <2>1, LoopPush
<1>6. m \in Nat /\ m > 0 BY <1>4, <1>5
<1>7. StillOpen(vals, i, j - 1)
  <2>1. ASSUME NEW k \in i..(j - 1) PROVE NeededOf(vals, i)[k] > 0
    <3>1. CASE k = j - 1 BY <1>3, <1>6, <3>1
    <3>2. CASE k # j - 1
      <4>1. k \in i..(j - 2) BY <1>2, <3>2
      <4> QED BY <1>4, <4>1 DEF StillOpen
    <3> QED BY <3>1, <3>2
  <2> QED BY <2>1 DEF StillOpen
<1>8. PICK l \in Nat : l = j - 1 /\ l <= N /\ i <= l BY <1>1, <1>2
<1>9. StillOpen(vals, i, l) BY <1>7, <1>8
<1>10. BehindOf(vals, i) \in Nat /\ l + 1 < BehindOf(vals, i) BY <1>0, <1>1, <1>8, <1>9, BehindLater
<1>11. j < BehindOf(vals, i) BY <1>2, <1>8, <1>10
<1> QED BY <1>2, <1>3, <1>4, <1>6, <1>7, <1>10, <1>11

\* One turn of a loop.
LEMMA LoopTurn ==
    ASSUME Written, Opened, NEW i \in Nat, 1 <= i, NEW p \in Nat, NEW s, LoopAt(p, s, i), Head(s) > 0, HasToken(p)
    PROVE  /\ Skipped(Token(p)).pos \in Nat /\ Skipped(Token(p)).pos <= lim
           /\ LoopAt(Skipped(Token(p)).pos, Pushed(s, Skipped(Token(p)).items), i)
<1>0. vals \in Seq(Value) /\ lim \in Nat /\ Bytewise BY DEF Written, Opened
<1>1. PICK p1, a : p1 = Skipped(Token(p)).pos /\ a = Skipped(Token(p)).items BY Zenon
<1>2. a \in Nat /\ p1 \in Nat /\ p1 <= lim BY <1>0, <1>1, SkippedType
<1>3. s \in Seq(Nat) /\ s # <<>> BY DEF LoopAt
<1>4. PICK s1 : s1 = Pushed(s, a) BY Zenon
<1>5. /\ s1 \in Seq(Nat) /\ s1 # <<>>
      /\ \A t : Loops(s, t) => t \in Nat /\ t > 0 /\ Loops(s1, t - 1 + a)
    BY <1>2, <1>3, <1>4, LoopPush
<1>6. ASSUME CleanOf(vals, BehindOf(vals, i))
      PROVE  i <= Len(vals) /\ \E j \in (i + 1)..(Len(vals) + 1) : Passed(s1, i, j, p1)
  <2>1. PICK j \in (i + 1)..(Len(vals) + 1) : i <= Len(vals) /\ Passed(s, i, j, p) BY <1>6 DEF LoopAt
  <2>2. /\ j \in Nat /\ 1 <= j /\ p = Reach(j) /\ NeededOf(vals, i)[j - 1] \in Nat
        /\ Loops(s, NeededOf(vals, i)[j - 1])
        /\ StillOpen(vals, i, j - 1)
        /\ BehindOf(vals, i) \in Nat /\ j < BehindOf(vals, i)
      BY <1>3, <2>1, LoopInside
  <2>3. j \in 1..Len(vals) /\ p = spans[j].start BY <2>2, Found
  <2>4. ~Ext8(vals[j]) BY <1>0, <1>6, <2>2, <2>3 DEF CleanOf
  <2>5. a = Children(vals[j]) /\ p1 = Reach(j + 1) BY <1>1, <2>3, <2>4, SkippedAt
  <2>6. PICK f : f = NeededOf(vals, i) BY Zenon
  <2>7. f[j] = f[j - 1] - 1 + Children(vals[j])
    <3>1. j \in i..Len(vals) /\ i <= Len(vals) + 1 BY <1>0, <2>1, <2>3
    <3> QED BY <1>0, <2>6, <3>1, NeededDef
  <2>8. PICK t \in Nat : t = f[j - 1] /\ Loops(s, t) BY <2>2, <2>6
  <2>9. Loops(s1, t - 1 + a) BY <1>5, <2>8
  <2>10. f[j] = t - 1 + a BY <2>5, <2>7, <2>8
  <2>11. Loops(s1, f[(j + 1) - 1]) /\ StillOpen(vals, i, (j + 1) - 2)
    <3>1. (j + 1) - 1 = j /\ (j + 1) - 2 = j - 1 BY <2>2
    <3> QED BY <2>2, <2>9, <2>10, <3>1
  <2>12. Passed(s1, i, j + 1, p1) BY <2>5, <2>6, <2>11 DEF Passed
  <2>13. j + 1 \in (i + 1)..(Len(vals) + 1) BY <1>0, <2>1, <2>3
  <2> QED BY <2>1, <2>12, <2>13
<1>7. LoopAt(p1, s1, i) BY <1>5, <1>6 DEF LoopAt
<1> QED BY <1>1, <1>2, <1>4, <1>7

\* A loop stops early.
Ended(p) == ~HasToken(p) \/ lim < Token(p).next + Token(p).length
LEMMA EndedAt ==
    ASSUME Written, Opened, NEW j \in 1..Len(vals), ~Ext8(vals[j]), NEW p, p = spans[j].start, Ended(p)
    PROVE  lim < spans[j].end
<1>1. lim \in Nat BY DEF Opened
<1>2. CASE ~HasToken(p) BY <1>1, <1>2, NotFound
<1>3. CASE HasToken(p)
  <2>1. lim < Token(p).next + Token(p).length BY <1>3 DEF Ended
  <2>2. PICK t : t = Token(p) BY Zenon
  <2>3. t.next + t.length = IF Ext8(vals[j]) THEN spans[j].end - 1 ELSE spans[j].end BY <1>1, <2>2, TokenAt
  <2> QED BY <2>1, <2>2, <2>3
<1> QED BY <1>2, <1>3

LEMMA LoopStops ==
    ASSUME Written, Opened, NEW i \in Nat, 1 <= i, NEW p \in Nat, NEW s, LoopAt(p, s, i), Head(s) > 0
    PROVE  /\ Ended(p) => DoneAt(s, i)
           /\ Ended(p) /\ p < lim => LostAt(s)
           /\ HasToken(p) /\ Cell(p) = Unknown => LostAt(s)
<1>0. vals \in Seq(Value) /\ lim \in Nat /\ Bytewise BY DEF Written, Opened
<1>1. s \in Seq(Nat) /\ s # <<>> BY DEF LoopAt
<1>2. ASSUME CleanOf(vals, BehindOf(vals, i))
      PROVE  \E j \in Nat : /\ 1 <= j /\ p = Reach(j) /\ BehindOf(vals, i) \in Nat
                            /\ j < BehindOf(vals, i)
  <2>1. PICK j \in (i + 1)..(Len(vals) + 1) : Passed(s, i, j, p) BY <1>2 DEF LoopAt
  <2>2. /\ j \in Nat /\ 1 <= j /\ p = Reach(j)
        /\ BehindOf(vals, i) \in Nat /\ j < BehindOf(vals, i)
      BY <1>1, <2>1, LoopInside
  <2> QED BY <2>2
<1>3. ASSUME Ended(p), CleanOf(vals, BehindOf(vals, i)), i <= Len(vals)
      PROVE  BehindOf(vals, i) > Len(vals) + 1 \/ lim < Start(BehindOf(vals, i))
  <2>1. PICK j \in Nat : /\ 1 <= j /\ p = Reach(j) /\ BehindOf(vals, i) \in Nat
                         /\ j < BehindOf(vals, i)
      BY <1>2, <1>3
  <2>2. PICK b \in Nat, N \in Nat : b = BehindOf(vals, i) /\ N = Len(vals) BY <1>0, <2>1
  <2>3. CASE j > N BY <2>1, <2>2, <2>3
  <2>4. CASE j <= N
    <3>1. j \in 1..Len(vals) BY <2>1, <2>2, <2>4
    <3>2. ~Ext8(vals[j]) BY <1>0, <1>3, <2>1, <2>2, <3>1 DEF CleanOf
    <3>3. p = spans[j].start BY <2>1, <2>2, <2>4, ReachIs
    <3>4. lim < spans[j].end BY <1>0, <1>3, <3>1, <3>2, <3>3, EndedAt
    <3>5. Start(b) \in Nat /\ spans[j].end <= Start(b) BY <2>1, <2>2, <3>1, Later
    <3>6. spans[j].end \in Nat BY <3>1, SpanAt
    <3> QED BY <1>0, <2>2, <3>4, <3>5, <3>6
  <2> QED BY <2>2, <2>3, <2>4
<1>4. ASSUME HasToken(p), Cell(p) = Unknown, CleanOf(vals, Len(vals) + 1) PROVE FALSE
  <2>1. BehindOf(vals, i) \in Nat BY <1>0, BehindType
  <2>2. CleanOf(vals, BehindOf(vals, i)) BY <1>0, <1>4, <2>1, CleanAll
  <2>3. PICK j \in Nat : 1 <= j /\ p = Reach(j) BY <1>2, <2>2
  <2> QED BY <1>4, <2>3, Found
<1>5. ASSUME Ended(p), p < lim, CleanOf(vals, Len(vals) + 1) PROVE lim < buf.len
  <2>1. BehindOf(vals, i) \in Nat BY <1>0, BehindType
  <2>2. CleanOf(vals, BehindOf(vals, i)) BY <1>0, <1>5, <2>1, CleanAll
  <2>3. PICK j \in Nat : 1 <= j /\ p = Reach(j) BY <1>2, <2>2
  <2>4. PICK N \in Nat : N = Len(vals) BY <1>0
  <2>5. buf.len \in Nat /\ lim <= buf.len BY DEF Written, Within, Opened
  <2>6. CASE j > N
    <3>1. Start(j) = buf.len BY <2>4, <2>6 DEF Start
    <3>2. p = IF buf.len <= lim THEN buf.len ELSE lim BY <2>3, <3>1 DEF Reach
    <3> QED BY <1>0, <1>5, <2>5, <3>2
  <2>7. CASE j <= N
    <3>1. j \in 1..Len(vals) BY <2>3, <2>4, <2>7
    <3>2. ~Ext8(vals[j]) BY <1>5, <2>4, <3>1 DEF CleanOf
    <3>3. p = spans[j].start BY <1>0, <1>5, <2>3, <3>1, ReachIs
    <3>4. lim < spans[j].end BY <1>0, <1>5, <3>1, <3>2, <3>3, EndedAt
    <3>5. spans[j].end \in Nat /\ spans[j].end <= buf.len BY <3>1, SpanAt
    <3> QED BY <1>0, <2>5, <3>4, <3>5
  <2> QED BY <2>4, <2>6, <2>7
<1> QED BY <1>1, <1>3, <1>4, <1>5 DEF DoneAt, LostAt

\* What goes on behind a value that is incomplete.
LEMMA GoesOnIs ==
    ASSUME lim \in Nat, pos \in Nat, NEW s, GoesOn(s)
    PROVE  pc' \in {"lost", "done"} /\ (pc' = "lost" => pos < lim)
<1>1. PICK q \in Remainders(pos) : pc' = IF q < lim /\ (\E i \in DOMAIN s : s[i] > 0) THEN "lost" ELSE "done"
    BY DEF GoesOn
<1>2. ASSUME q < lim PROVE pos < lim
  <2>1. q # lim BY <1>2
  <2>2. q = IF HasToken(pos) THEN Token(pos).next ELSE IF Has(pos, 1) THEN pos + 1 ELSE pos BY <2>1 DEF Remainders
  <2>3. CASE Has(pos, 1) BY <2>3 DEF Has
  <2>4. CASE ~Has(pos, 1)
    <3>1. ~HasToken(pos) BY <2>4 DEF HasToken
    <3> QED BY <1>2, <2>2, <2>4, <3>1
  <2> QED BY <2>3, <2>4
<1> QED BY <1>1, <1>2

LEMMA SkipPreserves ==
    ASSUME Inv, Skip
    PROVE  Inv'
<1>0. Written /\ Opened /\ pc = "token" /\ Reads(pc, pos, tok, todo, idx, got) BY DEF Inv, Skip
<1>1. pos \in Nat /\ pos <= lim /\ idx \in Nat /\ 1 <= idx /\ TokenFrom(tok, pos, todo, idx) BY <1>0 DEF Reads
<1>2. PICK q \in Nat : todo = <<>> /\ TokenIs(tok, q, pos, idx) BY <1>1 DEF TokenFrom
<1>3. /\ tok = Token(q) /\ HasToken(q)
      /\ CleanOf(vals, idx) => idx \in 1..Len(vals) /\ q = spans[idx].start
    BY <1>2 DEF TokenIs
<1>4. /\ Skipped(Token(q)).pos \in Nat /\ Skipped(Token(q)).pos <= lim
      /\ LoopAt(Skipped(Token(q)).pos, <<Skipped(Token(q)).items>>, idx)
    BY <1>0, <1>1, <1>3, LoopStart
<1>5. /\ written' = written /\ lim' = lim /\ idx' = idx /\ pc' = "skip"
      /\ pos' = Skipped(tok).pos /\ todo' = <<Skipped(tok).items>>
    BY DEF Skip
<1>6. pos' \in Nat /\ pos' <= lim /\ LoopAt(pos', todo', idx') BY <1>3, <1>4, <1>5
<1>7. Reads(pc', pos', tok', todo', idx', got') BY <1>1, <1>5, <1>6 DEF Reads
<1> QED BY <1>0, <1>5, <1>7, ReaderStep

LEMMA SkipNextPreserves ==
    ASSUME Inv, SkipNext
    PROVE  Inv'
<1>0. Written /\ Opened /\ pc = "skip" /\ Reads(pc, pos, tok, todo, idx, got) /\ Head(todo) > 0 BY DEF Inv, SkipNext
<1>1. pos \in Nat /\ pos <= lim /\ idx \in Nat /\ 1 <= idx /\ LoopAt(pos, todo, idx) BY <1>0 DEF Reads
<1>2. written' = written /\ lim' = lim /\ idx' = idx BY DEF SkipNext
<1>3. CASE HasToken(pos) /\ Cell(pos) # Unknown
  <2>1. /\ pos' = Skipped(Token(pos)).pos /\ pc' = pc
        /\ todo' = <<Skipped(Token(pos)).items, Head(todo) - 1>> \o Tail(todo)
      BY <1>3 DEF SkipNext
  <2>2. todo' = Pushed(todo, Skipped(Token(pos)).items) BY <2>1, Zenon DEF Pushed
  <2>a. /\ Skipped(Token(pos)).pos \in Nat /\ Skipped(Token(pos)).pos <= lim
        /\ LoopAt(Skipped(Token(pos)).pos, Pushed(todo, Skipped(Token(pos)).items), idx)
      BY <1>0, <1>1, <1>3, LoopTurn
  <2>b. pos' = Skipped(Token(pos)).pos BY <2>1, Zenon
  <2>3. pos' \in Nat /\ pos' <= lim /\ LoopAt(pos', todo', idx') BY <1>2, <2>2, <2>a, <2>b
  <2>4. Reads(pc', pos', tok', todo', idx', got') BY <1>0, <1>1, <1>2, <2>1, <2>3 DEF Reads
  <2> QED BY <1>0, <1>2, <2>1, <2>4, ReaderStep
<1>4. CASE ~HasToken(pos) \/ Cell(pos) = Unknown
  <2>1. /\ \/ ~HasToken(pos) /\ GoesOn(Tail(todo))
           \/ HasToken(pos) /\ Cell(pos) = Unknown /\ pc' = "lost"
        /\ pos' = pos /\ todo' = todo
      BY <1>4 DEF SkipNext
  <2>2. /\ ~HasToken(pos) => DoneAt(todo, idx)
        /\ ~HasToken(pos) /\ pos < lim => LostAt(todo)
        /\ HasToken(pos) /\ Cell(pos) = Unknown => LostAt(todo)
      BY <1>0, <1>1, LoopStops DEF Ended
  <2>a. lim \in Nat BY <1>0 DEF Opened
  <2>b. pc' \in {"lost", "done"} /\ (pc' = "lost" => LostAt(todo)) /\ (pc' = "done" => DoneAt(todo, idx))
      BY <1>1, <2>1, <2>2, <2>a, GoesOnIs
  <2>3. Reads(pc', pos', tok', todo', idx', got') BY <1>1, <1>2, <2>1, <2>b DEF Reads
  <2> QED BY <1>0, <1>2, <2>b, <2>3, ReaderStep
<1> QED BY <1>3, <1>4

\* What is shown ends where Skip would go.
LEMMA ShownTo ==
    ASSUME Bytewise, lim \in Nat, NEW p \in Nat, HasToken(p), NEW t, t = Token(p), Has(t.next, t.length)
    PROVE  t.next + t.length = Skipped(t).pos
<1>1. t.next \in Nat /\ t.length \in Nat /\ (Nested(t.typ) => t.length = 0) BY TokenType
<1>2. Skipped(t).pos = IF Nested(t.typ) THEN t.next
                       ELSE IF t.next + t.length <= lim THEN t.next + t.length ELSE lim BY DEF Skipped, Nested
<1>3. t.next + t.length <= lim BY DEF Has
<1> QED BY <1>1, <1>2, <1>3

LEMMA AppendTextPreserves ==
    ASSUME Inv, AppendText
    PROVE  Inv'
<1>0. Written /\ Opened /\ pc = "token" /\ Reads(pc, pos, tok, todo, idx, got) BY DEF Inv, AppendText
<1>1. pos \in Nat /\ pos <= lim /\ idx \in Nat /\ 1 <= idx /\ TokenFrom(tok, pos, todo, idx) BY <1>0 DEF Reads
<1>2. PICK q \in Nat : todo = <<>> /\ TokenIs(tok, q, pos, idx) BY <1>1 DEF TokenFrom
<1>3. /\ tok = Token(q) /\ HasToken(q) /\ pos = tok.next
      /\ CleanOf(vals, idx) => idx \in 1..Len(vals) /\ q = spans[idx].start
    BY <1>2 DEF TokenIs
<1>4. vals \in Seq(Value) /\ lim \in Nat /\ Bytewise BY <1>0 DEF Written, Opened
<1>5. tok.length \in Nat BY <1>3, <1>4, TokenType
<1>6. written' = written /\ lim' = lim /\ idx' = idx BY DEF AppendText
<1>7. CASE Has(pos, tok.length)
  <2>1. PICK x : x = Any(tok, FALSE) BY Zenon
  <2>2. got' = [i |-> idx, val |-> x] /\ pos' = tok.next + tok.length /\ todo' = <<Skipped(tok).items>> /\ pc' = "text"
    <3>1. Shows(tok, idx) /\ todo' = <<Skipped(tok).items>> /\ pc' = "text" BY <1>7, Zenon DEF AppendText
    <3>2. idx # 0 BY <1>1
    <3>3. pos' = tok.next + tok.length /\ got' = [i |-> idx, val |-> Any(tok, FALSE)] BY <3>1, <3>2, Zenon DEF Shows
    <3> QED BY <2>1, <3>1, <3>3, Zenon
  <2>3. /\ Skipped(Token(q)).pos \in Nat /\ Skipped(Token(q)).pos <= lim
        /\ LoopAt(Skipped(Token(q)).pos, <<Skipped(Token(q)).items>>, idx)
      BY <1>0, <1>1, <1>3, LoopStart
  <2>4. pos' = Skipped(tok).pos BY <1>3, <1>4, <1>7, <2>2, ShownTo
  <2>5. pos' \in Nat /\ pos' <= lim /\ LoopAt(pos', todo', idx') BY <1>3, <1>6, <2>2, <2>3, <2>4
  <2>6. IterGot(got', "text")
    <3>1. got'.i = idx /\ got'.val = x BY <2>2
    <3>2. ASSUME CleanOf(vals, idx + 1) PROVE IterRead(vals[idx], spans[idx], x, "text")
      <4>0. CleanOf(vals, idx) BY <1>1, <1>4, <3>2, CleanLess
      <4>1. /\ idx \in 1..Len(vals) /\ ~Ext8(vals[idx]) /\ q = spans[idx].start
            /\ tok.next + tok.length <= lim
          BY <1>1, <1>3, <1>7, <3>2, <4>0 DEF CleanOf, Has
      <4>2. IterRead(vals[idx], spans[idx], Any(tok, FALSE), "text") BY <1>0, <1>3, <1>4, <4>1, ReadAt, Zenon
      <4> QED BY <2>1, <4>2, Zenon
    <3> QED BY <3>1, <3>2 DEF IterGot
  <2>7. Reads(pc', pos', tok', todo', idx', got') BY <1>1, <1>6, <2>2, <2>5, <2>6 DEF Reads
  <2> QED BY <1>0, <1>6, <2>2, <2>7, ReaderStep
<1>8. CASE ~Has(pos, tok.length)
  <2>1. pc' = "done" /\ pos' = pos /\ todo' = todo BY <1>8 DEF AppendText
  <2>2. DoneAt(<<>>, idx)
    <3>1. ASSUME CleanOf(vals, BehindOf(vals, idx)), idx <= Len(vals) PROVE lim < spans[idx].end
      <4>1. CleanOf(vals, idx) /\ ~Ext8(vals[idx]) BY <1>1, <1>4, <3>1, CleanBehind
      <4>2. idx \in 1..Len(vals) /\ q = spans[idx].start BY <1>3, <4>1
      <4>3. tok.next + tok.length = IF Ext8(vals[idx]) THEN spans[idx].end - 1 ELSE spans[idx].end
          BY <1>0, <1>3, <1>4, <4>2, TokenAt
      <4> QED BY <1>1, <1>3, <1>4, <1>5, <1>8, <4>1, <4>3 DEF Has
    <3> QED BY <3>1 DEF DoneAt
  <2>3. Reads(pc', pos', tok', todo', idx', got') BY <1>1, <1>2, <1>6, <2>1, <2>2 DEF Reads
  <2> QED BY <1>0, <1>6, <2>1, <2>3, ReaderStep
<1> QED BY <1>7, <1>8

LEMMA AtIs ==
    ASSUME vals \in Seq(Value), NEW p, NEW i, i = At(p), i # 0
    PROVE  i \in 1..Len(vals) /\ p = spans[i].start
<1>1. \E j \in DOMAIN vals : spans[j].start = p BY Zenon DEF At
<1>2. i = CHOOSE j \in DOMAIN vals : spans[j].start = p BY <1>1, Zenon DEF At
<1>3. i \in DOMAIN vals /\ spans[i].start = p BY <1>1, <1>2, Zenon
<1> QED BY <1>3

LEMMA TextNextPreserves ==
    ASSUME Inv, TextNext
    PROVE  Inv'
<1>0. Written /\ Opened /\ pc = "text" /\ Reads(pc, pos, tok, todo, idx, got) /\ Head(todo) > 0 BY DEF Inv, TextNext
<1>1. pos \in Nat /\ pos <= lim /\ idx \in Nat /\ 1 <= idx /\ LoopAt(pos, todo, idx) BY <1>0 DEF Reads
<1>2. written' = written /\ lim' = lim /\ idx' = idx BY DEF TextNext
<1>3. vals \in Seq(Value) /\ lim \in Nat /\ Bytewise BY <1>0 DEF Written, Opened
<1>4. PICK t : t = Token(pos) BY Zenon
<1>5. CASE HasToken(pos) /\ Cell(pos) # Unknown /\ Has(t.next, t.length)
  <2>1. PICK x, i : x = Any(t, FALSE) /\ i = At(pos) BY Zenon
  <2>2. /\ pos' = t.next + t.length /\ pc' = pc /\ (i # 0 => got' = [i |-> i, val |-> x]) /\ (i = 0 => got' = Nothing)
        /\ todo' = <<Skipped(t).items, Head(todo) - 1>> \o Tail(todo)
    <3>1. Shows(Token(pos), At(pos)) /\ pc' = pc /\ todo' = <<Skipped(Token(pos)).items, Head(todo) - 1>> \o Tail(todo)
        BY <1>4, <1>5, Zenon DEF TextNext
    <3>2. pos' = t.next + t.length /\ got' = IF i = 0 THEN Nothing ELSE [i |-> i, val |-> Any(t, FALSE)]
        BY <1>4, <2>1, <3>1, Zenon DEF Shows
    <3>3. (i # 0 => got' = [i |-> i, val |-> x]) /\ (i = 0 => got' = Nothing) BY <2>1, <3>2, Zenon
    <3> QED BY <1>4, <3>1, <3>2, <3>3, Zenon
  <2>3. todo' = Pushed(todo, Skipped(t).items) BY <2>2, Zenon DEF Pushed
  <2>4. pos' = Skipped(t).pos BY <1>1, <1>3, <1>4, <1>5, <2>2, ShownTo
  <2>5. /\ Skipped(Token(pos)).pos \in Nat /\ Skipped(Token(pos)).pos <= lim
        /\ LoopAt(Skipped(Token(pos)).pos, Pushed(todo, Skipped(Token(pos)).items), idx)
      BY <1>0, <1>1, <1>5, LoopTurn
  <2>6. pos' \in Nat /\ pos' <= lim /\ LoopAt(pos', todo', idx') BY <1>2, <1>4, <2>3, <2>4, <2>5
  <2>7. IterGot(got', "text")
    <3>1. CASE i = 0
      <4>1. got'.i = 0 BY <2>2, <3>1 DEF Nothing
      <4> QED BY <4>1 DEF IterGot
    <3>2. CASE i # 0
      <4>1. i \in 1..Len(vals) /\ pos = spans[i].start BY <1>3, <2>1, <3>2, AtIs, Zenon
      <4>2. t.next + t.length <= lim BY <1>5 DEF Has
      <4>3. ASSUME ~Ext8(vals[i]) PROVE IterRead(vals[i], spans[i], Any(t, FALSE), "text")
          BY <1>0, <1>3, <1>4, <4>1, <4>2, <4>3, ReadAt, Zenon
      <4>6. CleanOf(vals, i + 1) => ~Ext8(vals[i]) BY <1>3, <4>1 DEF CleanOf
      <4>4. CleanOf(vals, i + 1) => IterRead(vals[i], spans[i], x, "text") BY <2>1, <4>3, <4>6, Zenon
      <4>5. got'.i = i /\ got'.val = x BY <2>2, <3>2
      <4> QED BY <4>4, <4>5 DEF IterGot
    <3> QED BY <3>1, <3>2
  <2>8. Reads(pc', pos', tok', todo', idx', got') BY <1>0, <1>1, <1>2, <2>2, <2>6, <2>7 DEF Reads
  <2> QED BY <1>0, <1>2, <2>2, <2>8, ReaderStep
<1>6. CASE ~(HasToken(pos) /\ Cell(pos) # Unknown /\ Has(t.next, t.length))
  <2>1. /\ \/ (\E s : GoesOn(s)) /\ (~HasToken(pos) \/ ~Has(t.next, t.length))
           \/ HasToken(pos) /\ Cell(pos) = Unknown /\ pc' = "lost"
        /\ pos' = pos /\ todo' = todo /\ got' = got
      BY <1>4, <1>6, Zenon DEF TextNext
  <2>2. /\ Ended(pos) => DoneAt(todo, idx)
        /\ Ended(pos) /\ pos < lim => LostAt(todo)
        /\ HasToken(pos) /\ Cell(pos) = Unknown => LostAt(todo)
      BY <1>0, <1>1, LoopStops
  <2>3. ~HasToken(pos) \/ ~Has(t.next, t.length) => Ended(pos)
    <3>1. t.next \in Nat /\ t.length \in Nat BY <1>1, <1>3, <1>4, TokenType
    <3> QED BY <1>3, <1>4, <3>1 DEF Ended, Has
  <2>a. pc' \in {"lost", "done"} /\ (pc' = "lost" => LostAt(todo)) /\ (pc' = "done" => DoneAt(todo, idx))
      BY <1>1, <1>3, <2>1, <2>2, <2>3, GoesOnIs
  <2>4. Reads(pc', pos', tok', todo', idx', got') BY <1>1, <1>2, <2>1, <2>a DEF Reads
  <2> QED BY <1>0, <1>2, <2>a, <2>4, ReaderStep
<1> QED BY <1>5, <1>6

LEMMA SkipReturnsPreserves ==
    ASSUME Inv, SkipReturns
    PROVE  Inv'
<1>0. /\ Written /\ Opened /\ pc \in {"skip", "text"} /\ Reads(pc, pos, tok, todo, idx, got)
      /\ todo # <<>> /\ Head(todo) = 0
    BY DEF Inv, SkipReturns
<1>1. pos \in Nat /\ pos <= lim /\ idx \in Nat /\ 1 <= idx /\ LoopAt(pos, todo, idx) BY <1>0 DEF Reads
<1>2. /\ written' = written /\ lim' = lim /\ pos' = pos /\ todo' = Tail(todo) /\ got' = Nothing
    BY DEF SkipReturns
<1>3. vals \in Seq(Value) /\ todo \in Seq(Nat) BY <1>0, <1>1 DEF Written, LoopAt
<1>4. Tail(todo) \in Seq(Nat) /\ Len(Tail(todo)) = Len(todo) - 1 BY <1>0, <1>3, TailIs
<1>5. \A t : Loops(todo, t) => Loops(Tail(todo), t) /\ (Len(todo) = 1 => t = 0) BY <1>0, <1>3, LoopPop
<1>6. \A c : IterGot(got', c) BY <1>2 DEF IterGot, Nothing
<1>7. CASE Len(todo) = 1
  <2>1. pc' = "next" /\ idx' = BehindOf(vals, idx) BY <1>7, BehindIs DEF SkipReturns
  <2>2. todo' = <<>>
    <3>1. PICK r : r = Tail(todo) BY Zenon
    <3>2. r \in Seq(Nat) /\ Len(r) = 0 BY <1>4, <1>7, <3>1
    <3>3. r = <<>> BY <3>2
    <3> QED BY <1>2, <3>1, <3>3, Zenon
  <2>3. BehindOf(vals, idx) \in Nat /\ BehindOf(vals, idx) <= Len(vals) + 2
        /\ (idx <= Len(vals) => idx < BehindOf(vals, idx))
        /\ (idx > Len(vals) => BehindOf(vals, idx) = Len(vals) + 2)
    BY <1>1, <1>3, BehindType
  <2>4. idx' \in Nat /\ 1 <= idx' BY <1>1, <1>3, <2>1, <2>3
  <2>5. ASSUME CleanOf(vals, BehindOf(vals, idx)) PROVE pos = Reach(BehindOf(vals, idx))
    <3>1. PICK j \in (idx + 1)..(Len(vals) + 1) : Passed(todo, idx, j, pos) BY <1>1, <2>5 DEF LoopAt
    <3>2. pos = Reach(j) /\ Loops(todo, NeededOf(vals, idx)[j - 1]) /\ StillOpen(vals, idx, j - 2) BY <3>1 DEF Passed
    <3>3. NeededOf(vals, idx)[j - 1] = 0 BY <1>5, <1>7, <3>2
    <3>4. PICK k \in Nat : k = j - 1 /\ k \in idx..Len(vals) /\ j = k + 1 BY <1>1, <1>3
    <3>5. k - 1 = j - 2 BY <3>4
    <3>6. NeededOf(vals, idx)[k] = 0 /\ StillOpen(vals, idx, k - 1) BY <3>2, <3>3, <3>4, <3>5
    <3>7. BehindOf(vals, idx) = k + 1 BY <1>1, <1>3, <3>4, <3>6, BehindFound
    <3> QED BY <3>2, <3>4, <3>7
  <2>6. NextAt(pos', todo', idx', got') BY <1>2, <1>6, <2>1, <2>2, <2>5 DEF NextAt
  <2>7. Reads(pc', pos', tok', todo', idx', got') BY <1>1, <1>2, <2>1, <2>4, <2>6 DEF Reads
  <2> QED BY <1>0, <1>2, <2>1, <2>7, ReaderStep
<1>8. CASE Len(todo) # 1
  <2>1. pc' = pc /\ idx' = idx BY <1>8 DEF SkipReturns
  <2>2. todo' \in Seq(Nat) /\ todo' # <<>>
    <3>1. Len(todo) \in Nat /\ Len(todo) # 0 BY <1>0, <1>3
    <3>2. PICK r : r = Tail(todo) BY Zenon
    <3>3. r \in Seq(Nat) /\ Len(r) # 0 BY <1>4, <1>8, <3>1, <3>2
    <3>4. r # <<>> BY <3>3
    <3> QED BY <1>2, <3>2, <3>3, <3>4, Zenon
  <2>3. ASSUME NEW j, Passed(todo, idx, j, pos) PROVE Passed(todo', idx, j, pos)
      BY <1>2, <1>5, <2>3 DEF Passed
  <2>4. LoopAt(pos', todo', idx') BY <1>1, <1>2, <2>1, <2>2, <2>3 DEF LoopAt
  <2>5. Reads(pc', pos', tok', todo', idx', got') BY <1>0, <1>1, <1>2, <1>6, <2>1, <2>4 DEF Reads
  <2> QED BY <1>0, <1>2, <2>1, <2>5, ReaderStep
<1> QED BY <1>7, <1>8

-----------------------------------------------------------------------------
(* Lengths that are taken for signed, of any bytes *)

LEMMA NumInt ==
    ASSUME NEW b, b[1] \in Int, b[2] \in Int, b[3] \in Int, b[4] \in Int
    PROVE  Num(b) \in Int
BY DEF Num, Huge

LEMMA LengthInt ==
    ASSUME NEW w \in [1..8 -> Int]
    PROVE  Length(w) \in Int
<1> DEFINE c == [i \in 1..4 |-> 255 - w[4 + i]]
<1> DEFINE d == Low(w, 4)
<1>1. Num(c) \in Int
  <2>1. c[1] = 255 - w[5] /\ c[2] = 255 - w[6] /\ c[3] = 255 - w[7] /\ c[4] = 255 - w[8] OBVIOUS
  <2>2. PICK x1 \in Int, x2 \in Int, x3 \in Int, x4 \in Int :
            x1 = w[5] /\ x2 = w[6] /\ x3 = w[7] /\ x4 = w[8] OBVIOUS
  <2> HIDE DEF c
  <2>3. c[1] \in Int /\ c[2] \in Int /\ c[3] \in Int /\ c[4] \in Int BY <2>1, <2>2
  <2> QED BY <2>3, NumInt, Zenon
<1>2. Num(d) \in Int
  <2>0. 4 \in 1..8 /\ 1 \in 1..4 /\ 2 \in 1..4 /\ 3 \in 1..4 /\ 4 \in 1..4 OBVIOUS
  <2>1. d[1] \in Int /\ d[2] \in Int /\ d[3] \in Int /\ d[4] \in Int BY <2>0, LowIs, Zenon
  <2> HIDE DEF d
  <2> QED BY <2>1, NumInt, Zenon
<1> HIDE DEF c, d
<1>3. PICK x \in Int, y \in Int : x = Num(c) /\ y = Num(d) BY <1>1, <1>2
<1>4. CASE Negative(w)
  <2>1. Length(w) = -1 - Num(c) BY <1>4 DEF Length, c
  <2> QED BY <1>3, <2>1
<1>5. CASE ~Negative(w)
  <2>1. Length(w) = IF \A i \in 1..4 : w[i] = 0 THEN Num(d) ELSE Huge BY <1>5 DEF Length, d
  <2>2. Huge \in Int BY DEF Huge
  <2> QED BY <1>3, <2>1, <2>2
<1> QED BY <1>4, <1>5

LEMMA IntFromBufInt ==
    ASSUME NEW b, NEW m \in {0, 1, 2, 4}, Len(b) = m, \A k \in 1..m : b[k] \in Nat
    PROVE  intFromBuf(b) \in [1..8 -> Int]
<1>1. CASE m = 0
  <2>1. intFromBuf(b) = Word(0) BY <1>1 DEF intFromBuf
  <2>2. Word(0) \in [1..8 -> Byte] BY WordType DEF Word64
  <2>3. Byte \subseteq Int BY DEF Byte, Below
  <2>4. Word(0) \in [1..8 -> Int] BY <2>2, <2>3, WiderWord, Zenon
  <2> QED BY <2>1, <2>4, Zenon
<1>2. CASE m # 0
  <2>1. PICK x \in Int : x = IF b[1] >= 128 THEN 255 ELSE 0 OBVIOUS
  <2>2. intFromBuf(b) = Fill(b, x) BY <1>2, <2>1 DEF intFromBuf, SignExtend
  <2>3. Len(b) \in 1..8 /\ (\A k \in 1..Len(b) : b[k] \in Int) BY <1>2
  <2>4. Fill(b, x) \in [1..8 -> Int] BY <2>3, FillType, Zenon
  <2> QED BY <2>2, <2>4
<1> QED BY <1>1, <1>2

LEMMA BytesLenInt ==
    ASSUME Bytewise, lim \in Nat, NEW p \in Nat
    PROVE  BytesLen(p) \in Int
<1>1. PICK c \in Nat : c = Cell(p) /\ c <= Unknown BY CellType
<1>2. Sound(c) BY <1>1, GetType
<1>3. PICK m \in Nat : m = Get(c).length BY <1>2 DEF Sound
<1>4. IntLength(p) \in Int
  <2>1. CASE Get(c).own BY <1>1, <1>3, <2>1 DEF IntLength
  <2>2. CASE ~Get(c).own
    <3>1. m \in {0, 1, 2, 4} BY <1>2, <1>3, <2>2 DEF Sound
    <3> DEFINE b == Raw(p + 1, m)
    <3>2. Len(b) = m /\ \A k \in 1..m : b[k] \in Nat
      <4>1. PICK q \in Nat : q = p + 1 OBVIOUS
      <4>2. Len(Raw(q, m)) = m /\ \A k \in 1..m : Raw(q, m)[k] = Cell(q + k - 1) BY RawIs
      <4>3. \A x : Cell(x) \in Nat BY CellType
      <4> QED BY <4>1, <4>2, <4>3
    <3> HIDE DEF b
    <3>3. Length(intFromBuf(b)) \in Int BY <3>1, <3>2, IntFromBufInt, LengthInt, Zenon
    <3>4. IntLength(p) = Length(intFromBuf(b)) BY <1>1, <1>3, <2>2 DEF IntLength, LengthBytes, b
    <3> QED BY <3>3, <3>4
  <2> QED BY <2>1, <2>2
<1>5. Offset(p) \in Nat BY TokenType DEF Offset
<1>6. PICK l \in Int, o \in Nat : l = IntLength(p) /\ o = Offset(p) BY <1>4, <1>5
<1> QED BY <1>6 DEF BytesLen

-----------------------------------------------------------------------------
(* The steps of the Read functions *)

LEMMA ReadOffsetPreserves ==
    ASSUME Inv, ReadOffset
    PROVE  Inv'
<1>0. Written /\ Opened /\ pc = "offset" /\ Reads(pc, pos, tok, todo, idx, got) /\ idx <= Len(vals)
    BY DEF Inv, ReadOffset
<1>1. pos \in Nat /\ pos <= lim /\ idx \in Nat /\ 1 <= idx /\ OffsetAt(pos, idx, got) BY <1>0 DEF Reads
<1>2. vals \in Seq(Value) /\ lim \in Nat BY <1>0 DEF Written, Opened
<1>3. idx \in 1..Len(vals) BY <1>0, <1>1, <1>2
<1>4. pos = spans[idx].start BY <1>0, <1>1, <1>3, SpanAt DEF OffsetAt
<1>5. PICK v, b, end : v = vals[idx] /\ b = spans[idx].body /\ end = spans[idx].end BY Zenon
<1>6. Good(v, pos, b, end) BY <1>0, <1>2, <1>3, <1>4, <1>5, GoodAt
<1>7. FunctionsGood(v, pos, b, end) BY <1>6, Zenon DEF Good
<1>8. PICK r \in ReadAs(v, pos) :
          IF r.out = "ok"
             THEN got' = [i |-> idx, val |-> r.val] /\ pos' = r.next /\ idx' = idx + 1 /\ pc' = pc
             ELSE pc' = (IF r.out = "panic" THEN "panic" ELSE "failed") /\ pos' = pos /\ idx' = idx
    BY <1>5, Zenon DEF ReadOffset
<1>9. ResultGood(v, r, MeaningOf(v, b), end) BY <1>7, <1>8, Zenon DEF FunctionsGood
<1>10. written' = written /\ lim' = lim BY DEF ReadOffset
<1>11. end \in Nat /\ Start(idx + 1) = end BY <1>0, <1>3, <1>5, SpanAt
<1>12. CASE r.out = "ok"
  <2>1. got' = [i |-> idx, val |-> r.val] /\ pos' = r.next /\ idx' = idx + 1 /\ pc' = "offset" BY <1>0, <1>8, <1>12
  <2>2. (r.val = MeaningOf(v, b) <=> Kept(v) /\ ~SignedLength(v)) /\ r.next = end /\ end <= lim BY <1>9, <1>12 DEF ResultGood
  <2>3. got'.i = idx /\ got'.val = r.val BY <2>1
  <2>4. pos' = Start(idx') /\ idx' <= Len(vals) + 1 BY <1>1, <1>2, <1>0, <1>11, <2>1, <2>2
  <2>5. OffsetAt(pos', idx', got') BY <1>5, <2>1, <2>2, <2>3, <2>4 DEF OffsetAt
  <2>6. Reads(pc', pos', tok', todo', idx', got') BY <1>1, <1>11, <2>1, <2>2, <2>5 DEF Reads
  <2> QED BY <1>0, <1>10, <2>1, <2>6, ReaderStep
<1>13. CASE r.out # "ok"
  <2>1. pc' = (IF r.out = "panic" THEN "panic" ELSE "failed") /\ pos' = pos /\ idx' = idx BY <1>8, <1>13
  <2>2. r.out = "panic" => PanicAt(idx) BY <1>5, <1>9 DEF ResultGood, PanicAt
  <2>3. r.out # "panic" => lim < spans[idx].end BY <1>5, <1>9, <1>13 DEF ResultGood
  <2>4. Reads(pc', pos', tok', todo', idx', got') BY <1>1, <2>1, <2>2, <2>3 DEF Reads
  <2> QED BY <1>0, <1>10, <2>1, <2>4, ReaderStep
<1> QED BY <1>12, <1>13

-----------------------------------------------------------------------------
(* The steps of Value's loops *)

LEMMA FirstIs ==
    ASSUME Written, Opened
    PROVE  1 \in 1..Len(vals) /\ spans[1].start = 0
<1>0. vals \in Seq(Value) /\ vals # <<>> /\ Start(1) = 0 BY DEF Written, Opened
<1>1. Len(vals) \in Nat /\ Len(vals) # 0 BY <1>0
<1>2. 1 <= Len(vals) BY <1>1
<1> QED BY <1>0, <1>1, <1>2 DEF Start

LEMMA FlatNested ==
    ASSUME NEW v, v.k \in {"array", "map"}
    PROVE  ~Ext8(v)
BY DEF Ext8

LEMMA ValueLoopPreserves ==
    ASSUME Inv, ValueLoop
    PROVE  Inv'
<1>0. Written /\ Opened /\ pc = "value" /\ Reads(pc, pos, tok, todo, idx, got) BY DEF Inv, ValueLoop
<1>1. pos \in Nat /\ pos <= lim /\ idx \in Nat /\ 1 <= idx /\ got = Nothing BY <1>0 DEF Reads
<1>2. vals \in Seq(Value) /\ lim \in Nat /\ Bytewise BY <1>0 DEF Written, Opened
<1>3. 1 \in 1..Len(vals) /\ spans[1].start = 0 BY <1>0, FirstIs
<1>4. written' = written /\ lim' = lim /\ got' = got /\ Nested(Get(Cell(0)).typ) BY DEF ValueLoop, Nested
<1>a. PICK p \in Nat : p = 0 OBVIOUS
<1>5. PICK t, v : p = 0 /\ t = Token(p) /\ v = vals[1] BY <1>a, Zenon
<1>6. /\ t.next \in Nat /\ t.length \in Nat /\ t.items \in Nat
      /\ HasToken(p) => t.next <= lim
      /\ t.next + t.length = IF Ext8(v) THEN spans[1].end - 1 ELSE spans[1].end
      /\ Nested(t.typ) <=> v.k \in {"array", "map"}
      /\ Nested(t.typ) => t.length = 0
    BY <1>0, <1>2, <1>3, <1>5, TokenAt
<1>7. t.typ = Get(Cell(p)).typ BY <1>2, <1>5, TokenType
<1>8. Nested(t.typ) /\ v.k \in {"array", "map"} BY <1>4, <1>5, <1>6, <1>7
<1>9. ~Ext8(v) BY <1>8, FlatNested
<1>10. t.next = spans[1].end BY <1>6, <1>8, <1>9
<1>11. Good(v, p, spans[1].body, spans[1].end) BY <1>0, <1>2, <1>3, <1>5, GoodAt
<1>12. CountGood(v, p) BY <1>11, Zenon DEF Good
<1>13. CASE HasToken(p)
  <2>1. PICK n \in Int : n = IntLength(p) BY <1>8, <1>12 DEF CountGood
  <2>2. /\ Get(Cell(p)).typ = (IF v.k = "map" THEN "Map" ELSE "Array")
        /\ IF SignedLength(v) THEN n < 0 ELSE n = v.n
      BY <1>8, <1>12, <2>1 DEF CountGood
  <2>3. PICK a \in Int : a = IF n < 0 THEN 0 ELSE IF Get(Cell(p)).typ = "Map" THEN 2 * n ELSE n OBVIOUS
  <2>4. todo' = <<a>> /\ pos' = t.next /\ idx' = 2 /\ pc' = "element"
      BY <1>5, <1>13, <2>1, <2>3 DEF ValueLoop, Offset
  <2>5. a \in Nat /\ (SignedLength(v) => a = 0) BY <2>2, <2>3
  <2>6. v \in Value BY <1>0, <1>3, <1>5, SpanAt
  <2>7. ~SignedLength(v) => a = Children(v)
    <3>1. ASSUME ~SignedLength(v) PROVE a = Children(v)
      <4>1. n = v.n BY <2>2, <3>1
      <4>2. Children(v) = IF v.k = "map" THEN 2 * v.n ELSE v.n BY <1>8 DEF Children
      <4>3. Children(v) \in Nat BY <2>6, ChildrenType
      <4>4. n >= 0 BY <4>1, <4>2, <4>3
      <4> QED BY <2>2, <2>3, <4>1, <4>2, <4>4
    <3> QED BY <3>1
  <2>8. Start(2) = spans[1].end
    <3>1. Start(1 + 1) = spans[1].end BY <1>0, <1>3, SpanAt
    <3> QED BY <3>1
  <2>9. Head(todo') = a /\ todo' = <<Head(todo')>> BY <2>4
  <2>10. Counted(todo', 2)
    <3>1. PICK f : f = NeededOf(vals, 1) BY Zenon
    <3>2. f[0] = 1 /\ f[1] = f[0] - 1 + Children(vals[1])
      <4>1. f[1 - 1] = 1 /\ f[1] = f[1 - 1] - 1 + Children(vals[1])
        <5>1. 1 \in Nat /\ 1 <= 1 /\ 1 <= Len(vals) + 1 /\ 1 \in 1..Len(vals) BY <1>2, <1>3
        <5> QED BY <1>2, <3>1, <5>1, NeededDef
      <4> QED BY <4>1
    <3>3. ~SignedLength(v) => f[1] = a BY <1>5, <2>5, <2>7, <3>2
    <3>4. StillOpen(vals, 1, 2 - 2) BY DEF StillOpen
    <3>5. f[2 - 1] = f[1] OBVIOUS
    <3> QED BY <1>5, <2>9, <3>1, <3>3, <3>4, <3>5 DEF Counted
  <2>11. ElementRead(pos', got') BY <1>1, <1>4 DEF ElementRead, Nothing
  <2>12. 2 <= Len(vals) + 1 BY <1>2, <1>3
  <2>13. ElementAt(pos', todo', 2, got') BY <1>5, <1>10, <2>4, <2>5, <2>8, <2>9, <2>10, <2>11, <2>12 DEF ElementAt
  <2>14. pos' \in Nat /\ pos' <= lim BY <1>6, <1>13, <2>4
  <2>15. Reads(pc', pos', tok', todo', idx', got') BY <2>4, <2>13, <2>14 DEF Reads
  <2> QED BY <1>0, <1>4, <2>4, <2>15, ReaderStep
<1>14. CASE ~HasToken(p)
  <2>1. pc' = "vpanic" /\ pos' = pos /\ idx' = idx BY <1>5, <1>14 DEF ValueLoop
  <2>2. lim < spans[1].end
    <3>1. ~HasToken(spans[1].start) /\ ~Ext8(vals[1]) BY <1>3, <1>5, <1>9, <1>14
    <3> QED BY <1>0, <1>2, <1>3, <3>1, NotFound
  <2>3. spans[1].end <= buf.len /\ spans[1].end \in Nat BY <1>0, <1>3, SpanAt
  <2>4. ~AllWhole BY <1>2, <2>2, <2>3 DEF AllWhole
  <2>5. Reads(pc', pos', tok', todo', idx', got') BY <1>1, <2>1, <2>4 DEF Reads
  <2> QED BY <1>0, <1>4, <2>1, <2>5, ReaderStep
<1> QED BY <1>13, <1>14

LEMMA ValueEndsPreserves ==
    ASSUME Inv, ValueEnds
    PROVE  Inv'
<1>0. Written /\ Opened /\ pc = "element" /\ Reads(pc, pos, tok, todo, idx, got) /\ Head(todo) = 0 BY DEF Inv, ValueEnds
<1>1. pos \in Nat /\ pos <= lim /\ idx \in Nat /\ 1 <= idx /\ ElementAt(pos, todo, idx, got) BY <1>0 DEF Reads
<1>2. vals \in Seq(Value) BY <1>0 DEF Written
<1>3. written' = written /\ lim' = lim /\ pos' = pos /\ idx' = idx /\ pc' = "yielded" BY DEF ValueEnds
<1>4. ASSUME AllWhole, ~SignedLength(vals[1]) PROVE idx = BehindOf(vals, 1)
  <2>1. WholeOf(vals, idx) BY <1>1, <1>2, <1>4 DEF AllWhole, WholeOf
  <2>2. 2 <= idx /\ idx <= Len(vals) + 1 /\ Counted(todo, idx) BY <1>1, <2>1 DEF ElementAt
  <2>3. NeededOf(vals, 1)[idx - 1] = 0 /\ StillOpen(vals, 1, idx - 2) BY <1>0, <1>4, <2>2 DEF Counted
  <2>4. PICK k \in Nat : k = idx - 1 /\ k \in 1..Len(vals) /\ idx = k + 1 /\ k - 1 = idx - 2 BY <1>1, <1>2, <2>2
  <2>5. NeededOf(vals, 1)[k] = 0 /\ StillOpen(vals, 1, k - 1) BY <2>3, <2>4
  <2>6. 1 \in Nat /\ 1 <= 1 OBVIOUS
  <2>7. BehindOf(vals, 1) = k + 1 BY <1>2, <2>4, <2>5, <2>6, BehindFound
  <2> QED BY <2>4, <2>7
<1>5. Reads(pc', pos', tok', todo', idx', got') BY <1>1, <1>3, <1>4 DEF Reads
<1> QED BY <1>0, <1>3, <1>5, ReaderStep

LEMMA WholeLess ==
    ASSUME vals \in Seq(Value), NEW i \in Int, NEW j \in Int, i <= j, WholeOf(vals, j)
    PROVE  WholeOf(vals, i)
BY DEF WholeOf

LEMMA WholeAll ==
    ASSUME vals \in Seq(Value), NEW i \in Int, WholeOf(vals, Len(vals) + 1)
    PROVE  WholeOf(vals, i)
BY DEF WholeOf

\* The element that is next, if it and those before it are Whole.
Element(p, i) ==
    /\ i \in 1..Len(vals) /\ p = spans[i].start /\ Whole(vals[i])
    /\ BytesLen(p) = spans[i].end - p
    /\ spans[i].end <= lim => /\ Shown(p, BytesLen(p)).out = "ok"
                             /\ ShowsRight(vals[i], spans[i].body, Shown(p, BytesLen(p)).val)

LEMMA ElementIs ==
    ASSUME Written, Opened, NEW p \in Nat, NEW s, NEW i \in Nat, NEW x, ElementAt(p, s, i, x), p < lim,
           WholeOf(vals, i + 1)
    PROVE  Element(p, i)
<1>0. vals \in Seq(Value) /\ lim \in Nat /\ buf.len \in Nat /\ lim <= buf.len BY DEF Written, Opened, Within
<1>1. WholeOf(vals, i) BY <1>0, WholeLess
<1>2. 2 <= i /\ p = Start(i) /\ i <= Len(vals) + 1 BY <1>1 DEF ElementAt
<1>3. i \in 1..Len(vals)
  <2>1. i # Len(vals) + 1
    <3>1. ASSUME i = Len(vals) + 1 PROVE FALSE
      <4>1. Len(vals) \in Nat BY <1>0
      <4>2. p = buf.len BY <1>2, <3>1, <4>1 DEF Start
      <4> QED BY <1>0, <4>2
    <3> QED BY <3>1
  <2> QED BY <1>0, <1>2, <2>1
<1>4. PICK v, b, end : v = vals[i] /\ b = spans[i].body /\ end = spans[i].end BY Zenon
<1>5. p = spans[i].start /\ end \in Nat BY <1>2, <1>3, <1>4, SpanAt
<1>6. Whole(v) BY <1>0, <1>2, <1>3, <1>4 DEF WholeOf
<1>7. Good(v, p, b, end) BY <1>0, <1>3, <1>4, <1>5, GoodAt
<1>8. ValueGood(v, p, b, end) BY <1>7, Zenon DEF Good
<1>9. PICK n : n = end - p BY Zenon
<1>10. BytesLen(p) = n BY <1>6, <1>8, <1>9, Zenon DEF ValueGood
<1>11. end <= lim => Shown(p, n).out = "ok" /\ ShowsRight(v, b, Shown(p, n).val)
    BY <1>6, <1>8, <1>9, Zenon DEF ValueGood, ShowsRight
<1>12. end <= lim => Shown(p, BytesLen(p)).out = "ok" /\ ShowsRight(v, b, Shown(p, BytesLen(p)).val)
    BY <1>10, <1>11, Zenon
<1> QED BY <1>3, <1>4, <1>5, <1>6, <1>9, <1>10, <1>12, Zenon DEF Element

LEMMA WholeFacts ==
    ASSUME NEW v, Whole(v)
    PROVE  Children(v) = 0 /\ ~Ext8(v)
BY DEF Whole

\* The counting goes on behind a Whole element.
LEMMA ElementNext ==
    ASSUME Written, Opened, NEW p \in Nat, NEW s, NEW i \in Nat, NEW x, ElementAt(p, s, i, x), Head(s) > 0,
           Element(p, i), NEW s1, s1 = <<Head(s) - 1>>
    PROVE  /\ BehindOf(vals, i) = i + 1
           /\ WholeOf(vals, i) => Counted(s1, i + 1)
<1>0. vals \in Seq(Value) BY DEF Written
<1>1. i \in 1..Len(vals) /\ Children(vals[i]) = 0 BY WholeFacts DEF Element
<1>2. 2 <= i /\ Head(s) \in Nat BY DEF ElementAt
<1>a. 1 <= i /\ i <= Len(vals) + 1 /\ i \in i..Len(vals) /\ i \in 1..Len(vals) BY <1>0, <1>1
<1>3. BehindOf(vals, i) = i + 1
  <2>1. PICK f : f = NeededOf(vals, i) BY Zenon
  <2>2. f[i - 1] = 1 /\ f[i] = f[i - 1] - 1 + Children(vals[i]) BY <1>0, <1>a, <2>1, NeededDef
  <2>3. f[i] = 0 BY <1>1, <2>2
  <2>4. StillOpen(vals, i, i - 1) BY DEF StillOpen
  <2> QED BY <1>0, <1>a, <2>1, <2>3, <2>4, BehindFound
<1>4. ASSUME WholeOf(vals, i), ~SignedLength(vals[1])
      PROVE  NeededOf(vals, 1)[(i + 1) - 1] = Head(s1) /\ StillOpen(vals, 1, (i + 1) - 2)
  <2>1. PICK f : f = NeededOf(vals, 1) BY Zenon
  <2>2. f[i - 1] = Head(s) /\ StillOpen(vals, 1, i - 2) BY <1>4, <2>1 DEF ElementAt, Counted
  <2>a. 1 \in Nat /\ 1 <= 1 /\ 1 <= Len(vals) + 1 BY <1>0
  <2>3. f[i] = f[i - 1] - 1 + Children(vals[i]) BY <1>0, <1>a, <2>1, <2>a, NeededDef
  <2>4. PICK m \in Nat : m = Head(s) /\ m > 0 BY <1>2
  <2>5. f[i] = m - 1 BY <1>1, <2>2, <2>3, <2>4
  <2>6. Head(s1) = m - 1 BY <2>4
  <2>7. StillOpen(vals, 1, i - 1)
    <3>1. ASSUME NEW k \in 1..(i - 1) PROVE NeededOf(vals, 1)[k] > 0
      <4>1. CASE k = i - 1 BY <2>1, <2>2, <2>4, <4>1
      <4>2. CASE k # i - 1
        <5>1. k \in 1..(i - 2) BY <4>2
        <5> QED BY <2>2, <5>1 DEF StillOpen
      <4> QED BY <4>1, <4>2
    <3> QED BY <3>1 DEF StillOpen
  <2>8. (i + 1) - 1 = i /\ (i + 1) - 2 = i - 1 OBVIOUS
  <2> QED BY <2>1, <2>5, <2>6, <2>7, <2>8
<1>5. WholeOf(vals, i) => Counted(s1, i + 1) BY <1>4 DEF Counted
<1> QED BY <1>3, <1>5

LEMMA ValueNextPreserves ==
    ASSUME Inv, ValueNext
    PROVE  Inv'
<1>0. Written /\ Opened /\ pc = "element" /\ Reads(pc, pos, tok, todo, idx, got) /\ Head(todo) > 0 BY DEF Inv, ValueNext
<1>1. pos \in Nat /\ pos <= lim /\ idx \in Nat /\ 1 <= idx /\ ElementAt(pos, todo, idx, got) BY <1>0 DEF Reads
<1>2. vals \in Seq(Value) /\ lim \in Nat /\ buf.len \in Nat /\ lim <= buf.len /\ Bytewise
    BY <1>0 DEF Written, Opened, Within
<1>3. written' = written /\ lim' = lim BY DEF ValueNext
<1>4. PICK n \in Int : n = BytesLen(pos) BY <1>1, <1>2, BytesLenInt
<1>e. \/ /\ got' = [i |-> idx, val |-> Shown(pos, n).val]
         /\ pos' = pos + n /\ idx' = Behind(idx) /\ todo' = <<Head(todo) - 1>> /\ pc' = pc
         /\ HasToken(pos) /\ n >= 0 /\ Has(pos, n) /\ Shown(pos, n).out # "panic" /\ Cell(pos) # Unknown /\ pos < lim
      \/ /\ pc' = "vpanic" /\ pos' = pos /\ idx' = idx /\ Cell(pos) # Unknown /\ pos < lim
         /\ ~HasToken(pos) \/ n < 0 \/ ~Has(pos, n) \/ Shown(pos, n).out = "panic"
      \/ /\ pc' = "stray" /\ pos' = pos /\ idx' = idx /\ Cell(pos) = Unknown /\ pos < lim
      \/ /\ pc' = "emptied" /\ pos' = pos /\ idx' = idx /\ pos = lim
    BY <1>4, Zenon DEF ValueNext
<1>5. Head(todo) \in Nat /\ ~SignedLength(vals[1]) /\ 2 <= idx BY <1>0, <1>1 DEF ElementAt
<1>6. ASSUME pos < lim, WholeOf(vals, idx + 1) PROVE Element(pos, idx) BY <1>0, <1>1, <1>6, ElementIs
<1>7. ASSUME pos < lim, AllWhole
      PROVE  /\ Cell(pos) # Unknown /\ HasToken(pos) /\ n >= 0 /\ Has(pos, n)
             /\ Shown(pos, n).out # "panic"
  <2>1. WholeOf(vals, Len(vals) + 1) /\ lim = buf.len BY <1>7 DEF AllWhole
  <2>2. WholeOf(vals, idx + 1) BY <1>1, <1>2, <2>1, WholeAll
  <2>3. Element(pos, idx) BY <1>6, <1>7, <2>2
  <2>4. /\ idx \in 1..Len(vals) /\ pos = spans[idx].start /\ Whole(vals[idx])
        /\ n = spans[idx].end - pos
        /\ spans[idx].end <= lim => Shown(pos, n).out = "ok"
      BY <1>4, <2>3, Zenon DEF Element
  <2>5. spans[idx].end \in Nat /\ spans[idx].end <= lim /\ spans[idx].start < spans[idx].body
        /\ spans[idx].body \in Nat /\ spans[idx].body <= spans[idx].end
      BY <1>0, <2>1, <2>4, SpanAt
  <2>6. HasToken(pos)
    <3>1. ASSUME ~HasToken(pos) PROVE FALSE
      <4>1. ~HasToken(spans[idx].start) /\ ~Ext8(vals[idx]) BY <2>4, <3>1, WholeFacts
      <4>2. lim < spans[idx].end BY <1>0, <1>2, <2>4, <4>1, NotFound
      <4> QED BY <1>2, <2>5, <4>2
    <3> QED BY <3>1
  <2>7. Cell(pos) # Unknown BY <1>0, <1>2, <2>4, TokenAt
  <2>8. n >= 0 /\ Has(pos, n) BY <1>1, <1>2, <2>4, <2>5, SMTT(30) DEF Has
  <2>9. Shown(pos, n).out # "panic"
    <3>1. Shown(pos, n).out = "ok" BY <2>4, <2>5
    <3> QED BY <3>1
  <2> QED BY <2>6, <2>7, <2>8, <2>9
<1>8. CASE /\ pos < lim /\ Cell(pos) # Unknown
           /\ HasToken(pos) /\ n >= 0 /\ Has(pos, n)
           /\ Shown(pos, n).out # "panic"
  <2>0. PICK y : y = Shown(pos, n).val BY Zenon
  <2>1. /\ got' = [i |-> idx, val |-> y]
        /\ pos' = pos + n /\ idx' = BehindOf(vals, idx) /\ todo' = <<Head(todo) - 1>> /\ pc' = "element"
    <3>2. /\ got' = [i |-> idx, val |-> Shown(pos, n).val]
          /\ pos' = pos + n /\ idx' = Behind(idx) /\ todo' = <<Head(todo) - 1>> /\ pc' = pc
        BY <1>1, <1>2, <1>8, <1>e
    <3> QED BY <1>0, <2>0, <3>2, BehindIs
  <2>2. pos' \in Nat /\ pos' <= lim BY <1>1, <1>2, <1>8, <2>1 DEF Has
  <2>3. BehindOf(vals, idx) \in Nat /\ BehindOf(vals, idx) <= Len(vals) + 2
        /\ (idx <= Len(vals) => idx < BehindOf(vals, idx))
        /\ (idx > Len(vals) => BehindOf(vals, idx) = Len(vals) + 2)
    BY <1>1, <1>2, BehindType
  <2>a. PICK b \in Nat, N \in Nat : b = BehindOf(vals, idx) /\ N = Len(vals) BY <1>2, <2>3
  <2>4. 1 \in 1..N BY <1>0, <2>a, FirstIs
  <2>5. 2 <= b BY <1>1, <1>5, <2>3, <2>4, <2>a
  <2>6. Head(todo') \in Nat /\ todo' = <<Head(todo')>>
    <3>1. PICK m \in Nat : m = Head(todo) - 1 BY <1>0, <1>5
    <3>2. todo' = <<m>> BY <2>1, <3>1
    <3> QED BY <3>2
  <2>7. ElementRead(pos', got')
    <3>1. got'.i = idx /\ got'.val = y BY <2>1
    <3>2. ASSUME WholeOf(vals, idx + 1)
          PROVE  ShowsRight(vals[idx], spans[idx].body, y) /\ pos' = spans[idx].end
      <4>1. Element(pos, idx) BY <1>6, <1>8, <3>2
      <4>2. /\ idx \in 1..Len(vals) /\ n = spans[idx].end - pos
            /\ spans[idx].end <= lim => ShowsRight(vals[idx], spans[idx].body, Shown(pos, n).val)
          BY <1>4, <4>1, Zenon DEF Element
      <4>3. spans[idx].end \in Nat BY <1>0, <4>2, SpanAt
      <4>4. pos' = spans[idx].end BY <1>1, <2>1, <4>2, <4>3
      <4>5. spans[idx].end <= lim BY <2>2, <4>4
      <4> QED BY <2>0, <4>2, <4>4, <4>5, Zenon
    <3> QED BY <3>1, <3>2 DEF ElementRead, ShowsRight
  <2>8. ASSUME WholeOf(vals, b) PROVE pos' = Start(b) /\ b <= Len(vals) + 1 /\ Counted(todo', b)
    <3>1. WholeOf(vals, idx + 1)
      <4>1. CASE idx <= N
        <5>1. idx + 1 <= b BY <1>1, <2>3, <2>a, <4>1
        <5> QED BY <1>1, <1>2, <2>8, <5>1, WholeLess
      <4>2. CASE idx > N
        <5>1. b = N + 2 BY <2>3, <2>a, <4>2
        <5>2. WholeOf(vals, N + 1) BY <1>2, <2>8, <5>1, WholeLess
        <5> QED BY <1>1, <1>2, <2>a, <5>2, WholeAll
      <4> QED BY <1>1, <2>a, <4>1, <4>2
    <3>2. Element(pos, idx) BY <1>6, <1>8, <3>1
    <3>3. idx \in 1..Len(vals) /\ n = spans[idx].end - pos BY <1>4, <3>2, Zenon DEF Element
    <3>4. b = idx + 1 /\ (WholeOf(vals, idx) => Counted(todo', idx + 1)) BY <1>0, <1>1, <2>1, <2>a, <3>2, ElementNext
    <3>5. WholeOf(vals, idx) BY <1>1, <1>2, <3>1, WholeLess
    <3>6. spans[idx].end \in Nat /\ Start(idx + 1) = spans[idx].end BY <1>0, <3>3, SpanAt
    <3>7. pos' = spans[idx].end BY <1>1, <2>1, <3>3, <3>6
    <3>8. idx + 1 <= Len(vals) + 1 BY <1>2, <3>3
    <3> QED BY <3>4, <3>5, <3>6, <3>7, <3>8
  <2>9. ElementAt(pos', todo', b, got') BY <1>5, <2>5, <2>6, <2>7, <2>8 DEF ElementAt
  <2>10. idx' = b /\ b \in Nat /\ 1 <= b BY <2>1, <2>5, <2>a
  <2>11. Reads(pc', pos', tok', todo', idx', got') BY <2>1, <2>2, <2>9, <2>10 DEF Reads
  <2> QED BY <1>0, <1>3, <2>1, <2>11, ReaderStep
<1>9. CASE /\ pos < lim /\ Cell(pos) # Unknown
           /\ ~HasToken(pos) \/ n < 0 \/ ~Has(pos, n) \/ Shown(pos, n).out = "panic"
  <2>1. pc' = "vpanic" /\ pos' = pos /\ idx' = idx BY <1>1, <1>2, <1>9, <1>e
  <2>2. ~AllWhole BY <1>7, <1>9
  <2>3. Reads(pc', pos', tok', todo', idx', got') BY <1>1, <2>1, <2>2 DEF Reads
  <2> QED BY <1>0, <1>3, <2>1, <2>3, ReaderStep
<1>10. CASE pos < lim /\ Cell(pos) = Unknown
  <2>1. pc' = "stray" /\ pos' = pos /\ idx' = idx BY <1>1, <1>2, <1>10 DEF ValueNext
  <2>2. ~AllWhole BY <1>7, <1>10
  <2>3. Reads(pc', pos', tok', todo', idx', got') BY <1>1, <2>1, <2>2 DEF Reads
  <2> QED BY <1>0, <1>3, <2>1, <2>3, ReaderStep
<1>11. CASE pos = lim
  <2>1. pc' = "emptied" /\ pos' = pos /\ idx' = idx BY <1>1, <1>2, <1>11 DEF ValueNext
  <2>2. ASSUME AllWhole PROVE BehindOf(vals, 1) > Len(vals) + 1
    <3>1. WholeOf(vals, Len(vals) + 1) /\ lim = buf.len BY <2>2 DEF AllWhole
    <3>2. WholeOf(vals, idx) BY <1>1, <1>2, <3>1, WholeAll
    <3>3. pos = Start(idx) /\ idx <= Len(vals) + 1 /\ Counted(todo, idx) BY <1>1, <3>2 DEF ElementAt
    <3>4. idx = Len(vals) + 1
      <4>1. ASSUME idx <= Len(vals) PROVE FALSE
        <5>1. idx \in 1..Len(vals) BY <1>1, <1>2, <4>1
        <5>2. /\ spans[idx].start \in Nat /\ spans[idx].body \in Nat /\ spans[idx].end \in Nat
              /\ spans[idx].start < spans[idx].body /\ spans[idx].body <= spans[idx].end /\ spans[idx].end <= buf.len
              /\ Start(idx) = spans[idx].start
            BY <1>0, <5>1, SpanAt
        <5> QED BY <1>2, <1>11, <3>1, <3>3, <5>2
      <4> QED BY <1>1, <1>2, <3>3, <4>1
    <3>5. PICK N \in Nat : N = Len(vals) /\ idx = N + 1 /\ 1 <= N
      <4>1. 1 \in 1..Len(vals) BY <1>0, FirstIs
      <4> QED BY <1>2, <3>4, <4>1
    <3>6. NeededOf(vals, 1)[idx - 1] = Head(todo) /\ StillOpen(vals, 1, idx - 2) BY <1>5, <3>3 DEF Counted
    <3>7. idx - 1 = N /\ idx - 2 = N - 1 BY <3>5
    <3>8. NeededOf(vals, 1)[N] > 0 /\ StillOpen(vals, 1, N - 1) BY <1>0, <3>6, <3>7
    <3>9. StillOpen(vals, 1, N)
      <4>1. ASSUME NEW k \in 1..N PROVE NeededOf(vals, 1)[k] > 0
        <5>1. CASE k = N BY <3>8, <5>1
        <5>2. CASE k # N
          <6>1. k \in 1..(N - 1) BY <3>5, <5>2
          <6> QED BY <3>8, <6>1 DEF StillOpen
        <5> QED BY <5>1, <5>2
      <4> QED BY <4>1 DEF StillOpen
    <3>10. 1 \in Nat /\ 1 <= 1 /\ N <= Len(vals) BY <3>5
    <3>11. N + 1 < BehindOf(vals, 1) /\ BehindOf(vals, 1) \in Nat BY <1>2, <3>5, <3>9, <3>10, BehindLater
    <3> QED BY <3>5, <3>11
  <2>3. Reads(pc', pos', tok', todo', idx', got') BY <1>1, <2>1, <2>2 DEF Reads
  <2> QED BY <1>0, <1>3, <2>1, <2>3, ReaderStep
<1>12. pos < lim \/ pos = lim BY <1>1, <1>2
<1> QED BY <1>8, <1>9, <1>10, <1>11, <1>12, <1>4

LEMMA NextPreserves ==
    ASSUME Inv, [Next]_vars
    PROVE  Inv'
<1>1. ASSUME NEW v \in Values, Write(v) PROVE Inv' BY <1>1, WritePreserves
<1>2. ASSUME NEW r \in {"next", "offset", "value"}, Open(r) PROVE Inv' BY <1>2, OpenPreserves
<1>3. CASE IterNext BY <1>3, IterNextPreserves
<1>4. CASE Read BY <1>4, ReadPreserves
<1>5. CASE Skip BY <1>5, SkipPreserves
<1>6. CASE SkipNext BY <1>6, SkipNextPreserves
<1>7. CASE AppendText BY <1>7, AppendTextPreserves
<1>8. CASE TextNext BY <1>8, TextNextPreserves
<1>9. CASE SkipReturns BY <1>9, SkipReturnsPreserves
<1>10. CASE ReadOffset BY <1>10, ReadOffsetPreserves
<1>11. CASE ValueLoop BY <1>11, ValueLoopPreserves
<1>12. CASE ValueNext BY <1>12, ValueNextPreserves
<1>13. CASE ValueEnds BY <1>13, ValueEndsPreserves
<1>14. CASE UNCHANGED vars
  <2>1. /\ written' = written /\ lim' = lim /\ pc' = pc /\ pos' = pos /\ tok' = tok /\ todo' = todo
        /\ idx' = idx /\ got' = got
      BY <1>14 DEF vars
  <2>2. Reads(pc', pos', tok', todo', idx', got') BY <2>1 DEF Inv
  <2>3. CASE pc # "write" BY <2>1, <2>2, <2>3, ReaderStep
  <2>4. CASE pc = "write"
    <3>1. Written /\ Fresh /\ lim \in Nat BY <2>4 DEF Inv
    <3>2. Written' BY <2>1, <3>1, WrittenFrame
    <3>3. Fresh' /\ pc' = "write" BY <2>1, <2>4, <3>1 DEF Fresh
    <3>4. Reads(pc, pos, tok, todo, idx, got)' BY <3>3 DEF Reads, Fresh
    <3> QED BY <2>1, <3>1, <3>2, <3>3, <3>4 DEF Inv
  <2> QED BY <2>3, <2>4
<1> QED BY <1>1, <1>2, <1>3, <1>4, <1>5, <1>6, <1>7, <1>8, <1>9, <1>10, <1>11, <1>12, <1>13, <1>14 DEF Next

-----------------------------------------------------------------------------
(* The theorems *)

LEMMA Invariant == Spec => []Inv
<1>1. Init => Inv BY Initially
<1>2. Inv /\ [Next]_vars => Inv' BY NextPreserves
<1> QED BY <1>1, <1>2, PTL DEF Spec

LEMMA Names ==
    ASSUME NEW i
    PROVE  /\ Meaning(i) = MeaningOf(vals[i], spans[i].body)
           /\ AsNumber(i) <=> IsNumber(vals[i], got.val)
           /\ Clean(i) <=> CleanOf(vals, i)
           /\ WholeBefore(i) <=> WholeOf(vals, i)
<1>1. Meaning(i) = MeaningOf(vals[i], spans[i].body) BY Zenon DEF Meaning, MeaningOf
<1>2. AsNumber(i) <=> IsNumber(vals[i], got.val) BY Zenon DEF AsNumber, IsNumber
<1>3. Clean(i) <=> CleanOf(vals, i) BY Zenon DEF Clean, CleanOf
<1>4. WholeBefore(i) <=> WholeOf(vals, i) BY Zenon DEF WholeBefore, WholeOf
<1> QED BY <1>1, <1>2, <1>3, <1>4, Zenon

\* What the iterator and AppendText return is what was appended, exactly if the format
\* keeps it, for every sequence of values of every type, width and length, and however
\* the last one is cut short: as far as the first time with an ext8 header, which the
\* iterator does not return (TimesRead).
THEOREM IteratorIsFaithful == Spec => []IteratorReads
<1>1. ASSUME Inv PROVE IteratorReads
  <2>1. SUFFICES ASSUME pc \in {"next", "text"}, got.i # 0, Clean(got.i + 1)
                 PROVE  /\ \/ (got.val = Meaning(got.i) <=> Kept(vals[got.i]))
                           \/ pc = "text" /\ AsNumber(got.i)
                        /\ spans[got.i].end <= lim
    BY DEF IteratorReads
  <2>2. Reads(pc, pos, tok, todo, idx, got) BY <1>1 DEF Inv
  <2>3. IterGot(got, pc) BY <2>1, <2>2 DEF Reads, NextAt
  <2>4. CleanOf(vals, got.i + 1) BY <2>1, Names
  <2>5. IterRead(vals[got.i], spans[got.i], got.val, pc) BY <2>1, <2>3, <2>4, Zenon DEF IterGot
  <2>6. Meaning(got.i) = MeaningOf(vals[got.i], spans[got.i].body) /\ (AsNumber(got.i) <=> IsNumber(vals[got.i], got.val))
      BY Names
  <2> QED BY <2>5, <2>6, Zenon DEF IterRead
<1> QED BY <1>1, Invariant, PTL

\* Between two values the iterator is where the next one begins, for every nesting of arrays
\* and maps, and it stops only where a value is incomplete or none is left.
THEOREM IteratorStaysAligned == Spec => []Aligned
<1>1. ASSUME Inv PROVE Aligned
  <2>1. Reads(pc, pos, tok, todo, idx, got) BY <1>1 DEF Inv
  <2>2. Clean(idx) <=> CleanOf(vals, idx) BY Names
  <2>3. Behind(idx) = BehindOf(vals, idx) BY BehindIs
  <2>4. Clean(Behind(idx)) <=> CleanOf(vals, BehindOf(vals, idx)) BY <2>3, Names
  <2>5. Clean(Len(vals) + 1) <=> CleanOf(vals, Len(vals) + 1) BY Names
  <2>6. pc = "next" /\ Clean(idx) => pos = IF Start(idx) <= lim THEN Start(idx) ELSE lim
      BY <2>1, <2>2 DEF Reads, NextAt, Reach
  <2>7. pc = "done" /\ Clean(Behind(idx)) /\ idx <= Len(vals) =>
          IF todo = <<>> THEN lim < spans[idx].end
                         ELSE Behind(idx) > Len(vals) + 1 \/ lim < Start(Behind(idx))
      BY <2>1, <2>3, <2>4 DEF Reads, DoneAt
  <2>8. pc = "lost" /\ Clean(Len(vals) + 1) => todo # <<>> /\ lim < buf.len BY <2>1, <2>5 DEF Reads, LostAt
  <2>9. pos <= lim BY <2>1 DEF Reads
  <2> QED BY <2>6, <2>7, <2>8, <2>9 DEF Aligned
<1> QED BY <1>1, Invariant, PTL

\* The Read functions and Value return what was appended, for every sequence of values,
\* with the exceptions that OffsetReads names, and no others.
THEOREM OffsetsAreFaithful == Spec => []OffsetReads
<1>1. ASSUME Inv PROVE OffsetReads
  <2>1. Reads(pc, pos, tok, todo, idx, got) BY <1>1 DEF Inv
  <2>2. \A i : Meaning(i) = MeaningOf(vals[i], spans[i].body) BY Names
  <2>3. \A i : AsNumber(i) <=> IsNumber(vals[i], got.val) BY Names
  <2>4. \A i : WholeBefore(i) <=> WholeOf(vals, i) BY Names
  <2>5. Behind(1) = BehindOf(vals, 1) BY BehindIs
  <2>6. FunctionsRead
    <3>1. pc = "offset" => OffsetAt(pos, idx, got) BY <2>1 DEF Reads
    <3>2. pc = "failed" => lim < spans[idx].end BY <2>1 DEF Reads
    <3>3. pc = "panic" => PanicAt(idx) BY <2>1 DEF Reads
    <3> QED BY <2>2, <3>1, <3>2, <3>3 DEF FunctionsRead, OffsetAt, PanicAt
  <2>7. ValueReads
    <3>1. pc = "element" => ElementRead(pos, got) BY <2>1 DEF Reads, ElementAt
    <3>2. pc = "element" /\ got.i # 0 /\ WholeBefore(got.i + 1) =>
             /\ (got.val = Meaning(got.i) <=> Kept(vals[got.i])) \/ AsNumber(got.i)
             /\ pos = spans[got.i].end
        BY <2>2, <2>3, <2>4, <3>1 DEF ElementRead
    <3>3. pc \in {"stray", "vpanic"} => ~AllWhole BY <2>1 DEF Reads
    <3>4. pc # "write" => lim \in Nat /\ buf.len \in Nat /\ lim <= buf.len BY <1>1 DEF Inv, Opened, Written, Within
    <3>5. pc \in {"stray", "vpanic"} => lim < buf.len \/ ~WholeBefore(Len(vals) + 1)
        BY <2>4, <3>3, <3>4 DEF AllWhole
    <3>6. pc = "yielded" /\ WholeBefore(Len(vals) + 1) /\ lim = buf.len => idx = Behind(1) \/ SignedLength(vals[1])
        BY <2>1, <2>4, <2>5 DEF Reads, AllWhole
    <3>7. pc = "emptied" /\ WholeBefore(Len(vals) + 1) /\ lim = buf.len => Behind(1) > Len(vals) + 1
        BY <2>1, <2>4, <2>5 DEF Reads, AllWhole
    <3> QED BY <3>2, <3>5, <3>6, <3>7 DEF ValueReads
  <2> QED BY <2>6, <2>7 DEF OffsetReads
<1> QED BY <1>1, Invariant, PTL

=============================================================================
