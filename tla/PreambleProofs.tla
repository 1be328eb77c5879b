--------------------------- MODULE PreambleProofs ---------------------------
(***************************************************************************)
(* Proofs about the forward preamble, for any clients, addresses and       *)
(* arrivals: what the parsers of Wire make of a part of a stream and of    *)
(* what the marshallers wrote, and from there that a backend reads the     *)
(* bytes it was promised, that the preamble gives up only on clients that  *)
(* owe it bytes, and that a backend reads the rewritten handshake and the  *)
(* PROXY v2 header as they were meant.                                     *)
(***************************************************************************)
EXTENDS Preamble, SumTheorems, SequenceTheorems

-----------------------------------------------------------------------------
(* Sequences.                                                              *)

(* A sequence and the two parts of it.                                     *)
LEMMA Parts ==
    ASSUME NEW S, NEW s \in Seq(S), NEW n \in 0..Len(s)
    PROVE  /\ SubSeq(s, 1, n) \in Seq(S) /\ Len(SubSeq(s, 1, n)) = n
           /\ \A i \in 1..n : SubSeq(s, 1, n)[i] = s[i]
           /\ Drop(s, n) \in Seq(S) /\ Len(Drop(s, n)) = Len(s) - n
           /\ \A i \in 1..(Len(s) - n) : Drop(s, n)[i] = s[n + i]
           /\ SubSeq(s, 1, n) \o Drop(s, n) = s
<1>1. Len(s) \in Nat /\ \A i \in 1..Len(s) : s[i] \in S
  BY LenProperties, ElementOfSeq
<1>2. /\ SubSeq(s, 1, n) \in Seq(S) /\ Len(SubSeq(s, 1, n)) = n
      /\ \A i \in 1..n : SubSeq(s, 1, n)[i] = s[i]
  <2>1. \A i \in 1..n : s[i] \in S
    BY <1>1
  <2> QED
    BY <2>1, <1>1, SubSeqProperties
<1>3. /\ Drop(s, n) \in Seq(S) /\ Len(Drop(s, n)) = Len(s) - n
      /\ \A i \in 1..(Len(s) - n) : Drop(s, n)[i] = s[n + i]
  <2>1. \A i \in (n + 1)..Len(s) : s[i] \in S
    BY <1>1
  <2> QED
    BY <2>1, <1>1, SubSeqProperties DEF Drop
<1>4. SubSeq(s, 1, n) \o Drop(s, n) = s
  <2>1. 1 \in 1..(Len(s) + 1) /\ n \in (1 - 1)..Len(s) /\ Len(s) \in n..Len(s)
    BY <1>1
  <2>2. SubSeq(s, 1, n) \o SubSeq(s, n + 1, Len(s)) = SubSeq(s, 1, Len(s))
    BY <2>1, ConcatAdjacentSubSeq
  <2> QED
    BY <2>2, SubSeqFull DEF Drop
<1> QED
  BY <1>2, <1>3, <1>4

(* The parts of s \o t are s and t.                                        *)
LEMMA Joined ==
    ASSUME NEW S, NEW s \in Seq(S), NEW t \in Seq(S)
    PROVE  /\ s \o t \in Seq(S) /\ Len(s \o t) = Len(s) + Len(t)
           /\ \A i \in 1..Len(s) : (s \o t)[i] = s[i]
           /\ \A i \in 1..Len(t) : (s \o t)[Len(s) + i] = t[i]
           /\ SubSeq(s \o t, 1, Len(s)) = s
           /\ Drop(s \o t, Len(s)) = t
<1> DEFINE u == s \o t
<1>1. Len(s) \in Nat /\ Len(t) \in Nat
  BY LenProperties
<1>2. /\ u \in Seq(S) /\ Len(u) = Len(s) + Len(t)
      /\ \A i \in 1..Len(s) : u[i] = s[i]
      /\ \A i \in 1..Len(t) : u[Len(s) + i] = t[i]
  BY <1>1, ConcatProperties
<1> HIDE DEF u
<1>3. Len(s) \in 0..Len(u)
  BY <1>1, <1>2
<1>4. SubSeq(u, 1, Len(s)) = s
  BY <1>1, <1>2, <1>3, Parts, SeqEqual
<1>5. /\ Drop(u, Len(s)) \in Seq(S) /\ Len(Drop(u, Len(s))) = Len(t)
      /\ \A i \in 1..Len(t) : Drop(u, Len(s))[i] = t[i]
  BY <1>1, <1>2, <1>3, Parts
<1>6. Drop(u, Len(s)) = t
  BY <1>5, SeqEqual
<1> QED
  BY <1>2, <1>4, <1>6 DEF u

(* The same of integers.                                                   *)
LEMMA JoinedInts ==
    ASSUME NEW s \in Seq(Int), NEW t \in Seq(Int)
    PROVE  /\ s \o t \in Seq(Int) /\ Len(s \o t) = Len(s) + Len(t)
           /\ SubSeq(s \o t, 1, Len(s)) = s
           /\ Drop(s \o t, Len(s)) = t
<1>1. /\ s \o t \in Seq(Int) /\ Len(s \o t) = Len(s) + Len(t)
  BY Joined
<1>2. SubSeq(s \o t, 1, Len(s)) = s
  BY Joined
<1>3. Drop(s \o t, Len(s)) = t
  BY Joined
<1> QED
  BY <1>1, <1>2, <1>3

LEMMA JoinedTo ==
    ASSUME NEW s \in Seq(Int), NEW t \in Seq(Int)
    PROVE  s \o t \in Seq(Int) /\ Len(s \o t) = Len(s) + Len(t)
BY JoinedInts

LEMMA JoinedAt ==
    ASSUME NEW s \in Seq(Int), NEW t \in Seq(Int), NEW i \in 1..Len(s)
    PROVE  (s \o t)[i] = s[i]
BY Joined

LEMMA Reassociate ==
    ASSUME NEW s \in Seq(Int), NEW t \in Seq(Int), NEW u \in Seq(Int)
    PROVE  (s \o t) \o u = s \o (t \o u)
BY ConcatAssociative

(* A part of a part.                                                       *)
LEMMA PartOfPart ==
    ASSUME NEW S, NEW s \in Seq(S), NEW n \in 0..Len(s), NEW m \in 0..n
    PROVE  /\ SubSeq(SubSeq(s, 1, n), 1, m) = SubSeq(s, 1, m)
           /\ Drop(SubSeq(s, 1, n), m) = SubSeq(Drop(s, m), 1, n - m)
           /\ Drop(SubSeq(s, 1, n), m) = SubSeq(s, m + 1, n)
<1>1. Len(s) \in Nat /\ n \in Nat /\ m \in Nat /\ m \in 0..Len(s)
  BY LenProperties
<1> DEFINE p == SubSeq(s, 1, n)
           d == Drop(s, m)
<1>2. /\ p \in Seq(S) /\ Len(p) = n /\ \A i \in 1..n : p[i] = s[i]
      /\ d \in Seq(S) /\ Len(d) = Len(s) - m /\ \A i \in 1..(Len(s) - m) : d[i] = s[m + i]
  BY <1>1, Parts
<1> HIDE DEF p, d
<1>3. SubSeq(p, 1, m) = SubSeq(s, 1, m)
  <2>1. /\ SubSeq(p, 1, m) \in Seq(S) /\ Len(SubSeq(p, 1, m)) = m
        /\ \A i \in 1..m : SubSeq(p, 1, m)[i] = p[i]
    BY <1>1, <1>2, Parts
  <2>2. /\ SubSeq(s, 1, m) \in Seq(S) /\ Len(SubSeq(s, 1, m)) = m
        /\ \A i \in 1..m : SubSeq(s, 1, m)[i] = s[i]
    BY <1>1, <1>2, Parts
  <2> QED
    BY <2>1, <2>2, <1>1, <1>2, SeqEqual
<1>4. /\ Drop(p, m) \in Seq(S) /\ Len(Drop(p, m)) = n - m
      /\ \A i \in 1..(n - m) : Drop(p, m)[i] = s[m + i]
  <2>1. /\ Drop(p, m) \in Seq(S) /\ Len(Drop(p, m)) = n - m
        /\ \A i \in 1..(n - m) : Drop(p, m)[i] = p[m + i]
    BY <1>1, <1>2, Parts
  <2> QED
    BY <2>1, <1>1, <1>2
<1>5. Drop(p, m) = SubSeq(d, 1, n - m)
  <2>1. n - m \in 0..Len(d)
    BY <1>1, <1>2
  <2>2. /\ SubSeq(d, 1, n - m) \in Seq(S) /\ Len(SubSeq(d, 1, n - m)) = n - m
        /\ \A i \in 1..(n - m) : SubSeq(d, 1, n - m)[i] = d[i]
    BY <2>1, <1>2, Parts
  <2> QED
    <3>1. \A i \in 1..(n - m) : d[i] = s[m + i]
      BY <1>1, <1>2
    <3>2. \A i \in 1..(n - m) : SubSeq(d, 1, n - m)[i] = Drop(p, m)[i]
      BY <3>1, <2>2, <1>4
    <3> QED
      BY <3>2, <2>2, <1>4, SeqEqual
<1>6. Drop(p, m) = SubSeq(s, m + 1, n)
  <2>1. \A i \in (m + 1)..n : s[i] \in S
    BY <1>1, ElementOfSeq
  <2>2. /\ SubSeq(s, m + 1, n) \in Seq(S) /\ Len(SubSeq(s, m + 1, n)) = n - m
        /\ \A i \in 1..(n - m) : SubSeq(s, m + 1, n)[i] = s[m + i]
    BY <2>1, <1>1, SubSeqProperties
  <2> QED
    BY <2>2, <1>4, SeqEqual
<1> QED
  BY <1>3, <1>5, <1>6 DEF p, d

LEMMA PartOfInts ==
    ASSUME NEW s \in Seq(Int), NEW n \in 0..Len(s), NEW m \in 0..n
    PROVE  /\ SubSeq(SubSeq(s, 1, n), 1, m) = SubSeq(s, 1, m)
           /\ Drop(SubSeq(s, 1, n), m) = SubSeq(s, m + 1, n)
           /\ SubSeq(Drop(s, m), 1, n - m) = SubSeq(s, m + 1, n)
<1>1. SubSeq(SubSeq(s, 1, n), 1, m) = SubSeq(s, 1, m)
  BY PartOfPart
<1>2. Drop(SubSeq(s, 1, n), m) = SubSeq(s, m + 1, n)
  BY PartOfPart
<1>3. Drop(SubSeq(s, 1, n), m) = SubSeq(Drop(s, m), 1, n - m)
  BY PartOfPart
<1> QED
  BY <1>1, <1>2, <1>3

-----------------------------------------------------------------------------
(* VarInts.                                                                *)

(* The least of some numbers up to five.                                   *)
LEMMA MinIsLeast ==
    ASSUME NEW S \in SUBSET (1..5), S # {}
    PROVE  Min(S) \in S /\ \A y \in S : Min(S) =< y
<1>1. \E x \in S : \A y \in S : x =< y
  <2>1. CASE 1 \in S
    BY <2>1
  <2>2. CASE 1 \notin S /\ 2 \in S
    BY <2>2
  <2>3. CASE 1 \notin S /\ 2 \notin S /\ 3 \in S
    BY <2>3
  <2>4. CASE 1 \notin S /\ 2 \notin S /\ 3 \notin S /\ 4 \in S
    BY <2>4
  <2>5. CASE 1 \notin S /\ 2 \notin S /\ 3 \notin S /\ 4 \notin S
    <3>1. \A y \in S : y = 5
      BY <2>5
    <3>2. PICK y : y \in S
      OBVIOUS
    <3> QED
      BY <3>1, <3>2
  <2> QED
    BY <2>1, <2>2, <2>3, <2>4, <2>5
<1> QED
  BY <1>1 DEF Min

(* A VarInt ends at its first byte without the continuation bit.           *)
LEMMA EndOfVarint ==
    ASSUME NEW s \in Seq(Int)
    PROVE  /\ VarintEnd(s) \in 0..5 /\ VarintEnd(s) =< Len(s)
           /\ VarintEnd(s) # 0 => /\ ~Continues(s[VarintEnd(s)])
                                  /\ \A i \in 1..(VarintEnd(s) - 1) : Continues(s[i])
           /\ \A n \in 1..5 : (/\ n =< Len(s) /\ ~Continues(s[n])
                               /\ \A i \in 1..(n - 1) : Continues(s[i]))
                              => VarintEnd(s) = n
<1> DEFINE ends == {i \in 1..5 : i =< Len(s) /\ ~Continues(s[i])}
<1>1. VarintEnd(s) = IF ends = {} THEN 0 ELSE Min(ends)
  BY DEF VarintEnd, MaxVarint
<1>2. Len(s) \in Nat /\ ends \in SUBSET (1..5)
  BY LenProperties
<1>3. CASE ends = {}
  BY <1>1, <1>2, <1>3
<1>4. CASE ends # {}
  <2>1. Min(ends) \in ends /\ \A y \in ends : Min(ends) =< y
    BY <1>2, <1>4, MinIsLeast
  <2>2. PICK m : m = Min(ends)
    OBVIOUS
  <2>3. VarintEnd(s) = m /\ m \in 1..5 /\ m =< Len(s) /\ ~Continues(s[m])
    BY <1>1, <1>4, <2>1, <2>2
  <2>4. ASSUME NEW i \in 1..(m - 1) PROVE Continues(s[i])
    <3>1. i \in 1..5 /\ i =< Len(s) /\ ~(m =< i)
      BY <2>3, <1>2
    <3> QED
      BY <3>1, <2>1, <2>2
  <2>5. ASSUME NEW n \in 1..5, n =< Len(s), ~Continues(s[n]),
               \A i \in 1..(n - 1) : Continues(s[i])
        PROVE  m = n
    <3>1. m =< n
      BY <2>1, <2>2, <2>5
    <3>2. m < n => m \in 1..(n - 1)
      BY <2>3
    <3> QED
      BY <3>1, <3>2, <2>3, <2>5
  <2> QED
    BY <2>3, <2>4, <2>5
<1> QED
  BY <1>3, <1>4

(* A digit of a VarInt is an integer.                                      *)
LEMMA ShiftedIsInt ==
    ASSUME NEW b \in Int, NEW i \in 1..5
    PROVE  Shifted(b, i) \in Int
<1>1. i = 1 \/ i = 2 \/ i = 3 \/ i = 4 \/ i = 5
  OBVIOUS
<1>2. b % 128 \in 0..127
  OBVIOUS
<1>3. CASE i = 5
  BY <1>2, <1>3 DEF Shifted, MaxVarint
<1>4. CASE i # 5
  BY <1>1, <1>2, <1>4 DEF Shifted, MaxVarint
<1> QED
  BY <1>3, <1>4

(* The sum of the digits of a VarInt, written out.                         *)
LEMMA DigitsOfVarint ==
    ASSUME NEW s \in Seq(Int)
    PROVE  /\ VarintValue(s) \in Int
           /\ VarintEnd(s) = 0 => VarintValue(s) = 0
           /\ VarintEnd(s) = 1 => VarintValue(s) = Shifted(s[1], 1)
           /\ VarintEnd(s) = 2 => VarintValue(s) = Shifted(s[2], 2) + Shifted(s[1], 1)
           /\ VarintEnd(s) = 3 => VarintValue(s) =
                Shifted(s[3], 3) + (Shifted(s[2], 2) + Shifted(s[1], 1))
           /\ VarintEnd(s) = 4 => VarintValue(s) =
                Shifted(s[4], 4) + (Shifted(s[3], 3) + (Shifted(s[2], 2) + Shifted(s[1], 1)))
           /\ VarintEnd(s) = 5 => VarintValue(s) =
                Shifted(s[5], 5) + (Shifted(s[4], 4) + (Shifted(s[3], 3)
                    + (Shifted(s[2], 2) + Shifted(s[1], 1))))
<1> DEFINE n == VarintEnd(s)
           f == [i \in 1..n |-> Shifted(s[i], i)]
           Upto(k) == Total(f, 1..k)
<1>1. n \in 0..5 /\ n =< Len(s) /\ Len(s) \in Nat
  BY EndOfVarint, LenProperties
<1>2. \A i \in 1..n : f[i] = Shifted(s[i], i) /\ f[i] \in Int
  <2>1. ASSUME NEW i \in 1..n PROVE f[i] = Shifted(s[i], i) /\ f[i] \in Int
    <3>1. i \in 1..5 /\ s[i] \in Int
      BY <1>1, ElementOfSeq
    <3> QED
      BY <3>1, ShiftedIsInt
  <2> QED
    BY <2>1
<1>3. VarintValue(s) = Upto(n)
  BY TotalIsRecursive DEF VarintValue, SumFunction
<1> HIDE DEF n, f
<1>4. \A k \in 0..n : IsFiniteSet(1..k)
  BY <1>1, FS_Interval
<1>5. Upto(0) = 0
  <2>1. 1..0 = {}
    OBVIOUS
  <2> QED
    BY <2>1, TotalOfNone
<1>6. \A k \in 1..n : Upto(k) = f[k] + Upto(k - 1)
  <2>1. ASSUME NEW k \in 1..n PROVE Upto(k) = f[k] + Upto(k - 1)
    <3>1. 1..k = (1..(k - 1)) \union {k} /\ k \notin 1..(k - 1) /\ k - 1 \in 0..n
      BY <1>1
    <3>2. \A y \in (1..(k - 1)) \union {k} : f[y] \in Int
      BY <3>1, <1>1, <1>2
    <3> QED
      BY <3>1, <3>2, <1>4, TotalOfNew
  <2> QED
    BY <2>1
<1> HIDE DEF Upto
<1>7. n >= 1 => Upto(1) = f[1] /\ f[1] \in Int
  <2>1. n >= 1 => 1 \in 1..n /\ 1 - 1 = 0
    BY <1>1
  <2>2. n >= 1 => Upto(1) = f[1] + Upto(0) /\ f[1] \in Int
    BY <2>1, <1>2, <1>6
  <2> QED
    BY <1>1, <2>2, <1>5
<1>8. n >= 2 => Upto(2) = f[2] + f[1] /\ f[2] \in Int
  <2>1. n >= 2 => 2 \in 1..n /\ 2 - 1 = 1
    BY <1>1
  <2>2. n >= 2 => Upto(2) = f[2] + Upto(1) /\ f[2] \in Int
    BY <2>1, <1>2, <1>6
  <2> QED
    BY <1>1, <2>2, <1>7
<1>9. n >= 3 => Upto(3) = f[3] + (f[2] + f[1]) /\ f[3] \in Int
  <2>1. n >= 3 => 3 \in 1..n /\ 3 - 1 = 2
    BY <1>1
  <2>2. n >= 3 => Upto(3) = f[3] + Upto(2) /\ f[3] \in Int
    BY <2>1, <1>2, <1>6
  <2> QED
    BY <1>1, <2>2, <1>8
<1>10. n >= 4 => Upto(4) = f[4] + (f[3] + (f[2] + f[1])) /\ f[4] \in Int
  <2>1. n >= 4 => 4 \in 1..n /\ 4 - 1 = 3
    BY <1>1
  <2>2. n >= 4 => Upto(4) = f[4] + Upto(3) /\ f[4] \in Int
    BY <2>1, <1>2, <1>6
  <2> QED
    BY <1>1, <2>2, <1>9
<1>11. n >= 5 => Upto(5) = f[5] + (f[4] + (f[3] + (f[2] + f[1]))) /\ f[5] \in Int
  <2>1. n >= 5 => 5 \in 1..n /\ 5 - 1 = 4
    BY <1>1
  <2>2. n >= 5 => Upto(5) = f[5] + Upto(4) /\ f[5] \in Int
    BY <2>1, <1>2, <1>6
  <2> QED
    BY <1>1, <2>2, <1>10
<1>12. n = 0 \/ n = 1 \/ n = 2 \/ n = 3 \/ n = 4 \/ n = 5
  BY <1>1
<1> DEFINE v == VarintValue(s)
<1> HIDE DEF v
<1>13. v = Upto(n)
  BY <1>3 DEF v
<1>14. CASE n = 0
  BY <1>14, <1>5, <1>13 DEF n, v
<1>15. CASE n = 1
  BY <1>15, <1>2, <1>7, <1>13 DEF n, v
<1>16. CASE n = 2
  BY <1>16, <1>2, <1>7, <1>8, <1>13 DEF n, v
<1>17. CASE n = 3
  BY <1>17, <1>2, <1>7, <1>8, <1>9, <1>13 DEF n, v
<1>18. CASE n = 4
  BY <1>18, <1>2, <1>7, <1>8, <1>9, <1>10, <1>13 DEF n, v
<1>19. CASE n = 5
  <2>1. /\ f[1] = Shifted(s[1], 1) /\ f[2] = Shifted(s[2], 2) /\ f[3] = Shifted(s[3], 3)
        /\ f[4] = Shifted(s[4], 4) /\ f[5] = Shifted(s[5], 5)
    BY <1>19, <1>2
  <2>2. v = f[5] + (f[4] + (f[3] + (f[2] + f[1])))
    BY <1>19, <1>11, <1>13
  <2>3. f[1] \in Int /\ f[2] \in Int /\ f[3] \in Int /\ f[4] \in Int /\ f[5] \in Int
    BY <1>19, <1>2
  <2>4. v \in Int
    BY <2>2, <2>3
  <2> QED
    BY <1>19, <2>1, <2>2, <2>4 DEF n, v
<1> QED
  BY <1>12, <1>14, <1>15, <1>16, <1>17, <1>18, <1>19

(* The weights of the digits of a VarInt, and the digits written out.      *)
W3 == 16384
W4 == 2097152
W5 == 268435456
SevenBits == {d \in Int : 0 =< d /\ d =< 127}

LEMMA Powers ==
    /\ 128^0 = 1 /\ 128^1 = 128 /\ 128^2 = W3 /\ 128^3 = W4
    /\ 128^4 = W5
BY SMT DEF W3, W4, W5, SevenBits

LEMMA ShiftedDigits ==
    ASSUME NEW b \in Int
    PROVE  /\ Shifted(b, 1) = b % 128
           /\ Shifted(b, 2) = (b % 128) * 128
           /\ Shifted(b, 3) = (b % 128) * W3
           /\ Shifted(b, 4) = (b % 128) * W4
           /\ Shifted(b, 5) = ((((b % 128) + 8) % 16) - 8) * W5
<1>1. b % 128 \in Int /\ (((b % 128) + 8) % 16) - 8 \in Int
  BY SMT DEF W3, W4, W5, SevenBits
<1>2. Shifted(b, 1) = b % 128
  BY SMT, <1>1 DEF Shifted, MaxVarint, W3, W4, W5, SevenBits
<1>3. Shifted(b, 2) = (b % 128) * 128
  BY SMT, <1>1, Powers DEF Shifted, MaxVarint, W3, W4, W5, SevenBits
<1>4. Shifted(b, 3) = (b % 128) * W3
  BY SMT, <1>1, Powers DEF Shifted, MaxVarint, W3, W4, W5, SevenBits
<1>5. Shifted(b, 4) = (b % 128) * W4
  BY SMT, <1>1, Powers DEF Shifted, MaxVarint, W3, W4, W5, SevenBits
<1>6. Shifted(b, 5) = ((((b % 128) + 8) % 16) - 8) * W5
  BY SMT, <1>1, Powers DEF Shifted, MaxVarint, W3, W4, W5, SevenBits
<1> QED
  BY SMT, <1>2, <1>3, <1>4, <1>5, <1>6 DEF W3, W4, W5, SevenBits

LEMMA Digits ==
    ASSUME NEW v \in Int
    PROVE  /\ Digit(v, 1) = v % 128
           /\ Digit(v, 2) = (v \div 128) % 128
           /\ Digit(v, 3) = (v \div W3) % 128
           /\ Digit(v, 4) = (v \div W4) % 128
           /\ Digit(v, 5) = (v \div W5) % 16
<1>1. Digit(v, 1) = v % 128
  BY SMT, Powers DEF Digit, MaxVarint, W3, W4, W5, SevenBits
<1>2. Digit(v, 2) = (v \div 128) % 128
  BY SMT, Powers DEF Digit, MaxVarint, W3, W4, W5, SevenBits
<1>3. Digit(v, 3) = (v \div W3) % 128
  BY SMT, Powers DEF Digit, MaxVarint, W3, W4, W5, SevenBits
<1>4. Digit(v, 4) = (v \div W4) % 128
  BY SMT, Powers DEF Digit, MaxVarint, W3, W4, W5, SevenBits
<1>5. Digit(v, 5) = (v \div W5) % 16
  BY SMT, Powers DEF Digit, MaxVarint, W3, W4, W5, SevenBits
<1> QED
  BY SMT, <1>1, <1>2, <1>3, <1>4, <1>5 DEF W3, W4, W5, SevenBits

LEMMA DigitIsDigit ==
    ASSUME NEW v \in Int, NEW i \in 1..5
    PROVE  Digit(v, i) \in SevenBits
<1> DEFINE q2 == v \div 128
           q3 == v \div W3
           q4 == v \div W4
           q5 == v \div W5
<1>1. q2 \in Int /\ q3 \in Int /\ q4 \in Int /\ q5 \in Int
  BY SMT DEF W3, W4, W5, SevenBits
<1>2. /\ Digit(v, 1) = v % 128 /\ Digit(v, 2) = q2 % 128 /\ Digit(v, 3) = q3 % 128
      /\ Digit(v, 4) = q4 % 128 /\ Digit(v, 5) = q5 % 16
  BY Digits
<1> HIDE DEF q2, q3, q4, q5
<1>3. /\ v % 128 \in SevenBits /\ q2 % 128 \in SevenBits /\ q3 % 128 \in SevenBits
      /\ q4 % 128 \in SevenBits /\ q5 % 16 \in SevenBits
  BY <1>1 DEF SevenBits
<1>4. i = 1 \/ i = 2 \/ i = 3 \/ i = 4 \/ i = 5
  OBVIOUS
<1> QED
  BY <1>2, <1>3, <1>4

(* The continuation bit does not count.                                    *)
LEMMA BitIsIgnored ==
    ASSUME NEW d \in SevenBits
    PROVE  /\ Shifted(d, 1) = d /\ Shifted(d + 128, 1) = d
           /\ Shifted(d, 2) = d * 128 /\ Shifted(d + 128, 2) = d * 128
           /\ Shifted(d, 3) = d * W3 /\ Shifted(d + 128, 3) = d * W3
           /\ Shifted(d, 4) = d * W4 /\ Shifted(d + 128, 4) = d * W4
<1>1. /\ d \in Int /\ d % 128 = d
      /\ d + 128 \in Int /\ (d + 128) % 128 = d
  BY SMT DEF W3, W4, W5, SevenBits
<1> DEFINE e == d + 128
<1>2. /\ Shifted(d, 1) = d % 128 /\ Shifted(e, 1) = e % 128
      /\ Shifted(d, 2) = (d % 128) * 128 /\ Shifted(e, 2) = (e % 128) * 128
      /\ Shifted(d, 3) = (d % 128) * W3 /\ Shifted(e, 3) = (e % 128) * W3
      /\ Shifted(d, 4) = (d % 128) * W4 /\ Shifted(e, 4) = (e % 128) * W4
  BY SMT, <1>1, ShiftedDigits DEF W3, W4, W5, SevenBits
<1> QED
  BY SMT, <1>1, <1>2 DEF W3, W4, W5, SevenBits

LEMMA ShiftedRanges ==
    ASSUME NEW b \in Int
    PROVE  /\ 0 =< Shifted(b, 1) /\ Shifted(b, 1) =< 127
           /\ 0 =< Shifted(b, 2) /\ Shifted(b, 2) =< 16256
           /\ 0 =< Shifted(b, 3) /\ Shifted(b, 3) =< 2080768
           /\ 0 =< Shifted(b, 4) /\ Shifted(b, 4) =< 266338304
           /\ -2147483648 =< Shifted(b, 5) /\ Shifted(b, 5) =< 1879048192
<1> DEFINE d == b % 128
           q == (((b % 128) + 8) % 16) - 8
<1>1. d \in SevenBits /\ q \in -8..7
  BY SMT DEF W3, W4, W5, SevenBits
<1>2. /\ Shifted(b, 1) = d
      /\ Shifted(b, 2) = d * 128
      /\ Shifted(b, 3) = d * W3
      /\ Shifted(b, 4) = d * W4
      /\ Shifted(b, 5) = q * W5
  BY SMT, ShiftedDigits DEF W3, W4, W5, SevenBits
<1> HIDE DEF d, q
<1> QED
  BY SMT, <1>1, <1>2 DEF W3, W4, W5, SevenBits

(* Digits by digits a number goes down by a factor of 128.                 *)
LEMMA DigitsMakeUp ==
    ASSUME NEW v \in Int
    PROVE  /\ v = (v % 128) + 128 * (v \div 128)
           /\ v \div 128 = ((v \div 128) % 128) + 128 * (v \div W3)
           /\ v \div W3 = ((v \div W3) % 128) + 128 * (v \div W4)
           /\ v \div W4 = ((v \div W4) % 128) + 128 * (v \div W5)
<1>1. ASSUME NEW x \in Int PROVE x = (x % 128) + 128 * (x \div 128)
  BY SMT DEF W3, W4, W5, SevenBits
<1>2. (v \div 128) \div 128 = v \div W3 /\ v \div 128 \in Int
  BY SMT DEF W3, W4, W5, SevenBits
<1>3. (v \div W3) \div 128 = v \div W4 /\ v \div W3 \in Int
  BY SMT DEF W3, W4, W5, SevenBits
<1>4. (v \div W4) \div 128 = v \div W5 /\ v \div W4 \in Int
  BY SMT DEF W3, W4, W5, SevenBits
<1> QED
  BY SMT, <1>1, <1>2, <1>3, <1>4 DEF W3, W4, W5, SevenBits

(* The 32-bit integers; of one, the fifth digit holds what is left, with   *)
(* its sign.                                                               *)
Int32 == {v \in Int : -2147483648 =< v /\ v =< 2147483647}

LEMMA LastDigit ==
    ASSUME NEW v \in Int32
    PROVE  v \div W5 = (((((v \div W5) % 16) % 128) + 8) % 16) - 8
<1>1. v \div W5 \in -8..7
  BY SMT DEF Int32, W3, W4, W5, SevenBits
<1>2. ASSUME NEW q \in -8..7 PROVE q = ((((q % 16) % 128) + 8) % 16) - 8
  BY SMT DEF W3, W4, W5, SevenBits
<1> QED
  BY SMT, <1>1, <1>2 DEF W3, W4, W5, SevenBits

(* A VarInt is a 32-bit integer.                                           *)
LEMMA VarintIsInt32 ==
    ASSUME NEW s \in Seq(Int)
    PROVE  VarintValue(s) \in Int32
<1> DEFINE n == VarintEnd(s)
           v == VarintValue(s)
           x(i) == Shifted(s[i], i)
<1>1. n \in 0..5
  BY EndOfVarint
<1>2. ASSUME NEW i \in 1..n PROVE s[i] \in Int /\ x(i) \in Int
  <2>1. i \in 1..5 /\ i \in 1..Len(s)
    BY <1>1, EndOfVarint, LenProperties
  <2> QED
    BY <2>1, ElementOfSeq, ShiftedIsInt
<1>3. n >= 1 => x(1) \in Int /\ 0 =< x(1) /\ x(1) =< 127
  BY SMT, <1>1, <1>2, ShiftedRanges DEF W3, W4, W5, SevenBits
<1>4. n >= 2 => x(2) \in Int /\ 0 =< x(2) /\ x(2) =< 16256
  BY SMT, <1>1, <1>2, ShiftedRanges DEF W3, W4, W5, SevenBits
<1>5. n >= 3 => x(3) \in Int /\ 0 =< x(3) /\ x(3) =< 2080768
  BY SMT, <1>1, <1>2, ShiftedRanges DEF W3, W4, W5, SevenBits
<1>6. n >= 4 => x(4) \in Int /\ 0 =< x(4) /\ x(4) =< 266338304
  BY SMT, <1>1, <1>2, ShiftedRanges DEF W3, W4, W5, SevenBits
<1>7. n >= 5 => x(5) \in Int /\ -2147483648 =< x(5) /\ x(5) =< 1879048192
  BY SMT, <1>1, <1>2, ShiftedRanges DEF W3, W4, W5, SevenBits
<1>8. /\ n = 0 => v = 0
      /\ n = 1 => v = x(1)
      /\ n = 2 => v = x(2) + x(1)
      /\ n = 3 => v = x(3) + (x(2) + x(1))
      /\ n = 4 => v = x(4) + (x(3) + (x(2) + x(1)))
      /\ n = 5 => v = x(5) + (x(4) + (x(3) + (x(2) + x(1))))
  BY DigitsOfVarint
<1> HIDE DEF n, v, x
<1>9. v \in Int /\ -2147483648 =< v /\ v =< 2147483647
  <2>1. n = 0 \/ n = 1 \/ n = 2 \/ n = 3 \/ n = 4 \/ n = 5
    BY <1>1
  <2>2. CASE n = 0
    BY SMT, <2>2, <1>8 DEF W3, W4, W5, SevenBits
  <2>3. CASE n = 1
    BY SMT, <2>3, <1>3, <1>8 DEF W3, W4, W5, SevenBits
  <2>4. CASE n = 2
    BY SMT, <2>4, <1>3, <1>4, <1>8 DEF W3, W4, W5, SevenBits
  <2>5. CASE n = 3
    BY SMT, <2>5, <1>3, <1>4, <1>5, <1>8 DEF W3, W4, W5, SevenBits
  <2>6. CASE n = 4
    BY SMT, <2>6, <1>3, <1>4, <1>5, <1>6, <1>8 DEF W3, W4, W5, SevenBits
  <2>7. CASE n = 5
    <3> DEFINE low == x(4) + (x(3) + (x(2) + x(1)))
    <3>1. low \in Int /\ 0 =< low /\ low =< 268435455
      BY SMT, <2>7, <1>3, <1>4, <1>5, <1>6
    <3>2. v = x(5) + low
      BY <2>7, <1>8
    <3>3. x(5) \in Int /\ -2147483648 =< x(5) /\ x(5) =< 1879048192
      BY SMT, <2>7, <1>7
    <3> HIDE DEF low
    <3> QED
      BY SMT, <3>1, <3>2, <3>3
  <2> QED
    BY SMT, <2>1, <2>2, <2>3, <2>4, <2>5, <2>6, <2>7 DEF W3, W4, W5, SevenBits
<1> QED
  BY SMT, <1>9 DEF v, Int32, W3, W4, W5, SevenBits

(* The VarInt of any integer: up to five bytes of which all but the last   *)
(* continue, and fewer than five only for what fits in them.               *)
LEMMA MarshalledVarint ==
    ASSUME NEW v \in Int
    PROVE  \E n \in 1..5 :
              /\ marshalVarint(v) \in Seq(Int) /\ Len(marshalVarint(v)) = n
              /\ \A i \in 1..n : marshalVarint(v)[i] =
                                    Digit(v, i) + (IF i < n THEN 128 ELSE 0)
              /\ n < 5 => 0 =< v /\ v < 128^n
<1> DEFINE fits == {n \in 1..4 : 0 =< v /\ v < 128^n}
           n == IF fits = {} THEN MaxVarint ELSE Min(fits)
           e(i) == Digit(v, i) + (IF i < n THEN 128 ELSE 0)
<1>1. n \in 1..5 /\ (n < 5 => n \in fits)
  BY MinIsLeast DEF MaxVarint
<1>2. marshalVarint(v) = [i \in 1..n |-> e(i)]
  BY DEF marshalVarint
<1> HIDE DEF n
<1>3. \A i \in 1..n : e(i) \in Int
  <2>1. \A i \in 1..n : Digit(v, i) \in SevenBits
    BY <1>1, DigitIsDigit
  <2> QED
    BY <2>1, <1>1 DEF SevenBits
<1>4. marshalVarint(v) \in Seq(Int) /\ Len(marshalVarint(v)) = n
  BY <1>1, <1>2, <1>3
<1> QED
  BY <1>1, <1>2, <1>4

(* A VarInt that was marshalled is read back, and the bytes after it stay. *)
LEMMA VarintRoundTrip ==
    ASSUME NEW v \in Int32, NEW t \in Seq(Int)
    PROVE  /\ VarintEnd(marshalVarint(v) \o t) = Len(marshalVarint(v))
           /\ VarintValue(marshalVarint(v) \o t) = v
           /\ readVarint(marshalVarint(v) \o t) = Parsed(v, t)
<1> DEFINE m == marshalVarint(v)
           s == m \o t
<1>0. v \in Int
  BY DEF Int32
<1>1. PICK n \in 1..5 :
         /\ m \in Seq(Int) /\ Len(m) = n
         /\ \A i \in 1..n : m[i] = Digit(v, i) + (IF i < n THEN 128 ELSE 0)
         /\ n < 5 => 0 =< v /\ v < 128^n
  BY <1>0, MarshalledVarint
<1> HIDE DEF m
<1>2. /\ s \in Seq(Int) /\ Len(s) >= n
      /\ \A i \in 1..n : s[i] = Digit(v, i) + (IF i < n THEN 128 ELSE 0)
      /\ Drop(s, n) = t
  <2>1. Len(t) \in Nat
    BY LenProperties
  <2> QED
    BY <2>1, <1>1, Joined
<1> HIDE DEF s
<1> DEFINE q2 == v \div 128
           q3 == v \div W3
           q4 == v \div W4
           q5 == v \div W5
           d1 == v % 128
           d2 == q2 % 128
           d3 == q3 % 128
           d4 == q4 % 128
           d5 == q5 % 16
<1>3. q2 \in Int /\ q3 \in Int /\ q4 \in Int /\ q5 \in Int
  BY SMT, <1>0 DEF W3, W4, W5, SevenBits
<1>4. /\ Digit(v, 1) = d1 /\ Digit(v, 2) = d2 /\ Digit(v, 3) = d3
      /\ Digit(v, 4) = d4 /\ Digit(v, 5) = d5
  BY SMT, <1>0, Digits DEF W3, W4, W5, SevenBits
<1>5. /\ v = d1 + 128 * q2 /\ q2 = d2 + 128 * q3 /\ q3 = d3 + 128 * q4
      /\ q4 = d4 + 128 * q5
  BY SMT, <1>0, DigitsMakeUp DEF W3, W4, W5, SevenBits
<1>6. q5 = (((d5 % 128) + 8) % 16) - 8
  BY SMT, LastDigit DEF W3, W4, W5, SevenBits
<1> HIDE DEF q2, q3, q4, q5
<1>7. /\ d1 \in SevenBits /\ d2 \in SevenBits /\ d3 \in SevenBits /\ d4 \in SevenBits
      /\ d5 \in 0..15
  BY <1>0, <1>3 DEF SevenBits
<1> HIDE DEF d1, d2, d3, d4, d5
<1>8. VarintEnd(s) = n
  <2>1. \A i \in 1..n : Digit(v, i) \in SevenBits
    <3>1. ASSUME NEW i \in 1..n PROVE Digit(v, i) \in SevenBits
      <4>1. i \in 1..5
        BY <1>1
      <4> QED
        BY <4>1, <1>0, DigitIsDigit
    <3> QED
      BY <3>1
  <2>2. ~Continues(s[n]) /\ \A i \in 1..(n - 1) : Continues(s[i])
    <3>1. ASSUME NEW i \in 1..(n - 1) PROVE Continues(s[i])
      <4>1. i \in 1..n /\ s[i] = Digit(v, i) + 128
        BY <1>1, <1>2
      <4> QED
        BY <4>1, <2>1 DEF Continues, SevenBits
    <3>2. n \in 1..n /\ s[n] = Digit(v, n)
      <4>1. n \in 1..n /\ s[n] = Digit(v, n) + 0
        BY <1>1, <1>2
      <4> QED
        BY <4>1, <2>1 DEF SevenBits
    <3> QED
      BY <3>1, <3>2, <2>1 DEF Continues, SevenBits
  <2> QED
    BY <2>2, <1>1, <1>2, EndOfVarint
<1>9. VarintValue(s) = v
  <2>1. CASE n = 1
    <3>1. s[1] = d1
      BY <2>1, <1>2, <1>4, <1>7 DEF SevenBits
    <3>2. Shifted(s[1], 1) = d1
      BY <2>1, <3>1, <1>7, BitIsIgnored
    <3>3. v = d1
      BY SMT, <2>1, <1>1, <1>5, <1>3, <1>7, <1>0, Powers DEF W3, W4, W5, SevenBits
    <3> QED
      BY <2>1, <3>2, <3>3, <1>2, <1>8, DigitsOfVarint
  <2>2. CASE n = 2
    <3>1. s[1] = d1 + 128 /\ s[2] = d2
      BY <2>2, <1>2, <1>4, <1>7 DEF SevenBits
    <3>2. Shifted(s[1], 1) = d1 /\ Shifted(s[2], 2) = d2 * 128
      BY <2>2, <3>1, <1>7, BitIsIgnored
    <3>3. q3 = 0
      BY SMT, <2>2, <1>1, <1>5, <1>3, <1>7, <1>0, Powers DEF W3, W4, W5, SevenBits
    <3>4. VarintValue(s) = d2 * 128 + d1
      BY SMT, <2>2, <3>2, <1>2, <1>8, DigitsOfVarint DEF W3, W4, W5, SevenBits
    <3> QED
      BY SMT, <3>3, <3>4, <1>5, <1>7 DEF W3, W4, W5, SevenBits
  <2>3. CASE n = 3
    <3>1. s[1] = d1 + 128 /\ s[2] = d2 + 128 /\ s[3] = d3
      <4>1. 1 \in 1..n /\ 2 \in 1..n /\ 3 \in 1..n
        BY <2>3
      <4>2. /\ s[1] = Digit(v, 1) + 128 /\ s[2] = Digit(v, 2) + 128
            /\ s[3] = Digit(v, 3) + 0
        BY <4>1, <2>3, <1>2
      <4> QED
        BY <4>2, <1>4, <1>7 DEF SevenBits
    <3>2. /\ Shifted(s[1], 1) = d1 /\ Shifted(s[2], 2) = d2 * 128
          /\ Shifted(s[3], 3) = d3 * W3
      BY <2>3, <3>1, <1>7, BitIsIgnored
    <3>3. q4 = 0
      BY SMT, <2>3, <1>1, <1>5, <1>3, <1>7, <1>0, Powers DEF W3, W4, W5, SevenBits
    <3>4. VarintValue(s) = d3 * W3 + (d2 * 128 + d1)
      BY SMT, <2>3, <3>2, <1>2, <1>8, DigitsOfVarint DEF W3, W4, W5, SevenBits
    <3> QED
      BY SMT, <3>3, <3>4, <1>5, <1>7 DEF W3, W4, W5, SevenBits
  <2>4. CASE n = 4
    <3>1. s[1] = d1 + 128 /\ s[2] = d2 + 128 /\ s[3] = d3 + 128 /\ s[4] = d4
      <4>1. 1 \in 1..n /\ 2 \in 1..n /\ 3 \in 1..n /\ 4 \in 1..n
        BY <2>4
      <4>2. /\ s[1] = Digit(v, 1) + 128 /\ s[2] = Digit(v, 2) + 128
            /\ s[3] = Digit(v, 3) + 128 /\ s[4] = Digit(v, 4) + 0
        BY <4>1, <2>4, <1>2
      <4> QED
        BY <4>2, <1>4, <1>7 DEF SevenBits
    <3>2. /\ Shifted(s[1], 1) = d1 /\ Shifted(s[2], 2) = d2 * 128
          /\ Shifted(s[3], 3) = d3 * W3 /\ Shifted(s[4], 4) = d4 * W4
      BY <2>4, <3>1, <1>7, BitIsIgnored
    <3>3. q5 = 0
      BY SMT, <2>4, <1>1, <1>5, <1>3, <1>7, <1>0, Powers DEF W3, W4, W5, SevenBits
    <3>4. VarintValue(s) = d4 * W4 + (d3 * W3 + (d2 * 128 + d1))
      BY SMT, <2>4, <3>2, <1>2, <1>8, DigitsOfVarint DEF W3, W4, W5, SevenBits
    <3> QED
      BY SMT, <3>3, <3>4, <1>5, <1>7 DEF W3, W4, W5, SevenBits
  <2>5. CASE n = 5
    <3>1. /\ s[1] = d1 + 128 /\ s[2] = d2 + 128 /\ s[3] = d3 + 128
          /\ s[4] = d4 + 128 /\ s[5] = d5
      <4>1. 1 \in 1..n /\ 2 \in 1..n /\ 3 \in 1..n /\ 4 \in 1..n /\ 5 \in 1..n
        BY <2>5
      <4>2. /\ s[1] = Digit(v, 1) + 128 /\ s[2] = Digit(v, 2) + 128
            /\ s[3] = Digit(v, 3) + 128 /\ s[4] = Digit(v, 4) + 128
            /\ s[5] = Digit(v, 5) + 0
        BY <4>1, <2>5, <1>2
      <4> QED
        BY <4>2, <1>4, <1>7 DEF SevenBits
    <3>2. /\ Shifted(s[1], 1) = d1 /\ Shifted(s[2], 2) = d2 * 128
          /\ Shifted(s[3], 3) = d3 * W3 /\ Shifted(s[4], 4) = d4 * W4
      BY <2>5, <3>1, <1>7, BitIsIgnored
    <3>3. Shifted(s[5], 5) = q5 * W5
      <4>1. d5 \in Int
        BY <1>7
      <4>2. Shifted(d5, 5) = ((((d5 % 128) + 8) % 16) - 8) * W5
        BY <4>1, ShiftedDigits
      <4> QED
        BY SMT, <4>2, <3>1, <1>6 DEF W3, W4, W5, SevenBits
    <3>4. VarintValue(s) =
             q5 * W5 + (d4 * W4 + (d3 * W3 + (d2 * 128 + d1)))
      BY SMT, <2>5, <3>2, <3>3, <1>2, <1>8, DigitsOfVarint DEF W3, W4, W5, SevenBits
    <3> QED
      BY SMT, <3>4, <1>3, <1>5, <1>7 DEF W3, W4, W5, SevenBits
  <2> QED
    BY <2>1, <2>2, <2>3, <2>4, <2>5
<1>10. readVarint(s) = Parsed(v, t)
  BY <1>2, <1>8, <1>9 DEF readVarint
<1> QED
  BY <1>1, <1>8, <1>9, <1>10 DEF s, m

-----------------------------------------------------------------------------
(* Parsers.                                                                *)

(* A VarInt is in the bytes up to its end.                                 *)
LEMMA VarintOfPart ==
    ASSUME NEW s \in Seq(Int), NEW k \in 0..Len(s), VarintEnd(SubSeq(s, 1, k)) # 0
    PROVE  /\ VarintEnd(s) = VarintEnd(SubSeq(s, 1, k))
           /\ VarintValue(s) = VarintValue(SubSeq(s, 1, k))
<1> DEFINE p == SubSeq(s, 1, k)
           n == VarintEnd(p)
<1>1. /\ p \in Seq(Int) /\ Len(p) = k /\ \A i \in 1..k : p[i] = s[i]
      /\ k \in Nat /\ k =< Len(s) /\ Len(s) \in Nat
  BY Parts, LenProperties
<1> HIDE DEF p
<1>2. /\ n \in 1..5 /\ n =< k /\ ~Continues(p[n])
      /\ \A i \in 1..(n - 1) : Continues(p[i])
  <2>1. n # 0
    BY DEF p
  <2>2. /\ n \in 0..5 /\ n =< Len(p) /\ (n # 0 => ~Continues(p[n]))
        /\ n # 0 => \A i \in 1..(n - 1) : Continues(p[i])
    BY <1>1, EndOfVarint
  <2>3. n \in 1..5 /\ n =< k
    BY <2>1, <2>2, <1>1
  <2> QED
    BY <2>1, <2>2, <2>3
<1> HIDE DEF n
<1>3. \A i \in 1..n : p[i] = s[i]
  BY <1>1, <1>2
<1>4. VarintEnd(s) = n
  <2>1. n =< Len(s) /\ n \in 1..n /\ \A i \in 1..(n - 1) : i \in 1..n
    BY <1>1, <1>2
  <2>2. ~Continues(s[n]) /\ \A i \in 1..(n - 1) : Continues(s[i])
    BY <2>1, <1>2, <1>3
  <2> QED
    BY <2>1, <2>2, <1>2, EndOfVarint
<1>5. [i \in 1..n |-> Shifted(s[i], i)] = [i \in 1..n |-> Shifted(p[i], i)]
  BY <1>3
<1>6. VarintValue(s) = VarintValue(p)
  BY <1>4, <1>5 DEF VarintValue, n
<1> QED
  BY <1>4, <1>6 DEF p, n

(* What reading a VarInt or a string leaves, and what it reads.            *)
LEMMA ReadVarintShape ==
    ASSUME NEW s \in Seq(Int), readVarint(s).ok
    PROVE  /\ readVarint(s) = Parsed(VarintValue(s), Drop(s, VarintEnd(s)))
           /\ readVarint(s).val \in Int32
           /\ readVarint(s).rest \in Seq(Int) /\ Len(readVarint(s).rest) =< Len(s)
<1>1. readVarint(s) = Parsed(VarintValue(s), Drop(s, VarintEnd(s)))
  BY DEF readVarint, Malformed
<1>2. VarintEnd(s) \in 0..Len(s) /\ Len(s) \in Nat
  BY EndOfVarint, LenProperties
<1>3. Drop(s, VarintEnd(s)) \in Seq(Int) /\ Len(Drop(s, VarintEnd(s))) =< Len(s)
  BY <1>2, Parts
<1> QED
  BY <1>1, <1>3, VarintIsInt32 DEF Parsed

LEMMA ReadStringShape ==
    ASSUME NEW s \in Seq(Int), readString(s).ok
    PROVE  /\ readString(s).val \in Seq(Int) /\ Len(readString(s).val) =< Len(s)
           /\ readString(s).rest \in Seq(Int)
<1> DEFINE n == readVarint(s)
<1>1. /\ n.ok /\ n.val \in 0..Len(n.rest)
      /\ readString(s) = Parsed(SubSeq(n.rest, 1, n.val), Drop(n.rest, n.val))
  BY DEF readString, Malformed
<1>2. n.rest \in Seq(Int) /\ Len(n.rest) =< Len(s)
  BY <1>1, ReadVarintShape
<1> HIDE DEF n
<1>3. Len(s) \in Nat /\ Len(n.rest) \in Nat
  BY <1>2, LenProperties
<1>4. /\ SubSeq(n.rest, 1, n.val) \in Seq(Int) /\ Len(SubSeq(n.rest, 1, n.val)) = n.val
      /\ Drop(n.rest, n.val) \in Seq(Int)
  BY <1>1, <1>2, Parts
<1> QED
  BY <1>1, <1>2, <1>3, <1>4 DEF Parsed

(* A handshake that parses has the fields of one.                          *)
LEMMA HandshakeShape ==
    ASSUME NEW f, f.Body \in Seq(Int), ParseHandshake(f).ok
    PROVE  LET h == ParseHandshake(f).val
           IN /\ h = [Protocol |-> h.Protocol, Host |-> h.Host, Port |-> h.Port,
                      Intent |-> h.Intent]
              /\ h.Protocol \in Int32 /\ h.Intent \in Int32 /\ h.Port \in Int
              /\ h.Host \in Seq(Int) /\ Len(h.Host) =< Len(f.Body)
<1> DEFINE protocol == readVarint(f.Body)
           host == readString(protocol.rest)
           intent == readVarint(Drop(host.rest, 2))
           h == [Protocol |-> protocol.val, Host |-> host.val,
                 Port |-> Uint16(host.rest), Intent |-> intent.val]
<1>1. /\ protocol.ok /\ host.ok /\ Len(host.rest) >= 2 /\ intent.ok
      /\ ParseHandshake(f).val = h
  BY DEF ParseHandshake, Malformed, Parsed
<1>2. /\ protocol.val \in Int32 /\ protocol.rest \in Seq(Int)
      /\ Len(protocol.rest) =< Len(f.Body)
  BY <1>1, ReadVarintShape
<1> HIDE DEF protocol
<1>3. /\ host.val \in Seq(Int) /\ Len(host.val) =< Len(protocol.rest)
      /\ host.rest \in Seq(Int)
  BY <1>1, <1>2, ReadStringShape
<1> HIDE DEF host
<1>4. Uint16(host.rest) \in Int
  <2>1. Len(host.rest) \in Nat /\ 1 \in 1..Len(host.rest) /\ 2 \in 1..Len(host.rest)
    BY <1>1, <1>3, LenProperties
  <2> QED
    BY <2>1, <1>3, ElementOfSeq DEF Uint16
<1>5. intent.val \in Int32
  <2>1. 2 \in 0..Len(host.rest)
    BY <1>1, <1>3, LenProperties
  <2>2. Drop(host.rest, 2) \in Seq(Int)
    BY <2>1, <1>3, Parts
  <2> QED
    BY <2>2, <1>1, ReadVarintShape
<1> HIDE DEF intent
<1>6. Len(host.val) =< Len(f.Body)
  <2>1. Len(host.val) \in Nat /\ Len(protocol.rest) \in Nat /\ Len(f.Body) \in Nat
    BY <1>2, <1>3, LenProperties
  <2> QED
    BY <2>1, <1>2, <1>3
<1> QED
  BY <1>1, <1>2, <1>3, <1>4, <1>5, <1>6

(* The frame at the start of a stream, and the bytes after it.             *)
LEMMA FrameShape ==
    ASSUME NEW s \in Seq(Int), FrameStatus(s) = "frame"
    PROVE  LET f == ReadFrame(s)
           IN /\ VarintEnd(s) \in 1..5
              /\ VarintValue(s) \in Nat /\ VarintValue(s) =< MaxFrame
              /\ f.Raw = SubSeq(s, 1, VarintEnd(s) + VarintValue(s))
              /\ f.Raw \in Seq(Int) /\ Len(f.Raw) = VarintEnd(s) + VarintValue(s)
              /\ Len(f.Raw) \in 1..Len(s) /\ Len(f.Raw) =< MaxFrame + 5
              /\ f.Body \in Seq(Int) /\ Len(f.Body) =< Len(f.Raw)
              /\ f.Raw \o Drop(s, Len(f.Raw)) = s
<1> DEFINE n == VarintEnd(s)
           v == VarintValue(s)
           raw == SubSeq(s, 1, n + v)
           l == VarintEnd(Drop(raw, n))
<1>1. n # 0 /\ v \in 1..MaxFrame /\ ~(Len(s) < n + v)
  BY DEF FrameStatus
<1>2. MaxFrame \in Nat
  BY SMT DEF MaxFrame
<1>3. n \in 1..5 /\ v \in Nat /\ v =< MaxFrame /\ v >= 1 /\ Len(s) \in Nat
  BY <1>1, <1>2, EndOfVarint, LenProperties
<1>4. /\ ReadFrame(s).Raw = raw
      /\ ReadFrame(s).Body = Drop(raw, n + l)
  BY DEF ReadFrame, decodeVarint
<1> HIDE DEF n, v
<1>5. n + v \in 1..Len(s) /\ n + v =< MaxFrame + 5 /\ n + v \in 0..Len(s)
  BY <1>1, <1>2, <1>3
<1>6. raw \in Seq(Int) /\ Len(raw) = n + v /\ raw \o Drop(s, n + v) = s
  BY <1>5, Parts
<1> HIDE DEF raw
<1>7. n \in 0..Len(raw)
  BY <1>3, <1>6
<1>8. Drop(raw, n) \in Seq(Int) /\ Len(Drop(raw, n)) = v
  BY <1>3, <1>6, <1>7, Parts
<1>9. l \in 0..v
  BY <1>3, <1>8, EndOfVarint
<1> HIDE DEF l
<1>10. n + l \in 0..Len(raw)
  BY <1>3, <1>6, <1>9
<1>11. Drop(raw, n + l) \in Seq(Int) /\ Len(Drop(raw, n + l)) =< Len(raw)
  <2>1. Len(Drop(raw, n + l)) = Len(raw) - (n + l)
    BY <1>6, <1>10, Parts
  <2>2. Drop(raw, n + l) \in Seq(Int)
    BY <1>6, <1>10, Parts
  <2> QED
    BY <2>1, <2>2, <1>3, <1>6, <1>9
<1> QED
  BY <1>3, <1>4, <1>5, <1>6, <1>11 DEF raw, n, v

(* A frame that has arrived is the frame of all that will: bytes after it  *)
(* change nothing.                                                         *)
LEMMA FrameOfPart ==
    ASSUME NEW s \in Seq(Int), NEW k \in 0..Len(s), FrameStatus(SubSeq(s, 1, k)) = "frame"
    PROVE  /\ FrameStatus(s) = "frame"
           /\ ReadFrame(s) = ReadFrame(SubSeq(s, 1, k))
           /\ Len(ReadFrame(s).Raw) \in 1..k
<1> DEFINE p == SubSeq(s, 1, k)
           n == VarintEnd(p)
           v == VarintValue(p)
<1>1. p \in Seq(Int) /\ Len(p) = k /\ k \in Nat /\ k =< Len(s) /\ Len(s) \in Nat
  BY Parts, LenProperties
<1>2. /\ n \in 1..5 /\ v \in Nat /\ Len(ReadFrame(p).Raw) = n + v
      /\ Len(ReadFrame(p).Raw) \in 1..k
  BY <1>1, FrameShape
<1>3. VarintEnd(s) = n /\ VarintValue(s) = v
  BY <1>2, VarintOfPart
<1>4. n # 0 /\ v \in 1..MaxFrame /\ n + v =< k
  BY <1>1, <1>2 DEF FrameStatus
<1>5. FrameStatus(s) = "frame"
  <2>1. ~(Len(s) < n + v)
    BY <1>1, <1>2, <1>4
  <2> QED
    BY <2>1, <1>3, <1>4 DEF FrameStatus
<1>6. SubSeq(s, 1, n + v) = SubSeq(p, 1, n + v)
  <2>1. n + v \in 0..k
    BY <1>2, <1>4
  <2> QED
    BY <2>1, PartOfPart
<1>7. ReadFrame(s) = ReadFrame(p)
  BY <1>3, <1>6 DEF ReadFrame
<1> QED
  BY <1>2, <1>5, <1>7

-----------------------------------------------------------------------------
(* Marshallers.                                                            *)

(* The middle one of three sequences.                                      *)
LEMMA Middle ==
    ASSUME NEW a \in Seq(Int), NEW b \in Seq(Int), NEW c \in Seq(Int)
    PROVE  /\ a \o (b \o c) \in Seq(Int)
           /\ Len(a \o (b \o c)) = Len(a) + (Len(b) + Len(c))
           /\ SubSeq(a \o (b \o c), Len(a) + 1, Len(a) + Len(b)) = b
           /\ Drop(a \o (b \o c), Len(a) + Len(b)) = c
<1> DEFINE d == b \o c
           s == a \o d
<1>1. Len(a) \in Nat /\ Len(b) \in Nat /\ Len(c) \in Nat
  BY LenProperties
<1>2. /\ d \in Seq(Int) /\ Len(d) = Len(b) + Len(c)
      /\ SubSeq(d, 1, Len(b)) = b /\ Drop(d, Len(b)) = c
  BY JoinedInts
<1>3. s = (a \o b) \o c
  BY Reassociate
<1> HIDE DEF d
<1>4. s \in Seq(Int) /\ Len(s) = Len(a) + Len(d) /\ Drop(s, Len(a)) = d
  BY <1>2, JoinedInts
<1>5. a \o b \in Seq(Int) /\ Len(a \o b) = Len(a) + Len(b)
  BY JoinedInts
<1>6. Drop(s, Len(a) + Len(b)) = c
  <2>1. Drop((a \o b) \o c, Len(a \o b)) = c
    BY <1>5, JoinedInts
  <2> QED
    BY <2>1, <1>3, <1>5
<1> HIDE DEF s
<1>7. SubSeq(s, Len(a) + 1, Len(a) + Len(b)) = b
  <2> DEFINE k == Len(a) + Len(b)
  <2>1. k \in 0..Len(s) /\ Len(a) \in 0..k /\ k - Len(a) = Len(b)
    BY <1>1, <1>2, <1>4
  <2> HIDE DEF k
  <2>2. SubSeq(s, Len(a) + 1, k) = SubSeq(Drop(s, Len(a)), 1, k - Len(a))
    BY <2>1, <1>4, PartOfInts
  <2> QED
    BY <2>1, <2>2, <1>2, <1>4 DEF k
<1> QED
  BY <1>2, <1>4, <1>6, <1>7 DEF s, d

LEMMA BigEndianRoundTrip ==
    ASSUME NEW n \in Int, NEW t \in Seq(Int)
    PROVE  /\ BigEndian(n) \in Seq(Int) /\ Len(BigEndian(n)) = 2
           /\ Uint16(BigEndian(n) \o t) = n
           /\ Drop(BigEndian(n) \o t, 2) = t
<1>1. n \div 256 \in Int /\ n % 256 \in Int /\ ((n \div 256) * 256) + (n % 256) = n
  BY SMT
<1>2. /\ BigEndian(n) \in Seq(Int) /\ Len(BigEndian(n)) = 2
      /\ BigEndian(n)[1] = n \div 256 /\ BigEndian(n)[2] = n % 256
  BY <1>1 DEF BigEndian
<1>3. /\ (BigEndian(n) \o t)[1] = n \div 256 /\ (BigEndian(n) \o t)[2] = n % 256
      /\ Drop(BigEndian(n) \o t, 2) = t
  <2>1. 1 \in 1..Len(BigEndian(n)) /\ 2 \in 1..Len(BigEndian(n))
    BY <1>2
  <2>2. /\ (BigEndian(n) \o t)[1] = BigEndian(n)[1]
        /\ (BigEndian(n) \o t)[2] = BigEndian(n)[2]
    <3> DEFINE be == BigEndian(n)
    <3>1. be \in Seq(Int) /\ 1 \in 1..Len(be) /\ 2 \in 1..Len(be)
      BY <2>1, <1>2
    <3> HIDE DEF be
    <3>2. (be \o t)[1] = be[1]
      BY <3>1, JoinedAt
    <3>3. (be \o t)[2] = be[2]
      BY <3>1, JoinedAt
    <3> QED
      BY <3>2, <3>3 DEF be
  <2>3. Drop(BigEndian(n) \o t, 2) = t
    BY <1>2, JoinedInts
  <2> QED
    BY <2>2, <2>3, <1>2
<1> QED
  BY <1>1, <1>2, <1>3 DEF Uint16

(* The bytes of a handshake, from the left.                                *)
LEMMA HandshakeBytes ==
    ASSUME NEW h, h.Protocol \in Int, h.Port \in Int, h.Intent \in Int,
           NEW host \in Seq(Int)
    PROVE  \E body \in Seq(Int) :
             /\ body = marshalVarint(h.Protocol) \o (marshalVarint(Len(host))
                         \o (host \o (BigEndian(h.Port) \o marshalVarint(h.Intent))))
             /\ Len(body) =< Len(host) + 17
             /\ marshalVarint(0) \o body \in Seq(Int)
             /\ Len(marshalVarint(0) \o body) \in Nat
             /\ Len(marshalVarint(0) \o body) =< Len(host) + 22
             /\ MarshalHandshake(h, host) =
                  marshalVarint(Len(marshalVarint(0) \o body)) \o (marshalVarint(0) \o body)
             /\ MarshalHandshake(h, host) \in Seq(Int)
<1> DEFINE mp == marshalVarint(h.Protocol)
           ml == marshalVarint(Len(host))
           ms == ml \o host
           be == BigEndian(h.Port)
           mi == marshalVarint(h.Intent)
           z == marshalVarint(0)
           body == mp \o (ml \o (host \o (be \o mi)))
           payload == z \o body
<1>1. Len(host) \in Nat
  BY LenProperties
<1>2. ASSUME NEW v \in Int
      PROVE  marshalVarint(v) \in Seq(Int) /\ Len(marshalVarint(v)) \in 1..5
  BY MarshalledVarint
<1>3. /\ mp \in Seq(Int) /\ Len(mp) \in 1..5 /\ ml \in Seq(Int) /\ Len(ml) \in 1..5
      /\ mi \in Seq(Int) /\ Len(mi) \in 1..5 /\ z \in Seq(Int) /\ Len(z) \in 1..5
  <2>1. Len(host) \in Int /\ 0 \in Int
    BY <1>1
  <2>2. mp \in Seq(Int) /\ Len(mp) \in 1..5
    BY <1>2
  <2>3. ml \in Seq(Int) /\ Len(ml) \in 1..5
    BY <2>1, <1>2
  <2>4. mi \in Seq(Int) /\ Len(mi) \in 1..5
    BY <1>2
  <2>5. z \in Seq(Int) /\ Len(z) \in 1..5
    BY <2>1, <1>2
  <2> QED
    BY <2>2, <2>3, <2>4, <2>5
<1>4. be \in Seq(Int) /\ Len(be) = 2
  BY BigEndianRoundTrip
<1>5. MarshalHandshake(h, host) =
         marshalVarint(Len(z \o (mp \o ms \o be \o mi))) \o (z \o (mp \o ms \o be \o mi))
  BY DEF MarshalHandshake, marshalString
<1> HIDE DEF mp, ml, be, mi, z
<1> DEFINE x == be \o mi
<1>6. x \in Seq(Int) /\ Len(x) = 2 + Len(mi)
  BY <1>3, <1>4, JoinedInts
<1>7. ms \in Seq(Int)
  BY <1>3, JoinedInts
<1>8. mp \o ms \o be \o mi = body
  <2>1. ms \o x = ml \o (host \o x)
    <3> HIDE DEF x
    <3>1. ml \in Seq(Int) /\ host \in Seq(Int) /\ x \in Seq(Int)
      BY <1>3, <1>6
    <3> QED
      BY <3>1, Reassociate
  <2> HIDE DEF ms
  <2> DEFINE m == mp \o ms
  <2>2. m \in Seq(Int)
    BY <1>3, <1>7, JoinedInts
  <2>3. m \o x = mp \o (ms \o x)
    <3> HIDE DEF x
    <3>1. mp \in Seq(Int) /\ ms \in Seq(Int) /\ x \in Seq(Int)
      BY <1>3, <1>6, <1>7
    <3> QED
      BY <3>1, Reassociate
  <2>4. m \o be \o mi = m \o x
    <3> HIDE DEF m
    <3>1. m \in Seq(Int) /\ be \in Seq(Int) /\ mi \in Seq(Int)
      BY <2>2, <1>3, <1>4
    <3> QED
      BY <3>1, Reassociate
  <2> QED
    BY <2>1, <2>3, <2>4
<1> HIDE DEF x
<1> DEFINE hx == host \o x
           lhx == ml \o hx
<1>9. hx \in Seq(Int) /\ Len(hx) = Len(host) + Len(x)
  BY <1>6, JoinedInts
<1> HIDE DEF hx
<1>10. lhx \in Seq(Int) /\ Len(lhx) = Len(ml) + Len(hx)
  BY <1>3, <1>9, JoinedInts
<1> HIDE DEF lhx
<1>11. body = mp \o lhx
  BY DEF lhx, hx, x
<1>12. body \in Seq(Int) /\ Len(body) = Len(mp) + Len(lhx)
  BY <1>3, <1>10, <1>11, JoinedInts
<1> HIDE DEF body
<1>13. payload \in Seq(Int) /\ Len(payload) = Len(z) + Len(body)
  BY <1>3, <1>12, JoinedInts
<1>14. Len(body) =< Len(host) + 17 /\ Len(payload) =< Len(host) + 22 /\ Len(payload) \in Nat
  <2> DEFINE a == Len(mp)
             b == Len(ml)
             c == Len(mi)
             d == Len(z)
             e == Len(host)
             m == Len(body)
             n == Len(payload)
  <2>1. m = a + (b + (e + (2 + c))) /\ n = d + m
    BY <1>6, <1>9, <1>10, <1>12, <1>13
  <2>2. a \in 1..5 /\ b \in 1..5 /\ c \in 1..5 /\ d \in 1..5 /\ e \in Nat
    BY <1>1, <1>3
  <2> HIDE DEF a, b, c, d, e, m, n
  <2>3. m =< e + 17 /\ n =< e + 22 /\ n \in Nat
    BY <2>1, <2>2
  <2> QED
    BY <2>3 DEF e, m, n
<1>15. MarshalHandshake(h, host) = marshalVarint(Len(payload)) \o payload
  BY <1>5, <1>8
<1> HIDE DEF payload
<1>16. MarshalHandshake(h, host) \in Seq(Int)
  BY <1>2, <1>13, <1>14, <1>15, JoinedInts
<1> QED
  BY <1>12, <1>13, <1>14, <1>15, <1>16 DEF payload, body, mp, ml, be, mi, z

MaxHost == 100000

(* A backend that finds a frame in front of bytes that start with a        *)
(* marshalled handshake reads that handshake, and nothing else in it.      *)
LEMMA HandshakeRoundTrip ==
    ASSUME NEW h, h.Protocol \in Int32, h.Port \in Int, h.Intent \in Int32,
           NEW host \in Seq(Int), Len(host) =< MaxHost, NEW t \in Seq(Int),
           FrameStatus(MarshalHandshake(h, host) \o t) = "frame"
    PROVE  ParseHandshake(ReadFrame(MarshalHandshake(h, host) \o t)) =
             Parsed([Protocol |-> h.Protocol, Host |-> host, Port |-> h.Port,
                     Intent |-> h.Intent], <<>>)
<1> DEFINE mp == marshalVarint(h.Protocol)
           ml == marshalVarint(Len(host))
           be == BigEndian(h.Port)
           mi == marshalVarint(h.Intent)
           z == marshalVarint(0)
           frame == MarshalHandshake(h, host)
           s == frame \o t
<1>1. h.Protocol \in Int /\ h.Intent \in Int /\ Len(host) \in Nat
  BY LenProperties DEF Int32
<1>2. PICK body \in Seq(Int) :
         /\ body = mp \o (ml \o (host \o (be \o mi)))
         /\ z \o body \in Seq(Int)
         /\ Len(z \o body) \in Nat /\ Len(z \o body) =< Len(host) + 22
         /\ frame = marshalVarint(Len(z \o body)) \o (z \o body)
         /\ frame \in Seq(Int)
  BY <1>1, HandshakeBytes
<1> DEFINE payload == z \o body
           ln == Len(payload)
           mn == marshalVarint(ln)
<1>3. Len(host) \in Int32 /\ 0 \in Int32
  BY SMT, <1>1 DEF Int32, MaxHost
<1>4. ln \in Int32 /\ ln \in Int
  <2>1. ln \in Nat /\ ln =< Len(host) + 22
    BY <1>2
  <2> HIDE DEF ln
  <2> QED
    BY SMT, <2>1, <1>1 DEF Int32, MaxHost
<1>5. ASSUME NEW v \in Int PROVE marshalVarint(v) \in Seq(Int)
  BY MarshalledVarint
<1>6. 0 \in Int /\ z \in Seq(Int) /\ mn \in Seq(Int) /\ payload \in Seq(Int)
  BY <1>2, <1>4, <1>5
<1>7. mp \in Seq(Int) /\ ml \in Seq(Int) /\ mi \in Seq(Int) /\ be \in Seq(Int)
  <2>1. mp \in Seq(Int) /\ mi \in Seq(Int)
    BY <1>1, <1>5
  <2>2. Len(host) \in Int
    BY <1>1
  <2>3. ml \in Seq(Int)
    BY <2>2, <1>5
  <2>4. be \in Seq(Int)
    BY BigEndianRoundTrip, EmptySeq
  <2> QED
    BY <2>1, <2>3, <2>4
<1>8. VarintEnd(s) = Len(mn) /\ VarintValue(s) = ln
  <2>1. s = mn \o (payload \o t) /\ payload \o t \in Seq(Int)
    <3>1. s = (mn \o payload) \o t
      BY <1>2
    <3> HIDE DEF s, mn, payload
    <3>2. (mn \o payload) \o t = mn \o (payload \o t)
      <4>1. mn \in Seq(Int) /\ payload \in Seq(Int) /\ t \in Seq(Int)
        BY <1>6
      <4> QED
        BY <4>1, Reassociate
    <3> QED
      BY <3>1, <3>2, <1>6, JoinedInts
  <2> HIDE DEF s
  <2> QED
    BY <2>1, <1>4, VarintRoundTrip
<1>9. frame = mn \o payload
  BY <1>2
<1> HIDE DEF frame
<1>10. SubSeq(s, 1, Len(mn) + ln) = frame
  <2>1. Len(frame) = Len(mn) + ln
    BY <1>6, <1>9, JoinedInts
  <2> QED
    BY <2>1, <1>2, JoinedInts
<1>11. Drop(frame, Len(mn)) = payload
  BY <1>6, <1>9, JoinedInts
<1>12. VarintEnd(payload) = Len(z) /\ VarintValue(payload) = 0
  BY <1>2, <1>3, VarintRoundTrip
<1>13. Drop(frame, Len(mn) + Len(z)) = body
  <2>1. frame = mn \o (z \o body)
    BY <1>9
  <2> HIDE DEF mn, z
  <2>2. Drop(mn \o (z \o body), Len(mn) + Len(z)) = body
    BY <1>6, Middle
  <2> QED
    BY <2>1, <2>2
<1>14. ReadFrame(s).ID = 0 /\ ReadFrame(s).Body = body
  <2>1. Drop(SubSeq(s, 1, VarintEnd(s) + VarintValue(s)), VarintEnd(s)) = payload
    BY <1>8, <1>10, <1>11
  <2>2. decodeVarint(payload).val = 0 /\ decodeVarint(payload).len = Len(z)
    BY <1>12 DEF decodeVarint
  <2>3. Drop(SubSeq(s, 1, VarintEnd(s) + VarintValue(s)), VarintEnd(s) + Len(z)) = body
    BY <1>8, <1>10, <1>13
  <2> HIDE DEF s, payload, z
  <2> QED
    BY <2>1, <2>2, <2>3 DEF ReadFrame
<1> DEFINE x == be \o mi
           hx == host \o x
           lhx == ml \o hx
<1>15. x \in Seq(Int) /\ Uint16(x) = h.Port /\ Drop(x, 2) = mi /\ Len(x) >= 2
  <2>1. Uint16(x) = h.Port /\ Drop(x, 2) = mi /\ Len(be) = 2
    BY <1>7, BigEndianRoundTrip
  <2>2. x \in Seq(Int) /\ Len(x) = Len(be) + Len(mi) /\ Len(mi) \in Nat
    <3> HIDE DEF be, mi
    <3> QED
      BY <1>7, JoinedInts, LenProperties
  <2> QED
    BY <2>1, <2>2
<1> HIDE DEF x
<1>16. /\ hx \in Seq(Int) /\ Len(host) \in 0..Len(hx)
       /\ SubSeq(hx, 1, Len(host)) = host /\ Drop(hx, Len(host)) = x
  BY <1>1, <1>15, JoinedInts, LenProperties
<1> HIDE DEF hx
<1>17. readVarint(lhx) = Parsed(Len(host), hx) /\ lhx \in Seq(Int)
  BY <1>3, <1>7, <1>16, VarintRoundTrip, JoinedInts
<1> HIDE DEF lhx
<1>18. readString(lhx) = Parsed(host, x)
  <2>1. readVarint(lhx).ok /\ readVarint(lhx).val = Len(host) /\ readVarint(lhx).rest = hx
    BY <1>17 DEF Parsed
  <2> QED
    BY <2>1, <1>16 DEF readString
<1>19. readVarint(body) = Parsed(h.Protocol, lhx)
  <2>1. body = mp \o lhx
    BY <1>2 DEF lhx, hx, x
  <2> QED
    BY <2>1, <1>17, VarintRoundTrip
<1>20. readVarint(mi) = Parsed(h.Intent, <<>>)
  <2>1. mi = mi \o <<>> /\ <<>> \in Seq(Int)
    BY <1>7, ConcatEmptySeq
  <2> QED
    BY <2>1, VarintRoundTrip
<1> DEFINE f == ReadFrame(s)
           protocol == readVarint(f.Body)
           hst == readString(protocol.rest)
           intent == readVarint(Drop(hst.rest, 2))
<1> HIDE DEF s, mi, mp, ml, be, z
<1>21. /\ protocol.ok /\ protocol.val = h.Protocol /\ protocol.rest = lhx
  BY <1>14, <1>19 DEF Parsed
<1>22. hst.ok /\ hst.val = host /\ hst.rest = x
  BY <1>18, <1>21 DEF Parsed
<1>23. intent.ok /\ intent.val = h.Intent /\ intent.rest = <<>>
  BY <1>15, <1>20, <1>22 DEF Parsed
<1>24. f.ID = 0
  BY <1>14
<1>25. ParseHandshake(f) = Parsed([Protocol |-> protocol.val, Host |-> hst.val,
                               Port |-> Uint16(hst.rest), Intent |-> intent.val], intent.rest)
  BY <1>15, <1>21, <1>22, <1>23, <1>24 DEF ParseHandshake
<1> QED
  BY <1>15, <1>21, <1>22, <1>23, <1>25 DEF s, frame

LEMMA MiddleOf ==
    ASSUME NEW k \in Nat, NEW l \in Nat,
           NEW a \in Seq(Int), Len(a) = k, NEW b \in Seq(Int), Len(b) = l,
           NEW c \in Seq(Int)
    PROVE  /\ Len(a \o (b \o c)) = k + (l + Len(c))
           /\ SubSeq(a \o (b \o c), k + 1, k + l) = b
           /\ Drop(a \o (b \o c), k + l) = c
BY Middle

(* A header for two addresses of one family.                               *)
Addressed(h) ==
    /\ h.Command = CommandProxy /\ h.Protocol = ProtocolStream
    /\ h.Family = FamilyINET \/ h.Family = FamilyINET6
    /\ h.SourceAddr \in Seq(Int) /\ Len(h.SourceAddr) = AddressLen(h.Family)
    /\ h.DestAddr \in Seq(Int) /\ Len(h.DestAddr) = AddressLen(h.Family)
    /\ h.SourcePort \in Int /\ h.DestPort \in Int

(* A PROXY v2 header for two addresses of one family is read back with     *)
(* the addresses, and the bytes after it stay.                             *)
LEMMA HeaderRoundTrip ==
    ASSUME NEW h, Addressed(h), NEW t \in Seq(Int)
    PROVE  /\ Marshal(h) \in Seq(Int)
           /\ ReadHeader(Marshal(h) \o t).ok
           /\ ReadHeader(Marshal(h) \o t).val =
                [Command |-> h.Command, Family |-> h.Family, Protocol |-> h.Protocol,
                 SourceAddr |-> h.SourceAddr, DestAddr |-> h.DestAddr,
                 SourcePort |-> h.SourcePort, DestPort |-> h.DestPort]
           /\ ReadHeader(Marshal(h) \o t).rest = t
<1> DEFINE fam == h.Family
           n == AddressLen(fam)
           len == addressBlockLen(fam)
           two == <<32 + h.Command, 16 * fam + h.Protocol>>
           be == BigEndian(len)
           src == h.SourceAddr
           dst == h.DestAddr
           sp == BigEndian(h.SourcePort)
           dp == BigEndian(h.DestPort)
<1>1. \/ fam = 1 /\ n = 4 /\ len = 12 /\ two = <<33, 17>>
      \/ fam = 2 /\ n = 16 /\ len = 36 /\ two = <<33, 33>>
  BY DEF Addressed, FamilyINET, FamilyINET6, AddressLen, addressBlockLen, CommandProxy,
         ProtocolStream
<1>2. Marshal(h) = Signature \o two \o be \o src \o dst \o sp \o dp
  BY DEF Marshal
<1>3. /\ Signature \in Seq(Int) /\ Len(Signature) = 12
      /\ two \in Seq(Int) /\ Len(two) = 2
      /\ len \in Int /\ src \in Seq(Int) /\ Len(src) = n /\ dst \in Seq(Int) /\ Len(dst) = n
  BY <1>1 DEF Signature, Addressed
<1>4. /\ be \in Seq(Int) /\ Len(be) = 2 /\ sp \in Seq(Int) /\ Len(sp) = 2
      /\ dp \in Seq(Int) /\ Len(dp) = 2
  <2>1. h.SourcePort \in Int /\ h.DestPort \in Int /\ <<>> \in Seq(Int)
    BY EmptySeq DEF Addressed
  <2> QED
    BY <2>1, <1>3, BigEndianRoundTrip
<1>5. /\ n \in {4, 16} /\ len = 2 * n + 4 /\ fam \in Int
      /\ two[1] = 33 /\ two[2] = 16 * fam + 1
  BY <1>1
<1> HIDE DEF n, len, two, be, src, dst, sp, dp, fam
(* The block of addresses and ports, and what comes before it.             *)
<1> DEFINE ports == sp \o dp
           toPorts == dst \o ports
           block == src \o toPorts
           start == Signature \o two
           fixed == start \o be
           m == Marshal(h)
           s == m \o t
<1>6. ports \in Seq(Int) /\ Len(ports) = 4
  <2>1. sp \in Seq(Int) /\ dp \in Seq(Int) /\ Len(sp) = 2 /\ Len(dp) = 2
    BY <1>4
  <2>2. ports \in Seq(Int) /\ Len(ports) = 2 + 2
    BY <2>1, JoinedTo
  <2> QED
    BY <2>2
<1>7. m = fixed \o block
  <2> DEFINE a == fixed \o src
             b == a \o dst
  <2>1. fixed \in Seq(Int)
    BY <1>3, <1>4, JoinedInts
  <2>2. m = ((b \o sp) \o dp)
    BY <1>2
  <2> HIDE DEF fixed, m
  <2>3. a \in Seq(Int) /\ b \in Seq(Int)
    <3>1. a \in Seq(Int)
      BY <2>1, <1>3, JoinedInts
    <3> HIDE DEF a
    <3> QED
      BY <3>1, <1>3, JoinedInts
  <2>4. a \o toPorts = fixed \o block
    <3>1. toPorts \in Seq(Int)
      <4> HIDE DEF ports
      <4> QED
        BY <1>3, <1>6, JoinedInts
    <3> HIDE DEF toPorts
    <3>2. src \in Seq(Int)
      BY <1>3
    <3> QED
      BY <3>1, <3>2, <2>1, Reassociate
  <2> HIDE DEF a
  <2>5. b \o ports = a \o toPorts
    <3> HIDE DEF ports
    <3>1. a \in Seq(Int) /\ dst \in Seq(Int) /\ ports \in Seq(Int)
      BY <2>3, <1>3, <1>6
    <3> QED
      BY <3>1, Reassociate
  <2> HIDE DEF b, toPorts, block
  <2>6. (b \o sp) \o dp = b \o ports
    <3>1. b \in Seq(Int) /\ sp \in Seq(Int) /\ dp \in Seq(Int)
      BY <2>3, <1>4
    <3> QED
      BY <3>1, Reassociate
  <2> QED
    BY <2>2, <2>4, <2>5, <2>6
<1> HIDE DEF m, ports
<1>8. toPorts \in Seq(Int) /\ Len(toPorts) = n + 4
  <2>1. /\ dst \in Seq(Int) /\ Len(dst) = n /\ n \in Nat /\ 4 \in Nat
        /\ ports \in Seq(Int) /\ Len(ports) = 4
    BY <1>3, <1>5, <1>6
  <2> HIDE DEF n, dst
  <2> QED
    BY <2>1, JoinedTo
<1> HIDE DEF toPorts
<1>9. block \in Seq(Int) /\ Len(block) = n + (n + 4)
  <2>1. src \in Seq(Int) /\ Len(src) = n /\ n \in Nat /\ n + 4 \in Nat
    BY <1>3, <1>5
  <2> QED
    BY <2>1, <1>8, JoinedTo
<1> HIDE DEF block
<1>10. start \in Seq(Int) /\ Len(start) = 14
  <2>1. /\ Signature \in Seq(Int) /\ Len(Signature) = 12
        /\ two \in Seq(Int) /\ Len(two) = 2
    BY <1>3
  <2>2. start \in Seq(Int) /\ Len(start) = Len(Signature) + Len(two)
    BY <2>1, JoinedInts
  <2> QED
    BY <2>1, <2>2
<1>11. start[13] = 33 /\ start[14] = 16 * fam + 1 /\ SubSeq(start, 1, 12) = Signature
  <2>1. 1 \in 1..Len(two) /\ 2 \in 1..Len(two)
    BY <1>3
  <2>2. start[Len(Signature) + 1] = two[1] /\ start[Len(Signature) + 2] = two[2]
    <3>1. Signature \in Seq(Int) /\ two \in Seq(Int)
      BY <1>3
    <3>2. \A i \in 1..Len(two) : start[Len(Signature) + i] = two[i]
      BY <3>1, Joined
    <3> QED
      BY <3>2, <2>1
  <2>3. Len(Signature) + 1 = 13 /\ Len(Signature) + 2 = 14
    BY <1>3
  <2>4. SubSeq(start, 1, Len(Signature)) = Signature
    BY <1>3, JoinedInts
  <2> QED
    BY <2>2, <2>3, <2>4, <1>3, <1>5
<1> HIDE DEF start
<1>12. fixed \in Seq(Int) /\ Len(fixed) = 16
  <2>1. be \in Seq(Int) /\ Len(be) = 2
    BY <1>4
  <2>2. fixed \in Seq(Int) /\ Len(fixed) = Len(start) + Len(be)
    BY <2>1, <1>10, JoinedInts
  <2> QED
    BY <2>1, <2>2, <1>10
<1> HIDE DEF fixed
<1> DEFINE tail == block \o t
           after == be \o tail
<1>13. tail \in Seq(Int) /\ Len(tail) = Len(block) + Len(t) /\ Drop(tail, Len(block)) = t
       /\ SubSeq(tail, 1, Len(block)) = block
  BY <1>9, JoinedInts
<1>14. m \in Seq(Int) /\ s = fixed \o tail /\ s \in Seq(Int)
  <2>1. m \in Seq(Int)
    BY <1>7, <1>9, <1>12, JoinedInts
  <2>2. s = fixed \o tail
    BY <1>7, <1>9, <1>12, Reassociate
  <2>3. s \in Seq(Int)
    BY <2>1, JoinedInts
  <2> QED
    BY <2>1, <2>2, <2>3
<1> HIDE DEF tail, s
<1>15. after \in Seq(Int) /\ s = start \o after
  <2>1. after \in Seq(Int)
    BY <1>4, <1>13, JoinedInts
  <2>2. (start \o be) \o tail = start \o (be \o tail)
    <3>1. start \in Seq(Int) /\ be \in Seq(Int) /\ tail \in Seq(Int)
      BY <1>4, <1>10, <1>13
    <3> QED
      BY <3>1, Reassociate
  <2> QED
    BY <2>1, <2>2, <1>14 DEF fixed
<1>16. Uint16(Drop(s, 14)) = len
  <2>1. Drop(s, 14) = after
    <3> HIDE DEF after
    <3> QED
      BY <1>10, <1>15, JoinedInts
  <2>2. Uint16(after) = len
    BY <1>3, <1>13, BigEndianRoundTrip DEF be
  <2> QED
    BY <2>1, <2>2
<1> HIDE DEF after
<1>17. s[13] = 33 /\ s[14] = 16 * fam + 1 /\ SubSeq(s, 1, 12) = Signature
  <2>1. 13 \in 1..Len(start) /\ 14 \in 1..Len(start)
    BY <1>10
  <2>2. s[13] = start[13] /\ s[14] = start[14]
    BY <2>1, <1>10, <1>15, JoinedAt
  <2>3. 12 \in 0..14 /\ 14 \in 0..Len(s) /\ SubSeq(s, 1, 14) = start
    <3>1. SubSeq(s, 1, Len(start)) = start /\ Len(s) = Len(start) + Len(after)
      BY <1>10, <1>15, JoinedInts
    <3>2. Len(after) \in Nat
      BY <1>15, LenProperties
    <3> QED
      BY <3>1, <3>2, <1>10
  <2>4. SubSeq(SubSeq(s, 1, 14), 1, 12) = SubSeq(s, 1, 12)
    BY <2>3, <1>14, PartOfInts
  <2> QED
    BY <2>2, <2>3, <2>4, <1>11
<1>18. Len(s) >= 16 + len /\ Drop(s, 16 + len) = t /\ SubSeq(s, 17, 16 + len) = block
  <2>1. Len(block) = len
    BY <1>5, <1>9
  <2>2. /\ Len(s) = 16 + (Len(block) + Len(t)) /\ Len(t) \in Nat
        /\ SubSeq(s, 16 + 1, 16 + Len(block)) = block
        /\ Drop(s, 16 + Len(block)) = t
    <3>1. fixed \in Seq(Int) /\ block \in Seq(Int) /\ Len(t) \in Nat
      BY <1>9, <1>12, LenProperties
    <3>2. s = fixed \o (block \o t)
      BY <1>14 DEF tail
    <3>3. /\ Len(s) = Len(fixed) + (Len(block) + Len(t))
          /\ SubSeq(s, Len(fixed) + 1, Len(fixed) + Len(block)) = block
          /\ Drop(s, Len(fixed) + Len(block)) = t
      BY <3>1, <3>2, Middle
    <3> QED
      BY <3>1, <3>3, <1>12
  <2> QED
    BY <2>1, <2>2, <1>5
<1>19. /\ SubSeq(block, 1, n) = src /\ SubSeq(block, n + 1, n + n) = dst
       /\ Drop(block, n + n) = ports
  <2>1. SubSeq(block, 1, n) = src
    BY <1>3, <1>8, JoinedInts DEF block
  <2>2. /\ SubSeq(block, n + 1, n + n) = dst /\ Drop(block, n + n) = ports
    <3>1. /\ src \in Seq(Int) /\ Len(src) = n /\ dst \in Seq(Int) /\ Len(dst) = n
          /\ ports \in Seq(Int) /\ n \in Nat
      BY <1>3, <1>5, <1>6
    <3>2. block = src \o (dst \o ports)
      BY DEF block, toPorts
    <3>3. /\ SubSeq(block, Len(src) + 1, Len(src) + Len(dst)) = dst
          /\ Drop(block, Len(src) + Len(dst)) = ports
      BY <3>1, <3>2, Middle
    <3> QED
      BY <3>1, <3>3
  <2> QED
    BY <2>1, <2>2
<1>20. Drop(block, (n + n) + 2) = dp
  <2> DEFINE d == dst \o sp
  <2>1. d \in Seq(Int) /\ Len(d) = n + 2
    <3>1. dst \in Seq(Int) /\ Len(dst) = n /\ sp \in Seq(Int) /\ Len(sp) = 2 /\ n \in Nat
      BY <1>3, <1>4, <1>5
    <3> QED
      BY <3>1, JoinedTo
  <2>2. toPorts = d \o dp
    <3>1. dst \in Seq(Int) /\ sp \in Seq(Int) /\ dp \in Seq(Int)
      BY <1>3, <1>4
    <3>2. d \o dp = dst \o (sp \o dp)
      BY <3>1, Reassociate
    <3> QED
      BY <3>2 DEF toPorts, ports
  <2> HIDE DEF d
  <2>3. Drop(src \o (d \o dp), n + (n + 2)) = dp
    <3>1. /\ src \in Seq(Int) /\ Len(src) = n /\ dp \in Seq(Int)
          /\ n \in Nat /\ n + 2 \in Nat
      BY <1>3, <1>4, <1>5
    <3> QED
      BY <3>1, <2>1, MiddleOf
  <2>4. n + (n + 2) = (n + n) + 2
    BY <1>5
  <2> QED
    BY <2>2, <2>3, <2>4 DEF block
<1>21. Uint16(ports) = h.SourcePort /\ Uint16(dp) = h.DestPort
  <2>1. Uint16(ports) = h.SourcePort
    BY <1>4, BigEndianRoundTrip DEF ports, sp, Addressed
  <2>2. Uint16(dp \o <<>>) = h.DestPort /\ dp \o <<>> = dp
    BY <1>4, BigEndianRoundTrip, EmptySeq, ConcatEmptySeq DEF dp, Addressed
  <2> QED
    BY <2>1, <2>2
<1>22. s[14] \div 16 = fam /\ s[14] % 16 = 1 /\ s[13] % 16 = 1
  <2>1. fam = 1 \/ fam = 2
    BY <1>1
  <2>2. (16 * 1 + 1) \div 16 = 1 /\ (16 * 2 + 1) \div 16 = 2
        /\ (16 * 1 + 1) % 16 = 1 /\ (16 * 2 + 1) % 16 = 1 /\ 33 % 16 = 1
    OBVIOUS
  <2> QED
    BY <2>1, <2>2, <1>17
<1>23. /\ minHeaderSize = 16 /\ len =< MaxBlock /\ len >= addressBlockLen(fam) /\ n > 0
       /\ AddressLen(fam) = n
  <2>1. minHeaderSize = 16 /\ MaxBlock = 36
    BY DEF minHeaderSize, MaxBlock
  <2>2. len = addressBlockLen(fam) /\ AddressLen(fam) = n
    BY DEF len, n
  <2> QED
    BY <2>1, <2>2, <1>5
<1>24. /\ 16 + 1 = 17 /\ (1 + n) - 1 = n /\ ((n + 1) + n) - 1 = n + n
       /\ ((2 * n) + 1) - 1 = n + n /\ ((2 * n) + 3) - 1 = (n + n) + 2
  BY <1>5
<1> DEFINE val == [Command |-> 1, Family |-> fam, Protocol |-> 1,
                   SourceAddr |-> src, DestAddr |-> dst,
                   SourcePort |-> h.SourcePort, DestPort |-> h.DestPort]
           Known == AddressLen(s[14] \div 16) > 0
                      /\ Uint16(Drop(s, 14)) >= addressBlockLen(s[14] \div 16)
           Block == SubSeq(s, minHeaderSize + 1, minHeaderSize + Uint16(Drop(s, 14)))
<1>25. Known /\ Block = block
  BY <1>16, <1>18, <1>22, <1>23, <1>24
<1>26. /\ SubSeq(Block, 1, (1 + n) - 1) = src
       /\ SubSeq(Block, n + 1, ((n + 1) + n) - 1) = dst
       /\ Uint16(Drop(Block, ((2 * n) + 1) - 1)) = h.SourcePort
       /\ Uint16(Drop(Block, ((2 * n) + 3) - 1)) = h.DestPort
  BY <1>19, <1>20, <1>21, <1>24, <1>25
<1>27. /\ Len(s) >= minHeaderSize /\ Uint16(Drop(s, 14)) =< MaxBlock
       /\ Len(s) >= minHeaderSize + Uint16(Drop(s, 14))
       /\ Drop(s, minHeaderSize + Uint16(Drop(s, 14))) = t
  BY <1>5, <1>14, <1>16, <1>18, <1>23, LenProperties
<1>28. ReadHeader(s) = Parsed(val, t)
  <2> DEFINE N == AddressLen(s[14] \div 16)
             Field(from, k) == IF Known THEN SubSeq(Block, from, from + k - 1) ELSE <<>>
             Port(from) == IF Known THEN Uint16(Drop(Block, from - 1)) ELSE 0
  <2>1. N = n
    BY <1>22, <1>23
  <2>2. /\ Field(1, N) = src /\ Field(N + 1, N) = dst
        /\ Port(2 * N + 1) = h.SourcePort /\ Port(2 * N + 3) = h.DestPort
    <3>1. /\ Field(1, n) = src /\ Field(n + 1, n) = dst
          /\ Port(2 * n + 1) = h.SourcePort /\ Port(2 * n + 3) = h.DestPort
      <4>1. /\ n + 1 = n + 1 /\ 1 + n - 1 = (1 + n) - 1
            /\ (n + 1) + n - 1 = ((n + 1) + n) - 1
        BY <1>5
      <4> HIDE DEF Known, Block
      <4> QED
        BY <4>1, <1>25, <1>26
    <3> HIDE DEF N, Field, Port
    <3> QED
      BY <3>1, <2>1
  <2>3. ReadHeader(s) =
          IF /\ Len(s) >= minHeaderSize
             /\ SubSeq(s, 1, 12) = Signature
             /\ Uint16(Drop(s, 14)) =< MaxBlock
             /\ Len(s) >= minHeaderSize + Uint16(Drop(s, 14))
            THEN Parsed([Command |-> s[13] % 16, Family |-> s[14] \div 16,
                         Protocol |-> s[14] % 16,
                         SourceAddr |-> Field(1, N), DestAddr |-> Field(N + 1, N),
                         SourcePort |-> Port(2 * N + 1), DestPort |-> Port(2 * N + 3)],
                        Drop(s, minHeaderSize + Uint16(Drop(s, 14))))
            ELSE Malformed
    BY DEF ReadHeader
  <2> HIDE DEF N, Field, Port
  <2> QED
    BY <2>2, <2>3, <1>17, <1>22, <1>27
<1> QED
  <2>1. h.Command = 1 /\ h.Protocol = 1 /\ h.Family = fam
    BY DEF CommandProxy, ProtocolStream, fam, Addressed
  <2>2. /\ Parsed(val, t).ok /\ Parsed(val, t).val = val /\ Parsed(val, t).rest = t
    BY DEF Parsed
  <2> QED
    BY <2>1, <2>2, <1>14, <1>28 DEF s, m, src, dst

-----------------------------------------------------------------------------
(* Clients, and what the backend was promised of them.                     *)

LEMMA BytesAreInts ==
    ASSUME NEW s \in Seq(Byte)
    PROVE  s \in Seq(Int)
<1>1. Byte \subseteq Int
  BY DEF Byte
<1> QED
  BY <1>1, SeqMonotonic

LEMMA Bytes ==
    ASSUME NEW c \in Clients
    PROVE  c.bytes \in Seq(Int) /\ Len(c.bytes) \in Nat /\ c.need \in Nat
<1>1. c.bytes \in Seq(Byte) /\ c.need \in Nat
  BY ClientsAssumption
<1>2. c.bytes \in Seq(Int)
  BY <1>1, BytesAreInts
<1> QED
  BY <1>1, <1>2, LenProperties

(* The first frame of a player is a handshake, and its new host is short.  *)
LEMMA Logins ==
    ASSUME NEW c \in Clients, c.login
    PROVE  LET host == Forwarded(c.hs.Host, c.name)
           IN /\ c.hs = [Protocol |-> c.hs.Protocol, Host |-> c.hs.Host,
                         Port |-> c.hs.Port, Intent |-> c.hs.Intent]
              /\ c.hs.Protocol \in Int32 /\ c.hs.Port \in Int /\ c.hs.Intent \in Int32
              /\ host \in Seq(Int) /\ Len(host) =< MaxHost
              /\ c.after \in Seq(Int)
              /\ MarshalHandshake(c.hs, host) \in Seq(Int)
<1> DEFINE f == ReadFrame(c.bytes)
           uuid == OfflineUUID(c.name)
           host == Forwarded(c.hs.Host, c.name)
<1>1. /\ FrameStatus(c.bytes) = "frame" /\ ParseHandshake(f).ok
      /\ ParseHandshake(f).val = c.hs
      /\ Drop(c.bytes, Len(f.Raw)) = c.after
      /\ uuid \in Seq(Byte) /\ Len(uuid) = 36
  BY ClientsAssumption DEF AsksLogin, AfterFirst
<1>2. c.bytes \in Seq(Int) /\ Len(c.bytes) \in Nat
  BY Bytes
<1>3. /\ f.Body \in Seq(Int) /\ Len(f.Body) =< Len(f.Raw) /\ Len(f.Raw) =< MaxFrame + 5
      /\ Len(f.Raw) \in 1..Len(c.bytes)
  BY <1>1, <1>2, FrameShape
<1>4. /\ c.hs = [Protocol |-> c.hs.Protocol, Host |-> c.hs.Host,
                 Port |-> c.hs.Port, Intent |-> c.hs.Intent]
      /\ c.hs.Protocol \in Int32 /\ c.hs.Port \in Int /\ c.hs.Intent \in Int32
      /\ c.hs.Host \in Seq(Int) /\ Len(c.hs.Host) =< Len(f.Body)
  BY <1>1, <1>3, HandshakeShape
<1>5. c.after \in Seq(Int)
  <2>1. Len(f.Raw) \in 0..Len(c.bytes)
    BY <1>2, <1>3
  <2> QED
    BY <2>1, <1>1, <1>2, Parts
<1>6. /\ IpText \in Seq(Int) /\ Len(IpText) =< 45 /\ Len(IpText) \in Nat
      /\ uuid \in Seq(Int)
  <2>1. IpText \in Seq(Byte) /\ Len(IpText) =< 45
    BY EndsAssumption
  <2> QED
    BY <2>1, <1>1, BytesAreInts, LenProperties
<1> DEFINE a == c.hs.Host \o <<0>>
           b == a \o IpText
           d == b \o <<0>>
<1>7. <<0>> \in Seq(Int) /\ Len(<<0>>) = 1
  OBVIOUS
<1>8. host = d \o uuid
  BY DEF Forwarded
<1>9. host \in Seq(Int) /\ Len(host) = (((Len(c.hs.Host) + 1) + Len(IpText)) + 1) + 36
  <2> DEFINE zero == <<0>>
  <2>0. zero \in Seq(Int) /\ Len(zero) = 1
    BY <1>7
  <2> HIDE DEF zero, uuid, host
  <2>1. a \in Seq(Int) /\ Len(a) = Len(c.hs.Host) + 1
    BY <2>0, <1>4, JoinedInts DEF zero
  <2> HIDE DEF a
  <2>2. b \in Seq(Int) /\ Len(b) = Len(a) + Len(IpText)
    BY <2>1, <1>6, JoinedInts
  <2> HIDE DEF b
  <2>3. d \in Seq(Int) /\ Len(d) = Len(b) + 1
    BY <2>0, <2>2, JoinedInts DEF zero
  <2> HIDE DEF d
  <2>4. d \o uuid \in Seq(Int) /\ Len(d \o uuid) = Len(d) + Len(uuid)
    BY <2>3, <1>6, JoinedInts
  <2> QED
    BY <2>1, <2>2, <2>3, <2>4, <1>1, <1>8
<1>10. Len(host) =< MaxHost
  <2> DEFINE l == Len(c.hs.Host)
             m == Len(f.Body)
             n == Len(f.Raw)
             k == Len(IpText)
             w == Len(host)
  <2>1. /\ l \in Nat /\ m \in Nat /\ n \in Nat /\ k \in Nat /\ k =< 45
        /\ l =< m /\ m =< n /\ n =< MaxFrame + 5
        /\ w = (((l + 1) + k) + 1) + 36
    <3>1. l \in Nat /\ m \in Nat /\ n \in Nat /\ k \in Nat /\ k =< 45
      <4>1. Len(c.hs.Host) \in Nat
        BY <1>4, LenProperties
      <4>2. Len(f.Body) \in Nat
        BY <1>3, LenProperties
      <4>3. Len(f.Raw) \in Nat
        BY <1>2, <1>3
      <4> QED
        BY <4>1, <4>2, <4>3, <1>6
    <3>2. l =< m /\ m =< n /\ n =< MaxFrame + 5
      BY <1>3, <1>4
    <3>3. w = (((l + 1) + k) + 1) + 36
      BY <1>9
    <3> QED
      BY <3>1, <3>2, <3>3
  <2> HIDE DEF l, m, n, k, w
  <2>2. w =< MaxHost
    BY SMT, <2>1 DEF MaxFrame, MaxHost
  <2> QED
    BY <2>2 DEF w
<1>11. MarshalHandshake(c.hs, host) \in Seq(Int)
  <2>1. c.hs.Protocol \in Int /\ c.hs.Intent \in Int
    BY <1>4 DEF Int32
  <2> HIDE DEF host
  <2> QED
    BY <2>1, <1>4, <1>9, HandshakeBytes
<1> QED
  BY <1>4, <1>5, <1>9, <1>10, <1>11

(* The header writePPv2 builds is valid: it never closes the connection.   *)
LEMMA HeaderIsAddressed ==
    /\ Addressed(Header) /\ Valid(Header)
    /\ Header.SourceAddr = Source.IP /\ Header.SourcePort = Source.Port
    /\ Header.DestAddr = Dest.IP /\ Header.DestPort = Dest.Port
<1>1. /\ Source.IP \in Seq(Byte) /\ Len(Source.IP) \in {4, 16} /\ Source.Port \in Nat
      /\ Dest.IP \in Seq(Byte) /\ Len(Dest.IP) \in {4, 16} /\ Dest.Port \in Nat
      /\ Len(Source.IP) = Len(Dest.IP)
  BY EndsAssumption
<1>2. Source.IP \in Seq(Int) /\ Dest.IP \in Seq(Int)
  BY <1>1, BytesAreInts
<1>3. Header = [Command |-> CommandProxy, Protocol |-> ProtocolStream,
                Family |-> familyFor(Source.IP),
                SourceAddr |-> Source.IP, SourcePort |-> Source.Port,
                DestAddr |-> Dest.IP, DestPort |-> Dest.Port]
  BY <1>1 DEF Header
<1>4. /\ familyFor(Source.IP) = FamilyINET \/ familyFor(Source.IP) = FamilyINET6
      /\ Len(Source.IP) = AddressLen(familyFor(Source.IP))
  BY <1>1 DEF familyFor, AddressLen, FamilyINET, FamilyINET6
<1>5. /\ Header.Command = CommandProxy /\ Header.Protocol = ProtocolStream
      /\ Header.Family = familyFor(Source.IP)
      /\ Header.SourceAddr = Source.IP /\ Header.SourcePort = Source.Port
      /\ Header.DestAddr = Dest.IP /\ Header.DestPort = Dest.Port
  BY <1>3
<1>6. /\ Len(Header.SourceAddr) = AddressLen(Header.Family)
      /\ Len(Header.DestAddr) = AddressLen(Header.Family)
  BY <1>1, <1>4, <1>5
<1>7. Addressed(Header)
  <2>1. Header.Family = FamilyINET \/ Header.Family = FamilyINET6
    BY <1>4, <1>5
  <2>2. Header.SourcePort \in Int /\ Header.DestPort \in Int
    BY <1>1, <1>5
  <2> QED
    BY <2>1, <2>2, <1>2, <1>5, <1>6 DEF Addressed
<1>8. Valid(Header)
  <2>1. Header.Protocol # ProtocolUnspec
    BY <1>5 DEF ProtocolStream, ProtocolUnspec
  <2>2. Header.Family \in {FamilyUnspec, FamilyINET, FamilyINET6}
    BY <1>4, <1>5
  <2> QED
    BY <2>1, <2>2, <1>5, <1>6 DEF Valid
<1> QED
  BY <1>5, <1>7, <1>8

(* What is promised, by mode.                                              *)
LEMMA PromisedByMode ==
    ASSUME mode \in Modes, client \in Clients
    PROVE  /\ mode = "ppv2" => Promised = Marshal(Header) \o client.bytes
           /\ mode = "bungee" /\ client.login =>
                Promised = MarshalHandshake(client.hs, Forwarded(client.hs.Host, client.name))
                             \o client.after
           /\ mode = "bungee" /\ ~client.login => Promised = client.bytes
           /\ mode = "raw" => Promised = client.bytes
           /\ Promised \in Seq(Int)
<1>1. mode = "ppv2" => Promised = Marshal(Header) \o client.bytes
  BY DEF Promised
<1>2. mode = "bungee" /\ client.login =>
         Promised = MarshalHandshake(client.hs, Forwarded(client.hs.Host, client.name))
                      \o client.after
  BY DEF Promised
<1>3. mode = "bungee" /\ ~client.login => Promised = client.bytes
  BY DEF Promised
<1>4. mode = "raw" => Promised = client.bytes
  BY DEF Promised
<1>5. mode = "raw" \/ mode = "ppv2" \/ mode = "bungee"
  BY EndsAssumption
<1>6. client.bytes \in Seq(Int) /\ <<>> \in Seq(Int)
  BY Bytes, EmptySeq
<1>7. mode = "ppv2" => Promised \in Seq(Int)
  <2>1. Marshal(Header) \in Seq(Int)
    BY <1>6, HeaderIsAddressed, HeaderRoundTrip
  <2> QED
    BY <2>1, <1>1, <1>6, JoinedInts
<1>8. mode = "bungee" /\ client.login => Promised \in Seq(Int)
  <2> SUFFICES ASSUME mode = "bungee", client.login PROVE Promised \in Seq(Int)
    OBVIOUS
  <2>1. /\ MarshalHandshake(client.hs, Forwarded(client.hs.Host, client.name)) \in Seq(Int)
        /\ client.after \in Seq(Int)
    BY Logins
  <2> QED
    BY <2>1, <1>2, JoinedInts
<1> QED
  BY <1>1, <1>2, <1>3, <1>4, <1>5, <1>6, <1>7, <1>8

-----------------------------------------------------------------------------
(* What is left of the bytes of a client.                                  *)

Rest == Drop(client.bytes, read)

(* The end of an end.                                                      *)
LEMMA EndOfEnd ==
    ASSUME NEW s \in Seq(Int), NEW n \in 0..Len(s), NEW k \in 0..(Len(s) - n)
    PROVE  Drop(Drop(s, n), k) = Drop(s, n + k)
<1>1. Len(s) \in Nat
  BY LenProperties
<1> DEFINE d == Drop(s, n)
<1>2. /\ d \in Seq(Int) /\ Len(d) = Len(s) - n
      /\ \A i \in 1..(Len(s) - n) : d[i] = s[n + i]
  BY Parts
<1> HIDE DEF d
<1>3. k \in 0..Len(d) /\ n + k \in 0..Len(s)
  BY <1>1, <1>2
<1>4. /\ Drop(d, k) \in Seq(Int) /\ Len(Drop(d, k)) = Len(d) - k
      /\ \A i \in 1..(Len(d) - k) : Drop(d, k)[i] = d[k + i]
  BY <1>2, <1>3, Parts
<1>5. /\ Drop(s, n + k) \in Seq(Int) /\ Len(Drop(s, n + k)) = Len(s) - (n + k)
      /\ \A i \in 1..(Len(s) - (n + k)) : Drop(s, n + k)[i] = s[(n + k) + i]
  BY <1>3, Parts
<1>6. Len(Drop(d, k)) = Len(Drop(s, n + k))
  <2>1. (Len(s) - n) - k = Len(s) - (n + k)
    BY <1>1
  <2>2. Len(Drop(d, k)) = (Len(s) - n) - k
    BY <1>2, <1>4
  <2>3. Len(Drop(s, n + k)) = Len(s) - (n + k)
    BY <1>5
  <2> QED
    BY <2>1, <2>2, <2>3
<1>7. \A i \in 1..(Len(s) - (n + k)) : Drop(d, k)[i] = Drop(s, n + k)[i]
  <2> TAKE i \in 1..(Len(s) - (n + k))
  <2>1. i \in 1..(Len(d) - k) /\ k + i \in 1..(Len(s) - n) /\ n + (k + i) = (n + k) + i
    BY <1>1, <1>2
  <2> QED
    BY <2>1, <1>2, <1>4, <1>5
<1>8. Drop(d, k) = Drop(s, n + k)
  BY <1>4, <1>5, <1>6, <1>7, SeqEqual
<1> QED
  BY <1>8 DEF d

(* What comes before the same end.                                         *)
LEMMA SameBeginning ==
    ASSUME NEW s \in Seq(Int), NEW u \in Seq(Int), NEW t \in Seq(Int), s \o t = u \o t
    PROVE  s = u
<1>1. /\ Len(s \o t) = Len(s) + Len(t) /\ Len(u \o t) = Len(u) + Len(t)
      /\ SubSeq(s \o t, 1, Len(s)) = s /\ SubSeq(u \o t, 1, Len(u)) = u
  BY JoinedInts
<1>2. Len(s) \in Nat /\ Len(t) \in Nat /\ Len(u) \in Nat
  BY LenProperties
<1>3. Len(s) = Len(u)
  <2>1. Len(s) + Len(t) = Len(u) + Len(t)
    BY <1>1
  <2> QED
    BY <2>1, <1>2
<1> QED
  BY <1>1, <1>3

(* What a failing write has written is a beginning of its bytes.           *)
LEMMA TornPart ==
    ASSUME NEW s \in Seq(Int), NEW part \in Torn(s)
    PROVE  part \in Seq(Int) /\ \E z \in Seq(Int) : part \o z = s
<1>1. Len(s) \in Nat /\ (s = <<>> <=> Len(s) = 0) /\ <<>> \in Seq(Int)
  BY LenProperties, EmptySeq
<1>2. <<>> \o s = s
  BY ConcatEmptySeq
<1>3. CASE part = <<>>
  BY <1>1, <1>2, <1>3
<1>4. CASE part = Front(s) /\ Len(s) = 0
  <2>1. SubSeq(s, 1, Len(s) - 1) = <<>>
    BY <1>4, SubSeqEmpty
  <2> QED
    BY <2>1, <1>1, <1>2, <1>4 DEF Front
<1>5. CASE part = Front(s) /\ Len(s) # 0
  <2>1. Len(s) - 1 \in 0..Len(s)
    BY <1>1, <1>5
  <2>2. /\ part \in Seq(Int) /\ Drop(s, Len(s) - 1) \in Seq(Int)
        /\ part \o Drop(s, Len(s) - 1) = s
    BY <2>1, <1>5, Parts DEF Front
  <2> QED
    BY <2>2
<1> QED
  BY <1>3, <1>4, <1>5 DEF Torn

(* What has arrived and has not been read begins what is left.             *)
LEMMA UnreadBegins ==
    ASSUME TypeOK
    PROVE  /\ client.bytes \in Seq(Int) /\ Len(client.bytes) \in Nat
           /\ arrived \in 0..Len(client.bytes) /\ read \in 0..arrived
           /\ Rest \in Seq(Int) /\ Len(Rest) = Len(client.bytes) - read
           /\ SubSeq(client.bytes, 1, read) \o Rest = client.bytes
           /\ arrived - read \in 0..Len(Rest)
           /\ Unread = SubSeq(Rest, 1, arrived - read)
           /\ Unread \in Seq(Int) /\ Len(Unread) = arrived - read
           /\ Unread \o Drop(client.bytes, arrived) = Rest
<1> DEFINE s == client.bytes
<1>1. client \in Clients /\ arrived \in 0..Len(s) /\ read \in 0..arrived
  BY DEF TypeOK
<1>2. s \in Seq(Int) /\ Len(s) \in Nat
  BY <1>1, Bytes
<1> HIDE DEF s
<1>3. read \in 0..Len(s) /\ read \in Nat /\ arrived \in Nat
  BY <1>1, <1>2
<1>4. /\ Drop(s, read) \in Seq(Int) /\ Len(Drop(s, read)) = Len(s) - read
      /\ SubSeq(s, 1, read) \o Drop(s, read) = s
  BY <1>2, <1>3, Parts
<1>5. arrived - read \in 0..Len(Drop(s, read))
  BY <1>1, <1>2, <1>3, <1>4
<1>6. SubSeq(s, read + 1, arrived) = SubSeq(Drop(s, read), 1, arrived - read)
  BY <1>1, <1>2, PartOfInts
<1> DEFINE d == Drop(s, read)
           k == arrived - read
<1>7. d \in Seq(Int) /\ k \in 0..Len(d)
  BY <1>4, <1>5
<1>8. Drop(d, k) = Drop(s, arrived)
  <2>1. k \in 0..(Len(s) - read) /\ read + k = arrived
    BY <1>1, <1>2, <1>3
  <2> HIDE DEF k
  <2> QED
    BY <2>1, <1>2, <1>3, EndOfEnd
<1> HIDE DEF d, k
<1>9. /\ SubSeq(d, 1, k) \in Seq(Int) /\ Len(SubSeq(d, 1, k)) = k
      /\ SubSeq(d, 1, k) \o Drop(d, k) = d
  BY <1>7, Parts
<1>10. Rest = d /\ Unread = SubSeq(d, 1, k)
  BY <1>6 DEF Rest, Unread, s, d, k
<1>11. /\ SubSeq(d, 1, k) \o Drop(s, arrived) = d /\ k = arrived - read
       /\ Len(d) = Len(s) - read /\ SubSeq(s, 1, read) \o d = s
  BY <1>4, <1>8, <1>9 DEF d, k
<1> QED
  BY <1>1, <1>2, <1>7, <1>9, <1>10, <1>11 DEF s

(* A frame that is there is the first frame of what is left.               *)
LEMMA FrameTaken ==
    ASSUME TypeOK, FrameStatus(Unread) = "frame"
    PROVE  LET f == ReadFrame(Unread)
           IN /\ FrameStatus(Rest) = "frame" /\ ReadFrame(Rest) = f
              /\ read + Len(f.Raw) \in 0..arrived /\ f.Raw \in Seq(Int)
              /\ f.Raw \o Drop(client.bytes, read + Len(f.Raw)) = Rest
<1> DEFINE f == ReadFrame(Unread)
           k == arrived - read
<1>1. /\ client.bytes \in Seq(Int) /\ Len(client.bytes) \in Nat
      /\ arrived \in 0..Len(client.bytes) /\ read \in 0..arrived
      /\ Rest \in Seq(Int) /\ Len(Rest) = Len(client.bytes) - read
      /\ k \in 0..Len(Rest) /\ Unread = SubSeq(Rest, 1, k)
  BY UnreadBegins
<1> HIDE DEF k
<1>2. /\ FrameStatus(Rest) = "frame" /\ ReadFrame(Rest) = f
      /\ Len(ReadFrame(Rest).Raw) \in 1..k
  BY <1>1, FrameOfPart
<1>3. f.Raw \in Seq(Int) /\ f.Raw \o Drop(Rest, Len(f.Raw)) = Rest
  BY <1>1, <1>2, FrameShape
<1> DEFINE l == Len(f.Raw)
<1>4. l \in 1..k
  BY <1>2
<1> HIDE DEF l
<1>5. l \in 0..(Len(client.bytes) - read) /\ read + l \in 0..arrived
      /\ read \in 0..Len(client.bytes)
  BY <1>1, <1>4 DEF k
<1>6. Drop(Rest, l) = Drop(client.bytes, read + l)
  BY <1>1, <1>5, EndOfEnd DEF Rest
<1> QED
  BY <1>2, <1>3, <1>5, <1>6 DEF l

-----------------------------------------------------------------------------
(* The invariant: until the preamble knows what to write it has written    *)
(* nothing and remembers its first frame, what it has written with what it *)
(* has still to write and what it has left in the socket is what was       *)
(* promised, and of that a connection that has broken has had a beginning. *)

Reading ==
    /\ pc \in {"start", "first", "second"} => out = <<>> /\ pending = <<>>
    /\ pc \in {"start", "first"} => read = 0
    /\ pc \in {"first", "second"} => mode = "bungee"
    /\ pc = "second" => /\ AsksLogin(client.bytes)
                        /\ first = ReadFrame(client.bytes)
                        /\ read = Len(first.Raw)

Balance ==
    pc \in {"write", "pipe"} =>
        \/ pending = <<>> /\ out \o Rest = Promised
        \/ \E p \in Seq(Int) : pending = <<p>> /\ out \o (p \o Rest) = Promised
        \/ \E p, q \in Seq(Int) :
              pending = <<p, q>> /\ out \o (p \o (q \o Rest)) = Promised

Begun == out \in Seq(Int) /\ \E z \in Seq(Int) : out \o z = Promised

PreambleInv == TypeOK /\ Reading /\ Balance /\ Begun /\ OnlyIncompleteClosed

(* What is promised is settled when the connection is accepted.            *)
LEMMA PromiseStays ==
    ASSUME UNCHANGED <<mode, client>>
    PROVE  Promised' = Promised
BY DEF Promised

(* At the start.                                                           *)
LEMMA StartPromises == Init => PreambleInv
<1> SUFFICES ASSUME Init PROVE PreambleInv
  OBVIOUS
<1>1. mode \in Modes /\ client \in Clients /\ arrived = 0 /\ read = 0 /\ pc = "start"
      /\ pending = <<>> /\ out = <<>>
  BY DEF Init
<1>2. client.bytes \in Seq(Int) /\ Len(client.bytes) \in Nat
  BY <1>1, Bytes
<1>3. TypeOK
  BY <1>1, <1>2 DEF TypeOK, Up
<1>4. Promised \in Seq(Int) /\ <<>> \o Promised = Promised /\ <<>> \in Seq(Int)
  BY <1>1, PromisedByMode, ConcatEmptySeq, EmptySeq
<1>5. Begun
  BY <1>1, <1>4 DEF Begun
<1>6. Reading /\ Balance /\ OnlyIncompleteClosed
  BY <1>1 DEF Reading, Balance, OnlyIncompleteClosed
<1> QED
  BY <1>3, <1>5, <1>6 DEF PreambleInv

(* A byte arrives.                                                         *)
LEMMA ArrivePromises == PreambleInv /\ Arrive => PreambleInv'
<1> SUFFICES ASSUME PreambleInv, Arrive PROVE PreambleInv'
  OBVIOUS
<1>1. TypeOK /\ Reading /\ Balance /\ Begun /\ Promised' = Promised /\ Rest' = Rest
  BY PromiseStays DEF PreambleInv, Arrive, Rest
<1>2. /\ mode' = mode /\ client' = client /\ read' = read /\ pc' = pc /\ first' = first
      /\ pending' = pending /\ out' = out /\ arrived' = arrived + 1
      /\ arrived < Len(client.bytes) /\ Up
  BY DEF Arrive
<1>3. Len(client.bytes) \in Nat /\ arrived \in 0..Len(client.bytes) /\ read \in 0..arrived
  BY <1>1, UnreadBegins
<1>4. arrived' \in 0..Len(client.bytes') /\ read' \in 0..arrived'
  BY <1>2, <1>3
<1>5. TypeOK'
  BY <1>1, <1>2, <1>4 DEF TypeOK, Up
<1>6. Reading'
  BY <1>1, <1>2 DEF Reading
<1>7. Balance' /\ Begun'
  BY <1>1, <1>2 DEF Balance, Begun
<1>8. OnlyIncompleteClosed'
  BY <1>2 DEF OnlyIncompleteClosed, Up
<1> QED
  BY <1>5, <1>6, <1>7, <1>8 DEF PreambleInv

(* The preamble is chosen.                                                 *)
LEMMA ForwardPromises == PreambleInv /\ forwardPreamble => PreambleInv'
<1> SUFFICES ASSUME PreambleInv, forwardPreamble PROVE PreambleInv'
  OBVIOUS
<1>1. /\ TypeOK /\ Reading /\ Begun /\ Promised' = Promised
      /\ mode' = mode /\ client' = client /\ arrived' = arrived /\ read' = read
      /\ first' = first /\ out' = out /\ pc = "start"
  BY PromiseStays DEF PreambleInv, forwardPreamble
<1>2. out = <<>> /\ pending = <<>> /\ read = 0 /\ mode \in Modes /\ client \in Clients
  BY <1>1 DEF Reading, TypeOK
<1>3. Rest' = client.bytes /\ client.bytes \in Seq(Int)
  <2>1. client.bytes \in Seq(Int)
    BY <1>2, Bytes
  <2>2. Drop(client.bytes, 0) = client.bytes
    BY <2>1 DEF Drop
  <2> QED
    BY <2>1, <2>2, <1>1, <1>2 DEF Rest
<1>4. mode = "raw" \/ mode = "ppv2" \/ mode = "bungee"
  BY <1>2, EndsAssumption
<1>5. Begun'
  BY <1>1 DEF Begun
<1>6. CASE mode = "ppv2"
  <2>1. pending' = <<Marshal(Header)>> /\ pc' = "write"
    BY <1>1, <1>6, HeaderIsAddressed DEF forwardPreamble, ThenWrite
  <2>2. Marshal(Header) \in Seq(Int) /\ <<>> \in Seq(Int)
    BY EmptySeq, HeaderIsAddressed, HeaderRoundTrip
  <2>3. Promised = Marshal(Header) \o client.bytes /\ Promised \in Seq(Int)
    BY <1>2, <1>6, PromisedByMode
  <2>4. <<>> \o Promised = Promised
    BY <2>3, ConcatEmptySeq
  <2>5. Balance'
    <3>1. out' \o (Marshal(Header) \o Rest') = Promised'
      BY <2>3, <2>4, <1>1, <1>2, <1>3
    <3> QED
      BY <3>1, <2>1, <2>2 DEF Balance
  <2>6. TypeOK'
    BY <2>1, <1>1 DEF TypeOK, Up
  <2>7. Reading' /\ OnlyIncompleteClosed'
    BY <2>1 DEF Reading, OnlyIncompleteClosed
  <2> QED
    BY <2>5, <2>6, <2>7, <1>5 DEF PreambleInv
<1>7. CASE mode = "bungee"
  <2>1. pending' = <<>> /\ pc' = "first"
    BY <1>1, <1>2, <1>7 DEF forwardPreamble
  <2>2. TypeOK'
    BY <2>1, <1>1 DEF TypeOK, Up
  <2>3. Reading' /\ Balance' /\ OnlyIncompleteClosed'
    BY <2>1, <1>1, <1>2, <1>7 DEF Reading, Balance, OnlyIncompleteClosed
  <2> QED
    BY <2>2, <2>3, <1>5 DEF PreambleInv
<1>8. CASE mode = "raw"
  <2>1. pending' = <<>> /\ pc' = "pipe"
    BY <1>1, <1>2, <1>8 DEF forwardPreamble
  <2>2. Promised = client.bytes /\ <<>> \o client.bytes = client.bytes
    BY <1>2, <1>3, <1>8, PromisedByMode, ConcatEmptySeq
  <2>3. Balance'
    BY <2>1, <2>2, <1>1, <1>2, <1>3 DEF Balance
  <2>4. TypeOK'
    BY <2>1, <1>1 DEF TypeOK, Up
  <2>5. Reading' /\ OnlyIncompleteClosed'
    BY <2>1 DEF Reading, OnlyIncompleteClosed
  <2> QED
    BY <2>3, <2>4, <2>5, <1>5 DEF PreambleInv
<1> QED
  BY <1>4, <1>6, <1>7, <1>8

(* The first frame is read.                                                *)
LEMMA FirstPromises == PreambleInv /\ ReadFirst => PreambleInv'
<1> SUFFICES ASSUME PreambleInv, ReadFirst PROVE PreambleInv'
  OBVIOUS
<1> DEFINE f == ReadFrame(Unread)
           asks == ParseHandshake(f).ok /\ ParseHandshake(f).val.Intent = 2
<1>1. /\ TypeOK /\ Reading /\ Begun /\ Promised' = Promised
      /\ mode' = mode /\ client' = client /\ arrived' = arrived /\ out' = out
      /\ pc = "first" /\ FrameStatus(Unread) = "frame" /\ read' = read + Len(f.Raw)
      /\ IF asks THEN pc' = "second" /\ first' = f /\ UNCHANGED pending
                 ELSE pending' = <<f.Raw>> /\ pc' = "write" /\ UNCHANGED first
  BY PromiseStays DEF PreambleInv, ReadFirst, ThenWrite
<1>2. out = <<>> /\ pending = <<>> /\ read = 0 /\ mode = "bungee"
      /\ mode \in Modes /\ client \in Clients
  BY <1>1 DEF Reading, TypeOK
<1>3. client.bytes \in Seq(Int) /\ Rest = client.bytes
  <2>1. client.bytes \in Seq(Int)
    BY <1>2, Bytes
  <2>2. Drop(client.bytes, 0) = client.bytes
    BY <2>1 DEF Drop
  <2> QED
    BY <2>1, <2>2, <1>2 DEF Rest
<1>4. /\ FrameStatus(client.bytes) = "frame" /\ ReadFrame(client.bytes) = f
      /\ read' \in 0..arrived' /\ f.Raw \in Seq(Int)
      /\ f.Raw \o Drop(client.bytes, read') = client.bytes
  BY <1>1, <1>3, FrameTaken
<1>5. AsksLogin(client.bytes) <=> asks
  BY <1>4 DEF AsksLogin
<1>6. Begun'
  BY <1>1 DEF Begun
<1>7. Len(f.Raw) = read'
  <2>1. Len(f.Raw) \in Nat
    BY <1>4, LenProperties
  <2> QED
    BY <2>1, <1>1, <1>2
<1> HIDE DEF f
<1>8. CASE asks
  <2>1. pc' = "second" /\ first' = f /\ pending' = pending
    BY <1>1, <1>8
  <2>2. ParseHandshake(f).ok
    BY <1>8
  <2>3. TypeOK'
    BY <2>1, <2>2, <1>1, <1>4 DEF TypeOK, Up
  <2>4. Reading'
    BY <2>1, <1>1, <1>2, <1>4, <1>5, <1>7, <1>8 DEF Reading
  <2>5. Balance' /\ OnlyIncompleteClosed'
    BY <2>1 DEF Balance, OnlyIncompleteClosed
  <2> QED
    BY <2>3, <2>4, <2>5, <1>6 DEF PreambleInv
<1>9. CASE ~asks
  <2>1. pc' = "write" /\ pending' = <<f.Raw>>
    BY <1>1, <1>9
  <2>2. ~client.login
    BY <1>2, <1>5, <1>9, ClientsAssumption
  <2>3. Promised = client.bytes /\ <<>> \o client.bytes = client.bytes
    BY <2>2, <1>2, <1>3, PromisedByMode, ConcatEmptySeq
  <2>4. out' \o (f.Raw \o Rest') = Promised'
    <3>1. Rest' = Drop(client.bytes, read')
      BY <1>1 DEF Rest
    <3> QED
      BY <3>1, <2>3, <1>1, <1>2, <1>4
  <2>5. Balance'
    BY <2>1, <2>4, <1>4 DEF Balance
  <2>6. TypeOK'
    BY <2>1, <1>1, <1>4 DEF TypeOK, Up
  <2>7. Reading' /\ OnlyIncompleteClosed'
    BY <2>1 DEF Reading, OnlyIncompleteClosed
  <2> QED
    BY <2>5, <2>6, <2>7, <1>6 DEF PreambleInv
<1> QED
  BY <1>8, <1>9

(* The second frame is read.                                               *)
LEMMA SecondPromises == PreambleInv /\ ReadSecond => PreambleInv'
<1> SUFFICES ASSUME PreambleInv, ReadSecond PROVE PreambleInv'
  OBVIOUS
<1> DEFINE lf == ReadFrame(Unread)
           name == ParseLoginName(lf)
           hs == ParseHandshake(first).val
           rewritten == MarshalHandshake(hs, Forwarded(hs.Host, name.val))
           left == IF name.ok THEN rewritten ELSE first.Raw
<1>1. /\ TypeOK /\ Reading /\ Begun /\ Promised' = Promised
      /\ mode' = mode /\ client' = client /\ arrived' = arrived /\ out' = out
      /\ pc = "second" /\ FrameStatus(Unread) = "frame" /\ read' = read + Len(lf.Raw)
      /\ pending' = <<left, lf.Raw>> /\ pc' = "write"
  BY PromiseStays DEF PreambleInv, ReadSecond, ThenWrite
<1>2. /\ out = <<>> /\ mode = "bungee" /\ mode \in Modes /\ client \in Clients
      /\ AsksLogin(client.bytes) /\ first = ReadFrame(client.bytes)
      /\ read = Len(first.Raw)
  BY <1>1 DEF Reading, TypeOK
<1>3. client.bytes \in Seq(Int) /\ Rest = AfterFirst(client.bytes)
  <2>1. client.bytes \in Seq(Int)
    BY <1>2, Bytes
  <2> QED
    BY <2>1, <1>2 DEF Rest, AfterFirst
<1>4. /\ FrameStatus(AfterFirst(client.bytes)) = "frame"
      /\ ReadFrame(AfterFirst(client.bytes)) = lf
      /\ read' \in 0..arrived' /\ lf.Raw \in Seq(Int)
      /\ lf.Raw \o Drop(client.bytes, read') = AfterFirst(client.bytes)
  BY <1>1, <1>3, FrameTaken
<1>5. Enough(client.bytes) /\ PlayerName(client.bytes) = name
  BY <1>2, <1>4 DEF Enough, PlayerName, AsksLogin
<1>6. client.login <=> name.ok
  BY <1>2, <1>5, ClientsAssumption
<1>7. Rest' = Drop(client.bytes, read')
  BY <1>1 DEF Rest
<1>8. left \in Seq(Int) /\ Promised = left \o AfterFirst(client.bytes)
      /\ Promised \in Seq(Int)
  <2>0. Promised \in Seq(Int)
    BY <1>2, PromisedByMode
  <2>1. CASE name.ok
    <3>1. client.login
      BY <2>1, <1>6
    <3>2. hs = client.hs /\ name.val = client.name /\ client.after = AfterFirst(client.bytes)
      BY <3>1, <1>2, <1>5, ClientsAssumption
    <3>3. left = MarshalHandshake(client.hs, Forwarded(client.hs.Host, client.name))
      BY <3>2, <2>1
    <3>4. left \in Seq(Int)
      BY <3>1, <3>3, <1>2, Logins
    <3>5. Promised = left \o client.after
      BY <3>1, <3>3, <1>2, PromisedByMode
    <3> QED
      BY <3>2, <3>4, <3>5, <2>0
  <2>2. CASE ~name.ok
    <3>1. ~client.login /\ left = first.Raw
      BY <2>2, <1>6
    <3>2. Promised = client.bytes
      BY <3>1, <1>2, PromisedByMode
    <3>3. FrameStatus(client.bytes) = "frame"
      BY <1>2 DEF AsksLogin
    <3>4. first.Raw \in Seq(Int) /\ first.Raw \o Drop(client.bytes, Len(first.Raw)) = client.bytes
      BY <3>3, <1>2, <1>3, FrameShape
    <3>5. AfterFirst(client.bytes) = Drop(client.bytes, Len(first.Raw))
      BY <1>2 DEF AfterFirst
    <3> QED
      BY <3>1, <3>2, <3>4, <3>5, <2>0
  <2> QED
    BY <2>1, <2>2
<1> HIDE DEF lf, left
<1>9. out' \o (left \o (lf.Raw \o Rest')) = Promised'
  <2>1. <<>> \o Promised = Promised
    BY <1>8, ConcatEmptySeq
  <2> QED
    BY <2>1, <1>1, <1>2, <1>4, <1>7, <1>8
<1>10. Balance'
  BY <1>1, <1>4, <1>8, <1>9 DEF Balance
<1>11. TypeOK'
  BY <1>1, <1>4 DEF TypeOK, Up
<1>12. Reading' /\ Begun' /\ OnlyIncompleteClosed'
  BY <1>1 DEF Reading, Begun, OnlyIncompleteClosed
<1> QED
  BY <1>10, <1>11, <1>12 DEF PreambleInv

(* The preamble gives up: no frame came, so the client owes it bytes.      *)
LEMMA ErrorPromises ==
    ASSUME PreambleInv, NEW status \in {"bad", "more"}, ReadError(status)
    PROVE  PreambleInv'
<1>1. /\ TypeOK /\ Reading /\ Begun /\ Promised' = Promised
      /\ mode' = mode /\ client' = client /\ arrived' = arrived /\ read' = read
      /\ first' = first /\ out' = out /\ pending' = pending
      /\ pc \in {"first", "second"} /\ FrameStatus(Unread) # "frame" /\ pc' = "closed"
  BY PromiseStays DEF PreambleInv, ReadError
<1>2. TypeOK' /\ Reading' /\ Balance' /\ Begun'
  <2>1. TypeOK'
    BY <1>1 DEF TypeOK, Up
  <2>2. Reading' /\ Balance'
    BY <1>1 DEF Reading, Balance
  <2>3. Begun'
    BY <1>1 DEF Begun
  <2> QED
    BY <2>1, <2>2, <2>3
<1> DEFINE s == client.bytes
           sofar == SubSeq(s, 1, arrived)
<1>3. /\ client \in Clients /\ s \in Seq(Int) /\ Len(s) \in Nat
      /\ arrived \in 0..Len(s) /\ read \in 0..arrived
  BY <1>1, UnreadBegins DEF TypeOK
<1>4. Drop(sofar, read) = Unread
  <2> HIDE DEF s
  <2>1. Drop(SubSeq(s, 1, arrived), read) = SubSeq(s, read + 1, arrived)
    BY <1>3, PartOfInts
  <2> QED
    BY <2>1 DEF Unread, s
<1>5. ~Enough(sofar)
  <2> SUFFICES ASSUME Enough(sofar) PROVE FALSE
    OBVIOUS
  <2>1. /\ FrameStatus(sofar) = "frame"
        /\ AsksLogin(sofar) => FrameStatus(AfterFirst(sofar)) = "frame"
    BY DEF Enough
  <2>2. FrameStatus(s) = "frame" /\ ReadFrame(s) = ReadFrame(sofar)
    BY <2>1, <1>3, FrameOfPart
  <2>3. CASE pc = "first"
    <3>1. read = 0
      BY <2>3, <1>1 DEF Reading
    <3>2. read + 1 = 1
      BY <3>1
    <3>3. Unread = sofar
      BY <3>2 DEF Unread
    <3> QED
      BY <3>3, <2>1, <1>1
  <2>4. CASE pc = "second"
    <3>1. AsksLogin(s) /\ first = ReadFrame(s) /\ read = Len(first.Raw)
      BY <2>4, <1>1 DEF Reading
    <3>2. AsksLogin(sofar)
      BY <3>1, <2>1, <2>2 DEF AsksLogin
    <3>3. AfterFirst(sofar) = Unread
      BY <3>1, <2>2, <1>4 DEF AfterFirst
    <3> QED
      BY <3>2, <3>3, <2>1, <1>1
  <2> QED
    BY <2>3, <2>4, <1>1
<1>6. arrived < client.need
  <2>1. Enough(sofar) <=> arrived >= client.need
    BY <1>3, ClientsAssumption
  <2>2. client.need \in Nat /\ arrived \in Nat
    BY <1>3, Bytes
  <2> QED
    BY <2>1, <2>2, <1>5
<1>7. OnlyIncompleteClosed'
  BY <1>1, <1>6 DEF OnlyIncompleteClosed
<1> QED
  BY <1>2, <1>7 DEF PreambleInv

(* A chunk that comes next, and what a write of it or of its beginning     *)
(* leaves.                                                                 *)
LEMMA NextChunk ==
    ASSUME PreambleInv, NEW c \in Seq(Int), NEW t \in Seq(Int), out \o (c \o t) = Promised
    PROVE  /\ out \o c \in Seq(Int) /\ (out \o c) \o t = Promised
           /\ \A part \in Torn(c) : /\ out \o part \in Seq(Int)
                                    /\ \E z \in Seq(Int) : (out \o part) \o z = Promised
<1>1. out \in Seq(Int)
  BY DEF PreambleInv, Begun
<1>2. out \o c \in Seq(Int) /\ (out \o c) \o t = Promised
  <2>1. (out \o c) \o t = out \o (c \o t)
    BY <1>1, Reassociate
  <2> QED
    BY <2>1, <1>1, JoinedInts
<1>3. ASSUME NEW part \in Torn(c)
      PROVE  /\ out \o part \in Seq(Int)
             /\ \E z \in Seq(Int) : (out \o part) \o z = Promised
  <2>1. part \in Seq(Int) /\ \E z \in Seq(Int) : part \o z = c
    BY TornPart
  <2>2. PICK z \in Seq(Int) : part \o z = c
    BY <2>1
  <2>3. out \o part \in Seq(Int) /\ z \o t \in Seq(Int)
    BY <1>1, <2>1, JoinedInts
  <2>4. (out \o part) \o (z \o t) = out \o (part \o (z \o t))
    BY <1>1, <2>1, <2>3, Reassociate
  <2>5. (part \o z) \o t = part \o (z \o t)
    BY <2>1, Reassociate
  <2>6. (out \o part) \o (z \o t) = Promised
    BY <2>2, <2>4, <2>5
  <2> QED
    BY <2>3, <2>6
<1> QED
  BY <1>2, <1>3

(* What is to be written next and what comes after it.                     *)
LEMMA HeadOfPending ==
    ASSUME PreambleInv, pc = "write"
    PROVE  \E c \in Seq(Int), t \in Seq(Int) :
             /\ Head(pending) = c /\ out \o (c \o t) = Promised
             /\ \/ Tail(pending) = <<>> /\ t = Rest
                \/ \E q \in Seq(Int) : Tail(pending) = <<q>> /\ t = q \o Rest
<1>1. TypeOK /\ Balance
  BY DEF PreambleInv
<1>2. pending # <<>> /\ Rest \in Seq(Int)
  BY <1>1, UnreadBegins DEF TypeOK
<1>3. CASE \E p \in Seq(Int) : pending = <<p>> /\ out \o (p \o Rest) = Promised
  <2>1. PICK p \in Seq(Int) : pending = <<p>> /\ out \o (p \o Rest) = Promised
    BY <1>3
  <2>2. Head(<<p>>) = p /\ Tail(<<p>>) = <<>>
    OBVIOUS
  <2> QED
    BY <2>1, <2>2, <1>2
<1>4. CASE \E p, q \in Seq(Int) :
             pending = <<p, q>> /\ out \o (p \o (q \o Rest)) = Promised
  <2>1. PICK p \in Seq(Int), q \in Seq(Int) :
           pending = <<p, q>> /\ out \o (p \o (q \o Rest)) = Promised
    BY <1>4
  <2>2. Head(<<p, q>>) = p /\ Tail(<<p, q>>) = <<q>>
    OBVIOUS
  <2>3. q \o Rest \in Seq(Int)
    BY <2>1, <1>2, JoinedInts
  <2>4. Head(pending) = p /\ Tail(pending) = <<q>>
    BY <2>1, <2>2
  <2> QED
    BY <2>1, <2>3, <2>4
<1> QED
  BY <1>1, <1>2, <1>3, <1>4 DEF Balance

(* A write that succeeds.                                                  *)
LEMMA WritePromises == PreambleInv /\ Write => PreambleInv' /\ \E x \in Seq(Int) : out' = out \o x
<1> SUFFICES ASSUME PreambleInv, Write
             PROVE  PreambleInv' /\ \E x \in Seq(Int) : out' = out \o x
  OBVIOUS
<1>1. /\ TypeOK /\ Promised' = Promised /\ Rest' = Rest
      /\ mode' = mode /\ client' = client /\ arrived' = arrived /\ read' = read
      /\ first' = first /\ out' = out \o Head(pending) /\ pending' = Tail(pending)
      /\ pc = "write" /\ pc' = (IF Tail(pending) = <<>> THEN "pipe" ELSE "write")
  BY PromiseStays DEF PreambleInv, Write, Rest
<1>2. PICK c \in Seq(Int), t \in Seq(Int) :
             /\ Head(pending) = c /\ out \o (c \o t) = Promised
             /\ \/ Tail(pending) = <<>> /\ t = Rest
                \/ \E q \in Seq(Int) : Tail(pending) = <<q>> /\ t = q \o Rest
  BY <1>1, HeadOfPending
<1>3. out \o c \in Seq(Int) /\ (out \o c) \o t = Promised
  BY <1>2, NextChunk
<1>4. out' = out \o c /\ out' \o t = Promised'
  <2>1. out' = out \o c
    BY <1>1, <1>2
  <2> QED
    BY <2>1, <1>1, <1>3
<1>5. Balance' /\ TypeOK'
  <2>1. CASE Tail(pending) = <<>> /\ t = Rest
    <3>1. pending' = <<>> /\ pc' = "pipe"
      BY <2>1, <1>1
    <3>2. out' \o Rest' = Promised'
      BY <2>1, <1>1, <1>4
    <3> QED
      BY <3>1, <3>2, <1>1 DEF Balance, TypeOK, Up
  <2>2. CASE \E q \in Seq(Int) : Tail(pending) = <<q>> /\ t = q \o Rest
    <3>1. PICK q \in Seq(Int) : Tail(pending) = <<q>> /\ t = q \o Rest
      BY <2>2
    <3>2. pending' = <<q>> /\ pc' = "write"
      <4>1. <<q>> # <<>>
        OBVIOUS
      <4>2. Tail(pending) # <<>>
        BY <4>1, <3>1
      <4> QED
        BY <4>2, <3>1, <1>1
    <3>3. out' \o (q \o Rest') = Promised'
      BY <3>1, <1>1, <1>4
    <3>4. Balance'
      BY <3>1, <3>2, <3>3 DEF Balance
    <3>5. pending' # <<>>
      BY <3>2
    <3> QED
      BY <3>2, <3>4, <3>5, <1>1 DEF TypeOK, Up
  <2> QED
    BY <2>1, <2>2, <1>2
<1>6. Reading' /\ OnlyIncompleteClosed'
  BY <1>1 DEF Reading, OnlyIncompleteClosed
<1>7. Begun'
  <2>1. t \in Seq(Int) /\ out' \in Seq(Int)
    BY <1>2, <1>3, <1>4
  <2> QED
    BY <2>1, <1>4 DEF Begun
<1>8. \E x \in Seq(Int) : out' = out \o x
  BY <1>2, <1>4
<1> QED
  BY <1>5, <1>6, <1>7, <1>8 DEF PreambleInv

(* A write that fails.                                                     *)
LEMMA WriteFailsPromises ==
    PreambleInv /\ WriteFails => PreambleInv' /\ \E x \in Seq(Int) : out' = out \o x
<1> SUFFICES ASSUME PreambleInv, WriteFails
             PROVE  PreambleInv' /\ \E x \in Seq(Int) : out' = out \o x
  OBVIOUS
<1>1. /\ TypeOK /\ Promised' = Promised
      /\ mode' = mode /\ client' = client /\ arrived' = arrived /\ read' = read
      /\ first' = first /\ pending' = pending
      /\ pc = "write" /\ pc' = "failed"
  BY PromiseStays DEF PreambleInv, WriteFails
<1>2. PICK c \in Seq(Int), t \in Seq(Int) :
             Head(pending) = c /\ out \o (c \o t) = Promised
  BY <1>1, HeadOfPending
<1>3. PICK part \in Torn(c) : out' = out \o part
  BY <1>2 DEF WriteFails
<1>4. out \o part \in Seq(Int) /\ \E z \in Seq(Int) : (out \o part) \o z = Promised
  BY <1>2, <1>3, NextChunk
<1>5. part \in Seq(Int)
  BY <1>2, <1>3, TornPart
<1>6. Begun'
  BY <1>1, <1>3, <1>4 DEF Begun
<1>7. TypeOK' /\ Reading' /\ Balance' /\ OnlyIncompleteClosed'
  <2>1. TypeOK'
    BY <1>1 DEF TypeOK, Up
  <2> QED
    BY <2>1, <1>1 DEF Reading, Balance, OnlyIncompleteClosed
<1> QED
  BY <1>3, <1>5, <1>6, <1>7 DEF PreambleInv

(* What has arrived is next.                                               *)
LEMMA UnreadIsNext ==
    ASSUME PreambleInv, pc = "pipe"
    PROVE  /\ Unread \in Seq(Int) /\ Drop(client.bytes, arrived) \in Seq(Int)
           /\ pending = <<>>
           /\ out \o (Unread \o Drop(client.bytes, arrived)) = Promised
<1>1. TypeOK /\ Balance
  BY DEF PreambleInv
<1>2. pending = <<>>
  BY <1>1 DEF TypeOK, Up
<1>3. out \o Rest = Promised
  <2>1. \A p, q : pending # <<p>> /\ pending # <<p, q>>
    BY <1>2
  <2> QED
    BY <2>1, <1>1 DEF Balance
<1>4. /\ Unread \in Seq(Int) /\ Unread \o Drop(client.bytes, arrived) = Rest
      /\ client.bytes \in Seq(Int) /\ arrived \in 0..Len(client.bytes)
  BY <1>1, UnreadBegins
<1>5. Drop(client.bytes, arrived) \in Seq(Int)
  BY <1>4, Parts
<1> QED
  BY <1>2, <1>3, <1>4, <1>5

(* The pipe copies.                                                        *)
LEMMA PumpPromises == PreambleInv /\ Pump => PreambleInv' /\ \E x \in Seq(Int) : out' = out \o x
<1> SUFFICES ASSUME PreambleInv, Pump
             PROVE  PreambleInv' /\ \E x \in Seq(Int) : out' = out \o x
  OBVIOUS
<1>1. /\ TypeOK /\ Promised' = Promised
      /\ mode' = mode /\ client' = client /\ arrived' = arrived /\ read' = arrived
      /\ first' = first /\ pending' = pending /\ out' = out \o Unread
      /\ pc = "pipe" /\ pc' = pc
  BY PromiseStays DEF PreambleInv, Pump
<1>2. /\ Unread \in Seq(Int) /\ Drop(client.bytes, arrived) \in Seq(Int)
      /\ pending = <<>>
      /\ out \o (Unread \o Drop(client.bytes, arrived)) = Promised
  BY <1>1, UnreadIsNext
<1>3. out \o Unread \in Seq(Int) /\ (out \o Unread) \o Drop(client.bytes, arrived) = Promised
  BY <1>2, NextChunk
<1>4. Begun'
  BY <1>1, <1>2, <1>3 DEF Begun
<1>5. Rest' = Drop(client.bytes, arrived)
  BY <1>1 DEF Rest
<1>6. Balance'
  BY <1>1, <1>2, <1>3, <1>5 DEF Balance
<1>7. TypeOK'
  <2>1. read' \in 0..arrived' /\ arrived' \in 0..Len(client'.bytes)
    BY <1>1, UnreadBegins
  <2> QED
    BY <2>1, <1>1 DEF TypeOK, Up
<1>8. Reading' /\ OnlyIncompleteClosed'
  BY <1>1 DEF Reading, OnlyIncompleteClosed
<1> QED
  BY <1>1, <1>2, <1>4, <1>6, <1>7, <1>8 DEF PreambleInv

(* The pipe breaks.                                                        *)
LEMMA PumpFailsPromises ==
    PreambleInv /\ PumpFails => PreambleInv' /\ \E x \in Seq(Int) : out' = out \o x
<1> SUFFICES ASSUME PreambleInv, PumpFails
             PROVE  PreambleInv' /\ \E x \in Seq(Int) : out' = out \o x
  OBVIOUS
<1>1. /\ TypeOK /\ Promised' = Promised
      /\ mode' = mode /\ client' = client /\ arrived' = arrived /\ read' = arrived
      /\ first' = first /\ pending' = pending
      /\ pc = "pipe" /\ pc' = "failed"
  BY PromiseStays DEF PreambleInv, PumpFails
<1>2. /\ Unread \in Seq(Int) /\ Drop(client.bytes, arrived) \in Seq(Int)
      /\ out \o (Unread \o Drop(client.bytes, arrived)) = Promised
  BY <1>1, UnreadIsNext
<1>3. PICK part \in Torn(Unread) : out' = out \o part
  BY DEF PumpFails
<1>4. out \o part \in Seq(Int) /\ \E z \in Seq(Int) : (out \o part) \o z = Promised
  BY <1>2, <1>3, NextChunk
<1>5. part \in Seq(Int)
  BY <1>2, <1>3, TornPart
<1>6. Begun'
  BY <1>1, <1>3, <1>4 DEF Begun
<1>7. TypeOK'
  <2>1. read' \in 0..arrived' /\ arrived' \in 0..Len(client'.bytes)
    BY <1>1, UnreadBegins
  <2> QED
    BY <2>1, <1>1 DEF TypeOK, Up
<1>8. Reading' /\ Balance' /\ OnlyIncompleteClosed'
  BY <1>1 DEF Reading, Balance, OnlyIncompleteClosed
<1> QED
  BY <1>3, <1>5, <1>6, <1>7, <1>8 DEF PreambleInv

-----------------------------------------------------------------------------
(* The steps together.                                                     *)

LEMMA StepPromises == PreambleInv /\ [Next]_vars => PreambleInv'
<1> SUFFICES ASSUME PreambleInv, [Next]_vars PROVE PreambleInv'
  OBVIOUS
<1>1. CASE Arrive
  BY <1>1, ArrivePromises
<1>2. CASE forwardPreamble
  BY <1>2, ForwardPromises
<1>3. CASE ReadFirst
  BY <1>3, FirstPromises
<1>4. CASE ReadSecond
  BY <1>4, SecondPromises
<1>5. CASE BadLength \/ ReadTimeout
  BY <1>5, ErrorPromises DEF BadLength, ReadTimeout
<1>6. CASE Write
  BY <1>6, WritePromises
<1>7. CASE WriteFails
  BY <1>7, WriteFailsPromises
<1>8. CASE Pump
  BY <1>8, PumpPromises
<1>9. CASE PumpFails
  BY <1>9, PumpFailsPromises
<1>10. CASE UNCHANGED vars
  <2>1. /\ mode' = mode /\ client' = client /\ arrived' = arrived /\ read' = read
        /\ pc' = pc /\ first' = first /\ pending' = pending /\ out' = out
        /\ Promised' = Promised /\ Rest' = Rest
    BY <1>10, PromiseStays DEF vars, Rest
  <2>2. TypeOK' /\ Reading' /\ OnlyIncompleteClosed'
    BY <2>1 DEF PreambleInv, TypeOK, Up, Reading, OnlyIncompleteClosed
  <2>3. Balance' /\ Begun'
    BY <2>1 DEF PreambleInv, Balance, Begun
  <2> QED
    BY <2>2, <2>3 DEF PreambleInv
<1> QED
  BY <1>1, <1>2, <1>3, <1>4, <1>5, <1>6, <1>7, <1>8, <1>9, <1>10 DEF Next, Proceed

LEMMA AlwaysPromises == FairSpec => []PreambleInv
<1>1. Init => PreambleInv
  BY StartPromises
<1>2. PreambleInv /\ [Next]_vars => PreambleInv'
  BY StepPromises
<1> QED
  BY <1>1, <1>2, PTL DEF FairSpec

(* A step of a connection that is up delivers a beginning of the promise   *)
(* at least as long as the one before.                                     *)
LEMMA StepDelivers ==
    ASSUME PreambleInv, PreambleInv', Next
    PROVE  Up /\ Stream!Grow /\ Promised' = Promised
<1>1. Up
  BY DEF Next, Proceed, Arrive, forwardPreamble, ReadFirst, ReadSecond, BadLength, ReadTimeout,
         ReadError, Write, WriteFails, Pump, PumpFails, Up
<1>2. mode' = mode /\ client' = client
  BY DEF Next, Proceed, Arrive, forwardPreamble, ReadFirst, ReadSecond, BadLength, ReadTimeout,
         ReadError, Write, WriteFails, Pump, PumpFails
<1>3. Promised' = Promised
  BY <1>2, PromiseStays
<1>4. out' = out \/ \E x \in Seq(Int) : out' = out \o x
  <2>1. CASE Write \/ WriteFails \/ Pump \/ PumpFails
    BY <2>1, WritePromises, WriteFailsPromises, PumpPromises, PumpFailsPromises
  <2>2. CASE ~(Write \/ WriteFails \/ Pump \/ PumpFails)
    BY <2>2 DEF Next, Proceed, Arrive, forwardPreamble, ReadFirst, ReadSecond, BadLength,
                ReadTimeout, ReadError
  <2> QED
    BY <2>1, <2>2
<1>5. out \in Seq(Int) /\ out' \in Seq(Int)
  BY DEF PreambleInv, Begun
<1>6. PICK z \in Seq(Int) : out' \o z = Promised
  BY <1>3 DEF PreambleInv, Begun
<1>7. Len(out') =< Len(Promised) /\ out' = SubSeq(Promised, 1, Len(out'))
  <2>1. Len(out' \o z) = Len(out') + Len(z) /\ SubSeq(out' \o z, 1, Len(out')) = out'
    BY <1>5, <1>6, JoinedInts
  <2>2. Len(out') \in Nat /\ Len(z) \in Nat
    BY <1>5, <1>6, LenProperties
  <2>3. Len(out') =< Len(out') + Len(z)
    BY <2>2
  <2> QED
    BY <2>1, <2>3, <1>6
<1>8. Len(out) =< Len(out')
  <2>1. Len(out) \in Nat
    BY <1>5, LenProperties
  <2>2. CASE out' = out
    BY <2>1, <2>2
  <2>3. CASE \E x \in Seq(Int) : out' = out \o x
    <3>1. PICK x \in Seq(Int) : out' = out \o x
      BY <2>3
    <3>2. Len(out') = Len(out) + Len(x) /\ Len(x) \in Nat
      BY <3>1, <1>5, JoinedInts, LenProperties
    <3> QED
      BY <3>2, <2>1
  <2> QED
    BY <2>2, <2>3, <1>4
<1> QED
  BY <1>1, <1>3, <1>7, <1>8 DEF Stream!Grow

-----------------------------------------------------------------------------
(* Theorems.                                                               *)

(* Under every forward mode a backend reads a growing beginning of the     *)
(* bytes it was promised, whatever the client sends, however its bytes are *)
(* cut up on their way, and wherever a write fails: the preamble and the   *)
(* pipe implement the abstract byte stream.                                *)
THEOREM PromisesAreKept == FairSpec => KeepsPromise
<1>1. Init => Stream!Init
  BY DEF Init, Stream!Init, Up
<1>2. PreambleInv /\ PreambleInv' /\ [Next]_vars
        => [Stream!Deliver \/ Stream!Break]_<<Promised, out, Up>>
  <2> SUFFICES ASSUME PreambleInv, PreambleInv', [Next]_vars
               PROVE  [Stream!Deliver \/ Stream!Break]_<<Promised, out, Up>>
    OBVIOUS
  <2>1. CASE UNCHANGED vars
    <3>1. Promised' = Promised /\ out' = out /\ Up' = Up
      BY <2>1, PromiseStays DEF vars, Up
    <3> QED
      BY <3>1
  <2>2. CASE Next
    <3>1. Up /\ Stream!Grow /\ Promised' = Promised
      BY <2>2, StepDelivers
    <3>2. CASE Up'
      <4>1. Up' = Up
        BY <3>1, <3>2 DEF Up
      <4> QED
        BY <4>1, <3>1 DEF Stream!Deliver
    <3>3. CASE ~Up'
      <4>1. Up' = FALSE
        BY <3>3 DEF Up
      <4> QED
        BY <4>1, <3>1 DEF Stream!Break
    <3> QED
      BY <3>2, <3>3
  <2> QED
    BY <2>1, <2>2
<1> QED
  BY <1>1, <1>2, AlwaysPromises, PTL DEF FairSpec, KeepsPromise, Stream!Spec

(* What bungee mode has seen: nothing has gone to the backend before it    *)
(* has seen enough of the client; the first frame is complete when it      *)
(* waits for the second.                                                   *)

SoFar == SubSeq(client.bytes, 1, arrived)

Seen ==
    mode = "bungee" =>
        \/ pc \in {"start", "first", "closed"} /\ out = <<>>
        \/ pc = "second" /\ out = <<>> /\ FrameStatus(SoFar) = "frame"
        \/ pc \in {"write", "pipe", "failed"} /\ arrived >= client.need

(* What the client owes is settled by what has arrived, and what has       *)
(* arrived is read from its beginning.                                     *)
LEMMA EnoughIsNeed ==
    ASSUME TypeOK
    PROVE  /\ SoFar \in Seq(Int)
           /\ Enough(SoFar) <=> arrived >= client.need
           /\ arrived \in Nat /\ client.need \in Nat
           /\ read = 0 => Unread = SoFar
           /\ Drop(SoFar, read) = Unread
<1>1. /\ client \in Clients /\ client.bytes \in Seq(Int) /\ Len(client.bytes) \in Nat
      /\ arrived \in 0..Len(client.bytes) /\ read \in 0..arrived
  BY UnreadBegins DEF TypeOK
<1>2. Enough(SoFar) <=> arrived >= client.need
  BY <1>1, ClientsAssumption DEF SoFar
<1>3. client.need \in Nat /\ arrived \in Nat
  BY <1>1, Bytes
<1>4. SoFar \in Seq(Int)
  BY <1>1, Parts DEF SoFar
<1>5. Drop(SoFar, read) = Unread
  BY <1>1, PartOfInts DEF SoFar, Unread
<1>6. ASSUME read = 0 PROVE Unread = SoFar
  <2>1. read + 1 = 1
    BY <1>6
  <2> QED
    BY <2>1 DEF Unread, SoFar
<1> QED
  BY <1>2, <1>3, <1>4, <1>5, <1>6

(* One more byte leaves the first frame complete.                          *)
LEMMA ArriveSees == PreambleInv /\ Seen /\ Arrive => Seen'
<1> SUFFICES ASSUME PreambleInv, Seen, Arrive PROVE Seen'
  OBVIOUS
<1>1. /\ TypeOK /\ mode' = mode /\ client' = client /\ pc' = pc /\ out' = out
      /\ arrived' = arrived + 1 /\ arrived < Len(client.bytes)
  BY DEF PreambleInv, Arrive
<1>2. /\ client.bytes \in Seq(Int) /\ Len(client.bytes) \in Nat
      /\ arrived \in 0..Len(client.bytes) /\ client.need \in Nat
  BY <1>1, UnreadBegins, EnoughIsNeed
<1>3. arrived' \in 0..Len(client.bytes) /\ arrived \in 0..arrived'
  BY <1>1, <1>2
<1>4. SoFar' \in Seq(Int) /\ Len(SoFar') = arrived' /\ SubSeq(SoFar', 1, arrived) = SoFar
  <2>1. SoFar' = SubSeq(client.bytes, 1, arrived')
    BY <1>1 DEF SoFar
  <2>2. SubSeq(client.bytes, 1, arrived') \in Seq(Int)
        /\ Len(SubSeq(client.bytes, 1, arrived')) = arrived'
    BY <1>2, <1>3, Parts
  <2>3. SubSeq(SubSeq(client.bytes, 1, arrived'), 1, arrived) = SoFar
    BY <1>2, <1>3, PartOfInts DEF SoFar
  <2> QED
    BY <2>1, <2>2, <2>3
<1>5. FrameStatus(SoFar) = "frame" => FrameStatus(SoFar') = "frame"
  BY <1>3, <1>4, FrameOfPart
<1>6. arrived >= client.need => arrived' >= client.need'
  BY <1>1, <1>2
<1> QED
  BY <1>1, <1>5, <1>6 DEF Seen

(* The first frame is complete: it asks for a second one, or it is all     *)
(* bungee mode needs.                                                      *)
LEMMA FirstSees == PreambleInv /\ Seen /\ ReadFirst => Seen'
<1> SUFFICES ASSUME PreambleInv, Seen, ReadFirst PROVE Seen'
  OBVIOUS
<1> DEFINE asks == ParseHandshake(ReadFrame(Unread)).ok
                   /\ ParseHandshake(ReadFrame(Unread)).val.Intent = 2
<1>1. /\ TypeOK /\ Reading /\ mode' = mode /\ client' = client /\ arrived' = arrived
      /\ out' = out /\ pc = "first" /\ FrameStatus(Unread) = "frame"
      /\ IF asks THEN pc' = "second" ELSE pc' = "write"
  BY DEF PreambleInv, ReadFirst, ThenWrite
<1>2. out = <<>> /\ Unread = SoFar
  BY <1>1, EnoughIsNeed DEF Reading
<1>3. SoFar' = SoFar
  BY <1>1 DEF SoFar
<1>4. AsksLogin(SoFar) <=> asks
  BY <1>1, <1>2 DEF AsksLogin
<1>5. CASE asks
  BY <1>1, <1>2, <1>3, <1>5 DEF Seen
<1>6. CASE ~asks
  <2>1. Enough(SoFar)
    BY <1>1, <1>2, <1>4, <1>6 DEF Enough
  <2>2. arrived >= client.need
    BY <2>1, <1>1, EnoughIsNeed
  <2> QED
    BY <2>2, <1>1, <1>6 DEF Seen
<1> QED
  BY <1>5, <1>6

(* The second frame is complete: there is no more to wait for.             *)
LEMMA SecondSees == PreambleInv /\ Seen /\ ReadSecond => Seen'
<1> SUFFICES ASSUME PreambleInv, Seen, ReadSecond PROVE Seen'
  OBVIOUS
<1>1. /\ TypeOK /\ Reading /\ mode' = mode /\ client' = client /\ arrived' = arrived
      /\ pc = "second" /\ pc' = "write" /\ FrameStatus(Unread) = "frame"
  BY DEF PreambleInv, ReadSecond, ThenWrite
<1>2. FrameStatus(SoFar) = "frame"
  BY <1>1 DEF Reading, Seen
<1>3. /\ client.bytes \in Seq(Int) /\ arrived \in 0..Len(client.bytes)
      /\ first = ReadFrame(client.bytes) /\ read = Len(first.Raw)
  BY <1>1, UnreadBegins DEF Reading
<1>4. ReadFrame(SoFar) = first
  BY <1>2, <1>3, FrameOfPart DEF SoFar
<1>5. AfterFirst(SoFar) = Unread
  BY <1>1, <1>3, <1>4, EnoughIsNeed DEF AfterFirst
<1>6. Enough(SoFar)
  BY <1>1, <1>2, <1>5 DEF Enough
<1>7. arrived >= client.need
  BY <1>1, <1>6, EnoughIsNeed
<1> QED
  BY <1>1, <1>7 DEF Seen

LEMMA StepSees == PreambleInv /\ Seen /\ [Next]_vars => Seen'
<1> SUFFICES ASSUME PreambleInv, Seen, [Next]_vars PROVE Seen'
  OBVIOUS
<1>0. Reading
  BY DEF PreambleInv
<1>1. CASE Arrive
  BY <1>1, ArriveSees
<1>2. CASE forwardPreamble
  BY <1>2, <1>0 DEF forwardPreamble, ThenWrite, Seen, Reading
<1>3. CASE ReadFirst
  BY <1>3, FirstSees
<1>4. CASE ReadSecond
  BY <1>4, SecondSees
<1>5. CASE BadLength \/ ReadTimeout
  BY <1>5, <1>0 DEF BadLength, ReadTimeout, ReadError, Seen, Reading
<1>6. CASE Write
  BY <1>6 DEF Write, Seen
<1>7. CASE WriteFails
  BY <1>7 DEF WriteFails, Seen
<1>8. CASE Pump
  BY <1>8 DEF Pump, Seen
<1>9. CASE PumpFails
  BY <1>9 DEF PumpFails, Seen
<1>10. CASE UNCHANGED vars
  BY <1>10 DEF vars, Seen, SoFar
<1> QED
  BY <1>1, <1>2, <1>3, <1>4, <1>5, <1>6, <1>7, <1>8, <1>9, <1>10 DEF Next, Proceed

(* The preamble gives up only on a client it has not seen enough of,       *)
(* however few bytes each read finds, and under bungee the backend has got *)
(* nothing of such a client: a foreign client whose first bytes announce   *)
(* more than it sends never reaches it.                                    *)
THEOREM GivesUpOnDebtors == FairSpec => []Inv
<1>1. Init => Seen
  BY DEF Init, Seen
<1>2. PreambleInv /\ Seen /\ [Next]_vars => Seen'
  BY StepSees
<1>3. PreambleInv /\ Seen => Inv
  BY DEF PreambleInv, Seen, Reading, Inv, HeldBack
<1> QED
  BY <1>1, <1>2, <1>3, AlwaysPromises, PTL DEF FairSpec

(* A backend that expects a PROXY v2 header reads both addresses out of    *)
(* what it gets, and after it what the client sent.                        *)
THEOREM HeadersTell == FairSpec => []HeaderTells
<1>1. PreambleInv => HeaderTells
  <2> SUFFICES ASSUME PreambleInv, mode = "ppv2", pc = "pipe"
               PROVE  LET h == ReadHeader(out)
                      IN /\ h.ok
                         /\ h.val.SourceAddr = Source.IP /\ h.val.SourcePort = Source.Port
                         /\ h.val.DestAddr = Dest.IP /\ h.val.DestPort = Dest.Port
                         /\ IsPrefix(h.rest, client.bytes)
    BY DEF HeaderTells
  <2> DEFINE part == SubSeq(client.bytes, 1, read)
             m == Marshal(Header)
  <2>1. TypeOK /\ mode \in Modes /\ client \in Clients /\ out \in Seq(Int)
    BY DEF PreambleInv, TypeOK, Begun
  <2>2. /\ client.bytes \in Seq(Int) /\ Len(client.bytes) \in Nat
        /\ arrived \in 0..Len(client.bytes) /\ read \in 0..arrived
        /\ Rest \in Seq(Int) /\ part \o Rest = client.bytes
    BY <2>1, UnreadBegins
  <2>3. part \in Seq(Int) /\ Len(part) = read /\ read =< Len(client.bytes)
    <3>1. read \in 0..Len(client.bytes)
      BY <2>2
    <3> QED
      BY <3>1, <2>2, Parts
  <2>4. out \o Rest = m \o client.bytes
    <3>1. out \o (Unread \o Drop(client.bytes, arrived)) = Promised
      BY UnreadIsNext
    <3>2. Unread \o Drop(client.bytes, arrived) = Rest
      BY <2>1, UnreadBegins
    <3>3. Promised = m \o client.bytes
      BY <2>1, PromisedByMode
    <3> QED
      BY <3>1, <3>2, <3>3
  <2>5. m \in Seq(Int)
    BY <2>2, HeaderIsAddressed, HeaderRoundTrip
  <2> HIDE DEF m, part
  <2>6. out = m \o part
    <3>1. (m \o part) \o Rest = m \o (part \o Rest) /\ m \o part \in Seq(Int)
      BY <2>2, <2>3, <2>5, Reassociate, JoinedInts
    <3>2. out \o Rest = (m \o part) \o Rest
      BY <3>1, <2>2, <2>4
    <3> DEFINE u == m \o part
    <3>3. u \in Seq(Int) /\ out \o Rest = u \o Rest
      BY <3>1, <3>2
    <3> HIDE DEF u
    <3>4. out = u
      BY <3>3, <2>1, <2>2, SameBeginning
    <3> QED
      BY <3>4 DEF u
  <2>7. /\ ReadHeader(out).ok /\ ReadHeader(out).rest = part
        /\ ReadHeader(out).val =
             [Command |-> Header.Command, Family |-> Header.Family,
              Protocol |-> Header.Protocol,
              SourceAddr |-> Header.SourceAddr, DestAddr |-> Header.DestAddr,
              SourcePort |-> Header.SourcePort, DestPort |-> Header.DestPort]
    BY <2>3, <2>6, HeaderIsAddressed, HeaderRoundTrip DEF m
  <2>8. IsPrefix(part, client.bytes)
    <3>1. SubSeq(part, 1, Len(part)) = part
      BY <2>3
    <3> QED
      BY <3>1, <2>3 DEF IsPrefix, part
  <2> QED
    BY <2>7, <2>8, HeaderIsAddressed
<1> QED
  BY <1>1, AlwaysPromises, PTL

(* When the first frame that reaches a backend in bungee mode is there in  *)
(* full it is a handshake with the player's protocol version, port and     *)
(* intent, whatever the width of each, and the rewritten host.             *)
THEOREM IdentitiesReach == FairSpec => []IdentityReaches
<1>1. PreambleInv => IdentityReaches
  <2> SUFFICES ASSUME PreambleInv, mode = "bungee", client.login, FrameStatus(out) = "frame"
               PROVE  ParseHandshake(ReadFrame(out)) =
                        Parsed([client.hs EXCEPT !.Host = Forwarded(@, client.name)], <<>>)
    BY DEF IdentityReaches
  <2> DEFINE hs == client.hs
             host == Forwarded(hs.Host, client.name)
             m == MarshalHandshake(hs, host)
             t == client.after
  <2>1. mode \in Modes /\ client \in Clients /\ out \in Seq(Int)
    BY DEF PreambleInv, TypeOK, Begun
  <2>2. /\ hs = [Protocol |-> hs.Protocol, Host |-> hs.Host, Port |-> hs.Port,
                 Intent |-> hs.Intent]
        /\ hs.Protocol \in Int32 /\ hs.Port \in Int /\ hs.Intent \in Int32
        /\ host \in Seq(Int) /\ Len(host) =< MaxHost
        /\ t \in Seq(Int) /\ m \in Seq(Int)
    BY <2>1, Logins
  <2>3. Promised = m \o t
    BY <2>1, PromisedByMode
  <2>4. PICK z \in Seq(Int) : out \o z = Promised
    BY DEF PreambleInv, Begun
  <2> HIDE DEF hs, host, m, t
  <2> DEFINE s == m \o t
             k == Len(out)
  <2>5. s \in Seq(Int) /\ k \in 0..Len(s) /\ SubSeq(s, 1, k) = out
    <3>1. /\ Len(out \o z) = Len(out) + Len(z) /\ SubSeq(out \o z, 1, Len(out)) = out
          /\ out \o z \in Seq(Int) /\ Len(out) \in Nat /\ Len(z) \in Nat
      BY <2>1, <2>4, JoinedInts, LenProperties
    <3>2. Len(out) \in 0..Len(out \o z)
      BY <3>1
    <3> QED
      BY <3>1, <3>2, <2>3, <2>4
  <2> HIDE DEF s, k
  <2>6. FrameStatus(s) = "frame" /\ ReadFrame(s) = ReadFrame(out)
    BY <2>5, FrameOfPart
  <2>7. ParseHandshake(ReadFrame(s)) =
          Parsed([Protocol |-> hs.Protocol, Host |-> host, Port |-> hs.Port,
                  Intent |-> hs.Intent], <<>>)
    <3>1. FrameStatus(MarshalHandshake(hs, host) \o t) = "frame"
      BY <2>6 DEF s, m
    <3>2. /\ hs.Protocol \in Int32 /\ hs.Port \in Int /\ hs.Intent \in Int32
          /\ host \in Seq(Int) /\ Len(host) =< MaxHost /\ t \in Seq(Int)
      BY <2>2
    <3>3. ParseHandshake(ReadFrame(MarshalHandshake(hs, host) \o t)) =
            Parsed([Protocol |-> hs.Protocol, Host |-> host, Port |-> hs.Port,
                    Intent |-> hs.Intent], <<>>)
      BY <3>1, <3>2, HandshakeRoundTrip
    <3> QED
      BY <3>3 DEF s, m
  <2>8. [hs EXCEPT !.Host = host] =
          [Protocol |-> hs.Protocol, Host |-> host, Port |-> hs.Port, Intent |-> hs.Intent]
    <3>1. \A a, b, c, d, e : [[Protocol |-> a, Host |-> b, Port |-> c, Intent |-> d]
                                 EXCEPT !.Host = e]
                              = [Protocol |-> a, Host |-> e, Port |-> c, Intent |-> d]
      OBVIOUS
    <3>2. [[Protocol |-> hs.Protocol, Host |-> hs.Host, Port |-> hs.Port,
            Intent |-> hs.Intent] EXCEPT !.Host = host]
            = [Protocol |-> hs.Protocol, Host |-> host, Port |-> hs.Port,
               Intent |-> hs.Intent]
      BY <3>1
    <3> QED
      BY <3>2, <2>2
  <2>9. [client.hs EXCEPT !.Host = Forwarded(@, client.name)] = [hs EXCEPT !.Host = host]
    BY DEF hs, host
  <2> QED
    BY <2>6, <2>7, <2>8, <2>9
<1> QED
  BY <1>1, AlwaysPromises, PTL
=============================================================================
