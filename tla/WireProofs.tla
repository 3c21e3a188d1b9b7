----------------------------- MODULE WireProofs -----------------------------
(***************************************************************************)
(* Proofs about the byte streams of Wire: what the worker hands to forward *)
(* is a batch the service wrote, and the service hears what the worker     *)
(* said, in whatever pieces the socket delivers it.                        *)
(*                                                                         *)
(* A part of a stream is what has been taken of the current field, what is *)
(* on its way and what is still to be written.  The invariants say that    *)
(* these, joined, are the rest of the messages there are.                  *)
(***************************************************************************)
EXTENDS Wire, SequenceTheorems, FiniteSetTheorems, NaturalsInduction,
        WellFoundedInduction, TLAPS

(* Joining two parts, under a name the provers do not rewrite. *)
s ++ t == s \o t

LEMMA JoinIs ==
  ASSUME NEW S, NEW s \in Seq(S), NEW t \in Seq(S)
  PROVE  /\ s ++ t \in Seq(S) /\ Len(s ++ t) = Len(s) + Len(t)
         /\ \A i \in 1 .. Len(s) + Len(t) :
              (s ++ t)[i] = IF i <= Len(s) THEN s[i] ELSE t[i - Len(s)]
BY ConcatProperties DEF ++

LEMMA JoinType ==
  ASSUME NEW S, NEW s \in Seq(S), NEW t \in Seq(S)
  PROVE  s ++ t \in Seq(S) /\ Len(s ++ t) = Len(s) + Len(t)
BY JoinIs

LEMMA JoinNone ==
  ASSUME NEW S, NEW s \in Seq(S)
  PROVE  s ++ <<>> = s /\ <<>> ++ s = s /\ <<>> \in Seq(S)
BY ConcatEmptySeq, EmptySeq DEF ++

LEMMA Joined ==
  ASSUME NEW S, NEW s \in Seq(S), NEW t \in Seq(S), NEW u \in Seq(S)
  PROVE  (s ++ t) ++ u = s ++ (t ++ u)
BY ConcatAssociative DEF ++

(* A sequence is what is taken from its front and what is left of it. *)
LEMMA TakeDrop ==
  ASSUME NEW S, NEW s \in Seq(S), NEW k \in 0 .. Len(s)
  PROVE  /\ Take(s, k) \in Seq(S) /\ Len(Take(s, k)) = k
         /\ Drop(s, k) \in Seq(S) /\ Len(Drop(s, k)) = Len(s) - k
         /\ \A i \in 1 .. k : Take(s, k)[i] = s[i]
         /\ \A i \in 1 .. Len(s) - k : Drop(s, k)[i] = s[k + i]
         /\ Take(s, k) ++ Drop(s, k) = s
<1>1. Len(s) \in Nat /\ \A i \in 1 .. Len(s) : s[i] \in S
  BY ElementOfSeq
<1>2. /\ SubSeq(s, 1, k) \in Seq(S)
      /\ Len(SubSeq(s, 1, k)) = k
      /\ \A i \in 1 .. k : SubSeq(s, 1, k)[i] = s[i]
  <2>1. \A i \in 1 .. k : s[i] \in S
    BY <1>1
  <2>2. 1 \in Int /\ k \in Int
    BY <1>1
  <2> QED  BY <2>1, <2>2, SubSeqProperties
<1>3. /\ SubSeq(s, k + 1, Len(s)) \in Seq(S)
      /\ Len(SubSeq(s, k + 1, Len(s))) = Len(s) - k
      /\ \A i \in 1 .. Len(s) - k : SubSeq(s, k + 1, Len(s))[i] = s[k + i]
  <2>1. \A i \in k + 1 .. Len(s) : s[i] \in S
    BY <1>1
  <2>2. k + 1 \in Int /\ Len(s) \in Int
    BY <1>1
  <2>3. /\ SubSeq(s, k + 1, Len(s)) \in Seq(S)
        /\ Len(SubSeq(s, k + 1, Len(s))) = IF k + 1 <= Len(s) THEN Len(s) - (k + 1) + 1 ELSE 0
        /\ \A i \in 1 .. Len(s) - (k + 1) + 1 : SubSeq(s, k + 1, Len(s))[i] = s[k + 1 + i - 1]
    BY <2>1, <2>2, SubSeqProperties
  <2>4. Len(s) - (k + 1) + 1 = Len(s) - k /\ \A i \in 1 .. Len(s) - k : k + 1 + i - 1 = k + i
    BY <2>2
  <2> DEFINE d == SubSeq(s, k + 1, Len(s))
  <2>5. Len(d) = Len(s) - k
    BY <2>2, <2>3
  <2>6. ASSUME NEW i \in 1 .. Len(s) - k PROVE d[i] = s[k + i]
    <3>1. i \in 1 .. Len(s) - (k + 1) + 1 /\ k + 1 + i - 1 = k + i
      BY <2>4
    <3>2. d[i] = s[k + 1 + i - 1]
      BY <3>1, <2>3
    <3> QED  BY <3>1, <3>2
  <2> QED  BY <2>3, <2>5, <2>6
<1>4. SubSeq(s, 1, k) ++ SubSeq(s, k + 1, Len(s)) = s
  <2>1. 1 \in 1 .. Len(s) + 1 /\ k \in 1 - 1 .. Len(s) /\ Len(s) \in k .. Len(s)
    BY <1>1
  <2> QED  BY <2>1, ConcatAdjacentSubSeq, SubSeqFull DEF ++
<1> QED  BY <1>2, <1>3, <1>4 DEF Take, Drop

(* Two ways to cut a sequence: the parts agree when their lengths do. *)
LEMMA SameCut ==
  ASSUME NEW S, NEW a \in Seq(S), NEW b \in Seq(S), NEW c \in Seq(S), NEW d \in Seq(S),
         a ++ b = c ++ d, Len(a) = Len(c)
  PROVE  a = c /\ b = d
<1>1. /\ \A i \in 1 .. Len(a) + Len(b) :
           (a ++ b)[i] = IF i <= Len(a) THEN a[i] ELSE b[i - Len(a)]
      /\ \A i \in 1 .. Len(c) + Len(d) :
           (c ++ d)[i] = IF i <= Len(c) THEN c[i] ELSE d[i - Len(c)]
      /\ Len(a ++ b) = Len(a) + Len(b) /\ Len(c ++ d) = Len(c) + Len(d)
  BY JoinIs
<1>2. Len(a) \in Nat /\ Len(b) \in Nat /\ Len(c) \in Nat /\ Len(d) \in Nat /\ Len(b) = Len(d)
  BY <1>1
<1>3. \A i \in 1 .. Len(a) : a[i] = c[i]
  BY <1>1, <1>2
<1>4. a = c
  BY <1>3, SeqEqual
<1>5. ASSUME NEW i \in 1 .. Len(b) PROVE b[i] = d[i]
  <2>1. /\ Len(a) + i \in 1 .. Len(a) + Len(b) /\ ~(Len(a) + i <= Len(a))
        /\ Len(a) + i - Len(a) = i
    BY <1>2
  <2>2. (a ++ b)[Len(a) + i] = b[i] /\ (c ++ d)[Len(a) + i] = d[i]
    BY <2>1, <1>1, <1>2
  <2> QED  BY <2>2
<1>6. b = d
  BY <1>2, <1>5, SeqEqual
<1> QED  BY <1>4, <1>6

(* What starts with f still does after it is cut behind f. *)
LEMMA CutFront ==
  ASSUME NEW S, NEW a \in Seq(S), NEW b \in Seq(S), NEW f \in Seq(S), NEW r \in Seq(S),
         a ++ b = f ++ r, Len(f) <= Len(a)
  PROVE  Take(a, Len(f)) = f /\ Drop(a, Len(f)) ++ b = r
<1> DEFINE t == Take(a, Len(f))
           e == Drop(a, Len(f))
<1>1. Len(f) \in 0 .. Len(a)
  BY LenProperties
<1>2. t \in Seq(S) /\ e \in Seq(S) /\ Len(t) = Len(f) /\ t ++ e = a
  BY <1>1, TakeDrop
<1> HIDE DEF t, e
<1>3. t ++ (e ++ b) = f ++ r
  <2>1. (t ++ e) ++ b = t ++ (e ++ b)
    BY <1>2, Joined
  <2> QED  BY <2>1, <1>2
<1>4. e ++ b \in Seq(S)
  BY <1>2, JoinIs
<1>5. t = f /\ e ++ b = r
  BY <1>2, <1>3, <1>4, SameCut
<1> QED  BY <1>5 DEF t, e

(* Bytes that move from the front of one part to the end of the one before. *)
LEMMA Pour ==
  ASSUME NEW S, NEW a \in Seq(S), NEW b \in Seq(S), NEW k \in 0 .. Len(b)
  PROVE  (a ++ Take(b, k)) ++ Drop(b, k) = a ++ b
<1> DEFINE t == Take(b, k)
           e == Drop(b, k)
<1>1. t \in Seq(S) /\ e \in Seq(S) /\ t ++ e = b
  BY TakeDrop
<1> HIDE DEF t, e
<1>2. (a ++ t) ++ e = a ++ (t ++ e)
  BY <1>1, Joined
<1> QED  BY <1>1, <1>2 DEF t, e

LEMMA LeastIs ==
  ASSUME NEW m \in Int, NEW n \in Int
  PROVE  /\ Least(m, n) \in Int /\ Least(m, n) <= m /\ Least(m, n) <= n
         /\ Least(m, n) = m \/ Least(m, n) = n
BY DEF Least

LEMMA SetInduction ==
  ASSUME NEW S, 0 \in S, \A n \in Nat : n \in S => n + 1 \in S
  PROVE  Nat \subseteq S
<1> DEFINE missing == {n \in Nat : n \notin S}
<1>1. SUFFICES ASSUME missing # {} PROVE FALSE
  OBVIOUS
<1>2. PICK m \in missing : \A n \in missing : ~(<<n, m>> \in OpToRel(<, Nat))
  <2>1. missing \in SUBSET Nat
    OBVIOUS
  <2> HIDE DEF missing
  <2> QED  BY <1>1, <2>1, NatLessThanWellFounded, WFMin
<1>3. m \in Nat /\ m # 0 /\ m \notin S
  OBVIOUS
<1>4. m - 1 \in Nat /\ (m - 1) + 1 = m
  BY <1>3
<1>5. m - 1 \notin missing
  <2>1. m - 1 < m
    BY <1>3
  <2> QED  BY <1>2, <1>3, <1>4, <2>1, Zenon DEF OpToRel
<1>6. m - 1 \in S
  BY <1>4, <1>5
<1> QED  BY <1>3, <1>4, <1>6

-----------------------------------------------------------------------------
(* Numbers of two and of four bytes. *)
LEMMA BytesOf ==
  /\ Byte \subseteq Nat
  /\ \A b \in Seq(Byte) : b \in Seq(Nat)
  /\ \A b \in Seq(Byte) : \A i \in 1 .. Len(b) : b[i] \in Nat /\ b[i] <= 255
<1>1. Byte \subseteq Nat /\ \A x \in Byte : x \in Nat /\ x <= 255
  BY DEF Byte
<1>2. \A b \in Seq(Byte) : b \in Seq(Nat)
  BY <1>1, SeqMonotonic
<1> QED  BY <1>1, <1>2, ElementOfSeq

Shift(x) == 256 * Least(x, 65536)

Counts(f, b) ==
  f = [n \in 0 .. Len(b) |-> IF n = 0 THEN 0 ELSE Shift(f[n - 1]) + b[n]]

LEMMA NumberCounts ==
  ASSUME NEW b, NEW g, Counts(g, b)
  PROVE  \E f : Counts(f, b) /\ Number(b) = f[Len(b)]
<1> DEFINE f == CHOOSE h : Counts(h, b)
<1>1. Counts(f, b)
  <2> QED  BY Zenon
<1>2. Number(b) = f[Len(b)]
  BY DEF Number, Counts, Shift
<1> QED  BY <1>1, <1>2, Zenon

LEMMA FirstCounts ==
  ASSUME NEW b \in Seq(Nat), Len(b) >= 2, NEW f, Counts(f, b)
  PROVE  f[2] = Shift(b[1]) + b[2]
<1>1. Len(b) \in Nat /\ 0 \in 0 .. Len(b) /\ 1 \in 0 .. Len(b) /\ 2 \in 0 .. Len(b)
      /\ b[1] \in Nat
  OBVIOUS
<1>2. f[0] = 0
  BY <1>1 DEF Counts
<1>3. f[1] = Shift(f[0]) + b[1]
  BY <1>1 DEF Counts
<1>4. f[1] = b[1]
  BY <1>1, <1>2, <1>3 DEF Least, Shift
<1> QED  BY <1>1, <1>4 DEF Counts

LEMMA CountsExist ==
  ASSUME NEW b, NEW N \in Nat, N = Len(b), N <= 4
  PROVE  \E f : Counts(f, b)
<1> DEFINE v(x, n) == Shift(x) + b[n]
           v1 == v(0, 1)
           v2 == v(v1, 2)
           v3 == v(v2, 3)
           v4 == v(v3, 4)
           g == [n \in 0 .. N |-> IF n = 0 THEN 0 ELSE IF n = 1 THEN v1
                                  ELSE IF n = 2 THEN v2 ELSE IF n = 3 THEN v3 ELSE v4]
<1>1. g = [n \in 0 .. N |-> IF n = 0 THEN 0 ELSE v(g[n - 1], n)]
  <2> SUFFICES ASSUME NEW n \in 0 .. N
               PROVE  g[n] = IF n = 0 THEN 0 ELSE v(g[n - 1], n)
    OBVIOUS
  <2>2. n = 0 \/ n = 1 \/ n = 2 \/ n = 3 \/ n = 4
    OBVIOUS
  <2>3. n # 0 => n - 1 \in 0 .. N
    OBVIOUS
  <2> HIDE DEF v, v1, v2, v3, v4
  <2>4. CASE n = 0
    BY <2>4
  <2>5. CASE n = 1
    BY <2>3, <2>5 DEF v1
  <2>6. CASE n = 2
    BY <2>3, <2>6 DEF v2
  <2>7. CASE n = 3
    BY <2>3, <2>7 DEF v3
  <2>8. CASE n = 4
    BY <2>3, <2>8 DEF v4
  <2> QED  BY <2>2, <2>4, <2>5, <2>6, <2>7, <2>8
<1> HIDE DEF g
<1>2. Counts(g, b)
  <2> HIDE DEF v1, v2, v3, v4
  <2> QED  BY <1>1 DEF Counts
<1> QED  BY <1>2

LEMMA NumberTwo ==
  ASSUME NEW b \in Seq(Byte), Len(b) = 2
  PROVE  Number(b) = 256 * b[1] + b[2] /\ Number(b) \in Nat /\ Number(b) <= 65535
<1>1. b \in Seq(Nat) /\ 1 \in 1 .. Len(b) /\ 2 \in 1 .. Len(b)
  BY BytesOf
<1>2. b[1] \in Nat /\ b[2] \in Nat /\ b[1] <= 255 /\ b[2] <= 255
  BY <1>1, BytesOf
<1>3. PICK f : Counts(f, b) /\ Number(b) = f[Len(b)]
  <2>1. Len(b) \in Nat /\ Len(b) <= 4
    OBVIOUS
  <2>2. PICK g : Counts(g, b)
    BY <2>1, CountsExist
  <2> QED  BY <2>2, NumberCounts
<1>4. Number(b) = Shift(b[1]) + b[2]
  <2>1. Len(b) >= 2
    OBVIOUS
  <2>2. f[2] = Shift(b[1]) + b[2]
    BY <1>1, <1>3, <2>1, FirstCounts
  <2> QED  BY <1>3, <2>2
<1>5. Least(b[1], 65536) = b[1]
  BY <1>2 DEF Least
<1> QED  BY <1>2, <1>4, <1>5 DEF Shift

Most == LengthLimit + 255

LEMMA NumberFour ==
  ASSUME NEW b \in Seq(Byte), Len(b) = 4
  PROVE  /\ Number(b) \in Nat /\ Number(b) <= Most
         /\ b[1] = 0 => Number(b) = 65536 * b[2] + 256 * b[3] + b[4]
         /\ b[1] = 1 /\ b[2] = 0 /\ b[3] = 0 => Number(b) = Most - 255 + b[4]
<1>1. b \in Seq(Nat) /\ 1 \in 1 .. Len(b) /\ 2 \in 1 .. Len(b)
      /\ 3 \in 1 .. Len(b) /\ 4 \in 1 .. Len(b)
  BY BytesOf
<1>2. /\ b[1] \in Nat /\ b[2] \in Nat /\ b[1] <= 255 /\ b[2] <= 255
      /\ b[3] \in Nat /\ b[4] \in Nat /\ b[3] <= 255 /\ b[4] <= 255
  BY <1>1, BytesOf
<1>3. PICK f : Counts(f, b) /\ Number(b) = f[Len(b)]
  <2>1. Len(b) \in Nat /\ Len(b) <= 4
    OBVIOUS
  <2>2. PICK g : Counts(g, b)
    BY <2>1, CountsExist
  <2> QED  BY <2>2, NumberCounts
<1>4. /\ f[2] = Shift(b[1]) + b[2]
      /\ f[3] = Shift(f[2]) + b[3]
      /\ Number(b) = Shift(f[3]) + b[4]
  <2>1. Len(b) >= 2 /\ Len(b) >= 4
    OBVIOUS
  <2>2. f[2] = Shift(b[1]) + b[2]
    BY <1>1, <1>3, <2>1, FirstCounts
  <2>3. 3 \in 0 .. Len(b) /\ 4 \in 0 .. Len(b)
    OBVIOUS
  <2>4. f[3] = Shift(f[2]) + b[3]
    BY <1>3, <2>3 DEF Counts
  <2>5. f[4] = Shift(f[3]) + b[4]
    BY <1>3, <2>3 DEF Counts
  <2> QED  BY <1>3, <2>2, <2>4, <2>5
<1>5. SUFFICES ASSUME NEW x \in Nat, NEW y \in Nat, NEW z \in Nat, NEW w \in Nat,
                      x <= 255, y <= 255, z <= 255, w <= 255, NEW q,
                      x = b[1], y = b[2], z = b[3], w = b[4], q = Number(b)
               PROVE  /\ q \in Nat /\ q <= Most
                      /\ x = 0 => q = 65536 * y + 256 * z + w
                      /\ x = 1 /\ y = 0 /\ z = 0 => q = Most - 255 + w
  BY <1>2
<1> SUFFICES /\ q \in Nat /\ q <= Most
             /\ x = 0 => q = 65536 * y + 256 * z + w
             /\ x = 1 /\ y = 0 /\ z = 0 => q = Most - 255 + w
  OBVIOUS
<1>5a. x <= 255 /\ y <= 255 /\ z <= 255 /\ w <= 255
  BY <1>5
<1>6. q = Shift(Shift(Shift(x) + y) + z) + w
  BY <1>4, <1>5
<1>7. Least(x, 65536) = x
  BY <1>5a DEF Least
<1>8. PICK m \in Nat : m = 256 * x + y /\ m <= 65536
  BY <1>5a
<1>9. Least(m, 65536) = m
  BY <1>8 DEF Least
<1>10. PICK n \in Nat : n = 256 * m + z
  BY <1>8
<1>11. q = Shift(n) + w
  <2>1. Shift(x) = 256 * x /\ Shift(m) = 256 * m
    BY <1>7, <1>9 DEF Shift
  <2>2. Shift(x) + y = m
    BY <1>8, <2>1
  <2>3. Shift(m) + z = n
    BY <1>10, <2>1
  <2> QED  BY <1>6, <2>2, <2>3
<1>12. CASE n <= 65536
  <2>1. Least(n, 65536) = n
    BY <1>12 DEF Least
  <2>2. q = 256 * n + w
    BY <1>11, <2>1 DEF Shift
  <2> QED  BY <1>5a, <1>8, <1>10, <1>12, <2>2, SMT DEF Most, LengthLimit
<1>13. CASE n > 65536
  <2>1. Least(n, 65536) = 65536
    BY <1>10, <1>13 DEF Least
  <2>2. q = Most - 255 + w
    BY <1>11, <2>1, SMT DEF Most, LengthLimit, Shift
  <2> QED  BY <1>5a, <1>8, <1>10, <1>13, <2>2, SMT DEF Most, LengthLimit
<1> QED  BY <1>10, <1>12, <1>13

LEMMA Listed ==
  ASSUME NEW S, NEW n \in Nat, NEW f \in [1 .. n -> S]
  PROVE  f \in Seq(S) /\ Len(f) = n
OBVIOUS

LEMMA DigitsTwo ==
  ASSUME NEW n \in Nat
  PROVE  /\ Digits(n, 2) \in Seq(Byte) /\ Len(Digits(n, 2)) = 2
         /\ n <= 65535 => Number(Digits(n, 2)) = n
<1> DEFINE d == Digits(n, 2)
<1>1. PICK x \in Nat, y \in Nat : /\ x = (n \div 256) % 256 /\ y = n % 256
                                  /\ x <= 255 /\ y <= 255
  OBVIOUS
<1>2. d = [i \in 1 .. 2 |-> IF i = 1 THEN x ELSE y]
  <2>1. \A i \in 1 .. 2 : (n \div Weight[2 - i + 1]) % 256 = IF i = 1 THEN x ELSE y
    <3>1. (n \div Weight[2]) % 256 = x
      BY <1>1, SMT DEF Weight
    <3>2. n \div 1 = n
      OBVIOUS
    <3>3. (n \div Weight[1]) % 256 = y
      BY <1>1, <3>2, SMT DEF Weight
    <3> SUFFICES ASSUME NEW i \in 1 .. 2
                 PROVE  (n \div Weight[2 - i + 1]) % 256 = IF i = 1 THEN x ELSE y
      OBVIOUS
    <3>4. CASE i = 1
      <4>1. 2 - i + 1 = 2
        BY <3>4
      <4> QED  BY <4>1, <3>1, <3>4
    <3>5. CASE i = 2
      <4>1. 2 - i + 1 = 1
        BY <3>5
      <4> QED  BY <4>1, <3>3, <3>5
    <3> QED  BY <3>4, <3>5
  <2> QED  BY <2>1, Zenon DEF Digits
<1> HIDE DEF d
<1>3. x \in Byte /\ y \in Byte
  BY <1>1 DEF Byte
<1>4. d \in [1 .. 2 -> Byte] /\ d[1] = x /\ d[2] = y
  BY <1>2, <1>3
<1>5. d \in Seq(Byte) /\ Len(d) = 2
  BY <1>4, Listed, 2 \in Nat
<1>6. Number(d) = 256 * x + y
  <2>1. Number(d) = 256 * d[1] + d[2]
    BY <1>5, NumberTwo
  <2> QED  BY <2>1, <1>4
<1>7. n <= 65535 => 256 * x + y = n
  BY <1>1
<1> QED  BY <1>5, <1>6, <1>7 DEF d

LEMMA DigitsFour ==
  ASSUME NEW n \in Nat
  PROVE  /\ Digits(n, 4) \in Seq(Byte) /\ Len(Digits(n, 4)) = 4
         /\ n <= Most => Number(Digits(n, 4)) = n
<1> DEFINE d == Digits(n, 4)
<1>1. PICK x \in Nat, y \in Nat, z \in Nat, w \in Nat :
        /\ x = (n \div (Most - 255)) % 256 /\ y = (n \div 65536) % 256
        /\ z = (n \div 256) % 256 /\ w = n % 256
        /\ x <= 255 /\ y <= 255 /\ z <= 255 /\ w <= 255
  BY SMT DEF Most, LengthLimit
<1> DEFINE D(i) == IF i = 1 THEN x ELSE IF i = 2 THEN y ELSE IF i = 3 THEN z ELSE w
<1>2. d = [i \in 1 .. 4 |-> D(i)]
  <2>1. \A i \in 1 .. 4 : (n \div Weight[4 - i + 1]) % 256 = D(i)
    <3>1. (n \div Weight[4]) % 256 = x
      BY <1>1, SMT DEF Weight, Most, LengthLimit
    <3>2. (n \div Weight[3]) % 256 = y
      BY <1>1, SMT DEF Weight
    <3>3. (n \div Weight[2]) % 256 = z
      BY <1>1, SMT DEF Weight
    <3>4. n \div 1 = n
      OBVIOUS
    <3>5. (n \div Weight[1]) % 256 = w
      BY <1>1, <3>4, SMT DEF Weight
    <3> SUFFICES ASSUME NEW i \in 1 .. 4
                 PROVE  (n \div Weight[4 - i + 1]) % 256 = D(i)
      OBVIOUS
    <3>6. CASE i = 1
      <4>1. 4 - i + 1 = 4
        BY <3>6
      <4> QED  BY <4>1, <3>1, <3>6
    <3>7. CASE i = 2
      <4>1. 4 - i + 1 = 3
        BY <3>7
      <4> QED  BY <4>1, <3>2, <3>7
    <3>8. CASE i = 3
      <4>1. 4 - i + 1 = 2
        BY <3>8
      <4> QED  BY <4>1, <3>3, <3>8
    <3>9. CASE i = 4
      <4>1. 4 - i + 1 = 1
        BY <3>9
      <4> QED  BY <4>1, <3>5, <3>9
    <3> QED  BY <3>6, <3>7, <3>8, <3>9
  <2> HIDE DEF D
  <2> QED  BY <2>1, Zenon DEF Digits
<1> HIDE DEF d
<1>3. x \in Byte /\ y \in Byte /\ z \in Byte /\ w \in Byte
  BY <1>1 DEF Byte
<1>4. d \in [1 .. 4 -> Byte] /\ d[1] = x /\ d[2] = y /\ d[3] = z /\ d[4] = w
  BY <1>2, <1>3
<1>5. d \in Seq(Byte) /\ Len(d) = 4
  BY <1>4, Listed, 4 \in Nat
<1>6. /\ x = 0 => Number(d) = 65536 * y + 256 * z + w
      /\ x = 1 /\ y = 0 /\ z = 0 => Number(d) = Most - 255 + w
  <2>1. /\ d[1] = 0 => Number(d) = 65536 * d[2] + 256 * d[3] + d[4]
        /\ d[1] = 1 /\ d[2] = 0 /\ d[3] = 0 => Number(d) = Most - 255 + d[4]
    BY <1>5, NumberFour
  <2> QED  BY <2>1, <1>4
<1>7. ASSUME n <= Most PROVE Number(d) = n
  <2>1. CASE n < Most - 255
    <3>1. x = 0 /\ 65536 * y + 256 * z + w = n
      BY <1>1, <2>1, SMT DEF Most, LengthLimit
    <3> QED  BY <3>1, <1>6
  <2>2. CASE ~(n < Most - 255)
    <3>1. x = 1 /\ y = 0 /\ z = 0 /\ Most - 255 + w = n
      BY <1>1, <1>7, <2>2, SMT DEF Most, LengthLimit
    <3> QED  BY <3>1, <1>6
  <2> QED  BY <2>1, <2>2
<1> QED  BY <1>5, <1>7 DEF d

-----------------------------------------------------------------------------
(* A stream of N parts: t[k] is what is left of it after k of them. *)
Splits(t, N, p) ==
  /\ t \in [0 .. N -> Seq(Nat)]
  /\ t[N] = <<>>
  /\ \A k \in 1 .. N : t[k - 1] = p[k] ++ t[k]

Longer(t, N, q) == [k \in 0 .. N + 1 |-> IF k = N + 1 THEN <<>> ELSE t[k] ++ q]

(* A part more at its end. *)
LEMMA SplitsMore ==
  ASSUME NEW N \in Nat, NEW p, NEW t, Splits(t, N, p), NEW q \in Seq(Nat),
         \A k \in 1 .. N : p[k] \in Seq(Nat),
         NEW r, \A k \in 1 .. N : r[k] = p[k], r[N + 1] = q
  PROVE  Splits(Longer(t, N, q), N + 1, r)
<1> DEFINE u == Longer(t, N, q)
<1>1. \A k \in 0 .. N : t[k] \in Seq(Nat)
  BY DEF Splits
<1>2. \A k \in 0 .. N : k \in 0 .. N + 1 /\ u[k] = t[k] ++ q
  BY DEF Longer
<1>3. u[N + 1] = <<>>
  BY DEF Longer
<1>4. u \in [0 .. N + 1 -> Seq(Nat)]
  <2>1. \A k \in 0 .. N : t[k] ++ q \in Seq(Nat)
    BY <1>1, JoinIs
  <2>2. <<>> \in Seq(Nat)
    OBVIOUS
  <2>3. \A k \in 0 .. N + 1 : k # N + 1 => k \in 0 .. N
    OBVIOUS
  <2> QED  BY <2>1, <2>2, <2>3 DEF Longer
<1>5. ASSUME NEW k \in 1 .. N + 1 PROVE u[k - 1] = r[k] ++ u[k]
  <2>1. CASE k = N + 1
    <3>1. k - 1 = N /\ N \in 0 .. N
      <4>1. N + 1 - 1 = N /\ N \in 0 .. N
        OBVIOUS
      <4> QED  BY <2>1, <4>1
    <3>2. u[N] = t[N] ++ q /\ t[N] = <<>>
      BY <1>2, <3>1 DEF Splits
    <3>3. u[N] = q
      BY <3>2, JoinNone
    <3>4. r[k] ++ u[k] = q
      BY <1>3, <2>1, JoinNone
    <3> QED  BY <3>1, <3>3, <3>4
  <2>2. CASE k # N + 1
    <3>1. k \in 1 .. N /\ k - 1 \in 0 .. N /\ k \in 0 .. N
      BY <2>2
    <3>2. u[k - 1] = (p[k] ++ t[k]) ++ q /\ u[k] = t[k] ++ q
      BY <1>2, <3>1 DEF Splits
    <3>3. (p[k] ++ t[k]) ++ q = p[k] ++ (t[k] ++ q)
      BY <1>1, <3>1, Joined
    <3> QED  BY <3>1, <3>2, <3>3
  <2> QED  BY <2>1, <2>2
<1> HIDE DEF u
<1> QED  BY <1>3, <1>4, <1>5 DEF Splits, u

(* Joining parts one after the other ends with some sequence of results. *)
Adds(g, N, a, p) == g = [n \in 0 .. N |-> IF n = 0 THEN a ELSE g[n - 1] ++ p[n]]

LEMMA Accumulates ==
  ASSUME NEW N \in Nat, NEW a, NEW p
  PROVE  \E g : Adds(g, N, a, p)
<1> DEFINE Step(g, n) == IF n = 0 THEN a ELSE g[n - 1] ++ p[n]
           S == {n \in Nat : \E g : g = [i \in 0 .. n |-> Step(g, i)]}
<1>1. 0 \in S
  <2> DEFINE g == [i \in 0 .. 0 |-> a]
  <2>1. g = [i \in 0 .. 0 |-> Step(g, i)]
    <3>1. \A i \in 0 .. 0 : i = 0
      OBVIOUS
    <3> QED  BY <3>1
  <2> QED  BY <2>1
<1>2. ASSUME NEW n \in Nat, n \in S PROVE n + 1 \in S
  <2>1. PICK g : g = [i \in 0 .. n |-> Step(g, i)]
    BY <1>2
  <2> DEFINE h == [i \in 0 .. n + 1 |-> IF i = n + 1 THEN g[n] ++ p[n + 1] ELSE g[i]]
  <2>2. \A i \in 0 .. n : i \in 0 .. n + 1 /\ i # n + 1 /\ h[i] = g[i]
    OBVIOUS
  <2>3. ASSUME NEW i \in 0 .. n + 1 PROVE h[i] = Step(h, i)
    <3>1. CASE i = n + 1
      <4>1. i - 1 = n /\ i # 0 /\ n \in 0 .. n
        BY <3>1
      <4>2. h[i] = g[n] ++ p[n + 1] /\ h[n] = g[n]
        BY <2>2, <3>1, <4>1
      <4> QED  BY <3>1, <4>1, <4>2
    <3>2. CASE i # n + 1
      <4>1. i \in 0 .. n /\ (i # 0 => i - 1 \in 0 .. n)
        BY <3>2
      <4>2. g[i] = Step(g, i)
        BY <2>1, <4>1
      <4> HIDE DEF h
      <4> QED  BY <2>2, <4>1, <4>2
    <3> QED  BY <3>1, <3>2
  <2>4. h = [i \in 0 .. n + 1 |-> Step(h, i)]
    BY <2>3
  <2> HIDE DEF h, Step
  <2> QED  BY <2>4
<1>3. Nat \subseteq S
  <2> HIDE DEF S
  <2> QED  BY <1>1, <1>2, SetInduction
<1> QED  BY <1>3 DEF Adds

-----------------------------------------------------------------------------
(* Items, those a socket can carry, and the bytes of one. *)
Record == [id : Seq(Byte), state : Nat, data : Seq(Nat)]

Items == {it \in Record : Len(it.id) = 4 /\ it.state <= 65535 /\ Len(it.data) <= Most}

LEMMA ItemsAre ==
  /\ \A it \in Items : /\ it \in Record /\ it.id \in Seq(Byte) /\ it.state \in Nat
                       /\ it.data \in Seq(Nat) /\ Len(it.data) \in Nat
                       /\ Len(it.id) = 4 /\ it.state <= 65535 /\ Len(it.data) <= Most
  /\ Seq(Items) \subseteq Seq(Record)
<1>1. \A it \in Items : /\ it \in Record /\ Len(it.id) = 4 /\ it.state <= 65535 /\ Len(it.data) <= Most
  BY DEF Items
<1>2. \A it \in Record : it.id \in Seq(Byte) /\ it.state \in Nat /\ it.data \in Seq(Nat)
  BY DEF Record
<1>3. \A d \in Seq(Nat) : Len(d) \in Nat
  OBVIOUS
<1>4. Seq(Items) \subseteq Seq(Record)
  BY <1>1, SeqMonotonic
<1> QED  BY <1>1, <1>2, <1>3, <1>4

Part(it) ==
  it.id ++ (Digits(it.state, 2) ++ (Digits(Len(it.data), 4) ++ it.data))

Parts(items) == [k \in 1 .. Len(items) |-> Part(items[k])]

Start(flag, items) == Digits(flag, 2) ++ Digits(Len(items), 2)

LEMMA ItemIs ==
  ASSUME NEW it \in Record
  PROVE  /\ it.id \in Seq(Nat) /\ Digits(it.state, 2) \in Seq(Nat)
         /\ Digits(Len(it.data), 4) \in Seq(Nat) /\ it.data \in Seq(Nat)
         /\ Len(it.data) \in Nat
         /\ Digits(Len(it.data), 4) ++ it.data \in Seq(Nat)
         /\ Digits(it.state, 2) ++ (Digits(Len(it.data), 4) ++ it.data) \in Seq(Nat)
         /\ Part(it) \in Seq(Nat)
         /\ Item(it.id, it.state, it.data) = Part(it)
<1>1. /\ it.id \in Seq(Byte) /\ it.state \in Nat /\ it.data \in Seq(Nat)
  BY DEF Record
<1>2. Len(it.data) \in Nat
  BY <1>1
<1>3. /\ it.id \in Seq(Nat) /\ Digits(it.state, 2) \in Seq(Nat)
      /\ Digits(Len(it.data), 4) \in Seq(Nat)
  BY <1>1, <1>2, DigitsTwo, DigitsFour, BytesOf
<1> DEFINE a == it.id
           b == Digits(it.state, 2)
           c == Digits(Len(it.data), 4)
           d == it.data
<1>4. a \in Seq(Nat) /\ b \in Seq(Nat) /\ c \in Seq(Nat) /\ d \in Seq(Nat)
  BY <1>1, <1>3
<1>5. Item(it.id, it.state, it.data) = ((a ++ b) ++ c) ++ d
  BY Zenon DEF Item, ++
<1> HIDE DEF a, b, c, d
<1>6. c ++ d \in Seq(Nat) /\ b ++ (c ++ d) \in Seq(Nat) /\ a ++ (b ++ (c ++ d)) \in Seq(Nat)
      /\ a ++ b \in Seq(Nat)
  BY <1>4, JoinIs
<1>7. ((a ++ b) ++ c) ++ d = a ++ (b ++ (c ++ d))
  BY <1>4, <1>6, Joined
<1> QED  BY <1>1, <1>2, <1>3, <1>5, <1>6, <1>7 DEF Part, a, b, c, d

LEMMA StartIs ==
  ASSUME NEW flag \in Nat, NEW items \in Seq(Record)
  PROVE  /\ Digits(flag, 2) \in Seq(Nat) /\ Digits(Len(items), 2) \in Seq(Nat)
         /\ Start(flag, items) \in Seq(Nat) /\ Len(Start(flag, items)) = 4
<1>1. Len(items) \in Nat
  OBVIOUS
<1>2. /\ Digits(flag, 2) \in Seq(Nat) /\ Digits(Len(items), 2) \in Seq(Nat)
      /\ Len(Digits(flag, 2)) = 2 /\ Len(Digits(Len(items), 2)) = 2
  BY <1>1, DigitsTwo, BytesOf
<1> DEFINE x == Digits(flag, 2)
           y == Digits(Len(items), 2)
<1>3. x ++ y \in Seq(Nat) /\ Len(x ++ y) = Len(x) + Len(y)
  <2> HIDE DEF x, y
  <2>1. x \in Seq(Nat) /\ y \in Seq(Nat)
    BY <1>2 DEF x, y
  <2> QED  BY <2>1, JoinIs
<1>4. Len(x) + Len(y) = 4
  <2>1. Len(x) = 2 /\ Len(y) = 2
    BY <1>2
  <2> HIDE DEF x, y
  <2> QED  BY <2>1
<1> QED  BY <1>2, <1>3, <1>4 DEF Start

LEMMA PartsAre ==
  ASSUME NEW items \in Seq(Record), NEW k \in 1 .. Len(items)
  PROVE  items[k] \in Record /\ Parts(items)[k] = Part(items[k]) /\ Parts(items)[k] \in Seq(Nat)
<1>1. items[k] \in Record
  BY ElementOfSeq
<1> QED  BY <1>1, ItemIs DEF Parts

(* What a message is, read from its front. *)
Lays(flag, items, t) ==
  /\ Splits(t, Len(items), Parts(items))
  /\ Message(flag, items) = Start(flag, items) ++ t[0]

Grows(g, flag, items) ==
  g = [n \in 0 .. Len(items) |->
         IF n = 0 THEN Start(flag, items)
         ELSE g[n - 1] ++ Item(items[n].id, items[n].state, items[n].data)]

LEMMA MessageGrows ==
  ASSUME NEW flag, NEW items, NEW g, Grows(g, flag, items)
  PROVE  \E f : Grows(f, flag, items) /\ Message(flag, items) = f[Len(items)]
<1> DEFINE f == CHOOSE h : Grows(h, flag, items)
<1>1. Grows(f, flag, items)
  BY Zenon
<1>2. Message(flag, items) = f[Len(items)]
  BY Zenon DEF Message, Grows, Start, ++
<1> QED  BY <1>1, <1>2, Zenon

LEMMA MessageLays ==
  ASSUME NEW flag \in Nat, NEW items \in Seq(Record)
  PROVE  \E t : Lays(flag, items, t)
<1> DEFINE N == Len(items)
           p == Parts(items)
           a == Start(flag, items)
<1>1. N \in Nat /\ a \in Seq(Nat)
  BY StartIs
<1>2. \A k \in 1 .. N : p[k] \in Seq(Nat)
  BY PartsAre
<1>3. PICK g : g = [n \in 0 .. N |-> IF n = 0 THEN a ELSE g[n - 1] ++ p[n]]
  <2> HIDE DEF N, p, a
  <2>1. PICK g : Adds(g, N, a, p)
    BY <1>1, Accumulates
  <2> QED  BY <2>1 DEF Adds
<1>4. Grows(g, flag, items)
  <2>1. \A n \in 1 .. N : p[n] = Item(items[n].id, items[n].state, items[n].data)
    BY PartsAre, ItemIs
  <2>2. \A n \in 0 .. N : n # 0 => n \in 1 .. N
    BY <1>1
  <2>3. [n \in 0 .. N |-> IF n = 0 THEN a ELSE g[n - 1] ++ p[n]]
        = [n \in 0 .. N |-> IF n = 0 THEN a
             ELSE g[n - 1] ++ Item(items[n].id, items[n].state, items[n].data)]
    BY <2>1, <2>2
  <2> QED  BY <1>3, <2>3, Zenon DEF Grows
<1>5. PICK f : Grows(f, flag, items) /\ Message(flag, items) = f[N]
  BY <1>4, MessageGrows
<1>6. f[0] = a /\ \A n \in 1 .. N : f[n] = f[n - 1] ++ p[n]
  <2>1. 0 \in 0 .. N /\ \A n \in 1 .. N : n \in 0 .. N /\ n # 0
    BY <1>1
  <2>2. f[0] = a
    BY <1>5, <2>1 DEF Grows
  <2>3. ASSUME NEW n \in 1 .. N PROVE f[n] = f[n - 1] ++ p[n]
    <3>1. f[n] = f[n - 1] ++ Item(items[n].id, items[n].state, items[n].data)
      BY <1>5, <2>1 DEF Grows
    <3>2. p[n] = Item(items[n].id, items[n].state, items[n].data)
      BY PartsAre, ItemIs
    <3> QED  BY <3>1, <3>2
  <2> QED  BY <2>2, <2>3
<1> HIDE DEF N, p, a
<1> DEFINE S == {n \in Nat : n <= N => \E t : Splits(t, n, p) /\ f[n] = a ++ t[0]}
<1>7. 0 \in S
  <2> DEFINE t == [k \in 0 .. 0 |-> <<>>]
  <2>1. t[0] = <<>> /\ t \in [0 .. 0 -> Seq(Nat)]
    BY EmptySeq
  <2>2. Splits(t, 0, p)
    BY <2>1 DEF Splits
  <2>3. a ++ t[0] = f[0]
    BY <1>1, <1>6, <2>1, JoinNone
  <2> HIDE DEF t
  <2> QED  BY <2>2, <2>3
<1>8. ASSUME NEW n \in Nat, n \in S PROVE n + 1 \in S
  <2>1. SUFFICES ASSUME n + 1 <= N
                 PROVE  \E t : Splits(t, n + 1, p) /\ f[n + 1] = a ++ t[0]
    OBVIOUS
  <2>2. n <= N /\ n + 1 \in 1 .. N /\ \A k \in 1 .. n : k \in 1 .. N
    BY <1>1, <2>1
  <2>3. PICK t : Splits(t, n, p) /\ f[n] = a ++ t[0]
    BY <1>8, <2>2
  <2>4. p[n + 1] \in Seq(Nat) /\ \A k \in 1 .. n : p[k] \in Seq(Nat)
    BY <1>2, <2>2
  <2> DEFINE u == Longer(t, n, p[n + 1])
  <2>5. Splits(u, n + 1, p)
    BY <2>3, <2>4, SplitsMore
  <2>6. u[0] = t[0] ++ p[n + 1] /\ t[0] \in Seq(Nat)
    <3>1. 0 \in 0 .. n + 1 /\ 0 # n + 1 /\ 0 \in 0 .. n
      OBVIOUS
    <3> QED  BY <2>3, <3>1 DEF Longer, Splits
  <2>7. f[n + 1] = a ++ u[0]
    <3>1. (n + 1) - 1 = n
      OBVIOUS
    <3>2. f[n + 1] = f[n] ++ p[n + 1]
      BY <1>6, <2>2, <3>1
    <3>3. (a ++ t[0]) ++ p[n + 1] = a ++ (t[0] ++ p[n + 1])
      BY <1>1, <2>4, <2>6, Joined
    <3> QED  BY <2>3, <2>6, <3>2, <3>3
  <2> HIDE DEF u
  <2> QED  BY <2>5, <2>7
<1>9. N \in S
  <2>1. Nat \subseteq S
    <3> HIDE DEF S
    <3> QED  BY <1>7, <1>8, SetInduction
  <2> QED  BY <1>1, <2>1
<1>10. PICK t : Splits(t, N, p) /\ f[N] = a ++ t[0]
  BY <1>1, <1>9
<1> QED  BY <1>5, <1>10 DEF Lays, N, p, a

Rest(flag, items) == CHOOSE t : Lays(flag, items, t)

LEMMA RestIs ==
  ASSUME NEW flag \in Nat, NEW items \in Seq(Record)
  PROVE  /\ \A k \in 0 .. Len(items) : Rest(flag, items)[k] \in Seq(Nat)
         /\ Rest(flag, items)[Len(items)] = <<>>
         /\ \A k \in 1 .. Len(items) :
              Rest(flag, items)[k - 1] = Part(items[k]) ++ Rest(flag, items)[k]
         /\ Message(flag, items) = Start(flag, items) ++ Rest(flag, items)[0]
         /\ Message(flag, items) \in Seq(Nat)
<1> DEFINE t == Rest(flag, items)
<1>1. Lays(flag, items, t)
  <2>1. PICK u : Lays(flag, items, u)
    BY MessageLays
  <2> QED  BY <2>1, Zenon DEF Rest
<1> HIDE DEF t
<1>2. /\ Splits(t, Len(items), Parts(items))
      /\ Message(flag, items) = Start(flag, items) ++ t[0]
  BY <1>1 DEF Lays
<1>3. \A k \in 0 .. Len(items) : t[k] \in Seq(Nat)
  BY <1>2 DEF Splits
<1>4. t[Len(items)] = <<>>
  BY <1>2 DEF Splits
<1>5. \A k \in 1 .. Len(items) : t[k - 1] = Part(items[k]) ++ t[k]
  BY <1>2, PartsAre DEF Splits
<1>6. Message(flag, items) \in Seq(Nat)
  <2>1. 0 \in 0 .. Len(items)
    OBVIOUS
  <2>2. t[0] \in Seq(Nat) /\ Start(flag, items) \in Seq(Nat)
    BY <1>3, <2>1, StartIs
  <2>3. Start(flag, items) ++ t[0] \in Seq(Nat)
    BY <2>2, JoinType
  <2> QED  BY <1>2, <2>3
<1> QED  BY <1>2, <1>3, <1>4, <1>5, <1>6 DEF t

(* What the two ends join are bytes, when the payloads are. *)
LEMMA MessageBytes ==
  ASSUME NEW flag \in Nat, NEW items \in Seq(Record),
         \A k \in 1 .. Len(items) : items[k].data \in Seq(Byte)
  PROVE  Message(flag, items) \in Seq(Byte)
<1> DEFINE N == Len(items)
           p == [n \in 1 .. N |-> Item(items[n].id, items[n].state, items[n].data)]
           a == Start(flag, items)
<1>1. N \in Nat
  OBVIOUS
<1>2. a \in Seq(Byte)
  <2> DEFINE x == Digits(flag, 2)
             y == Digits(N, 2)
  <2>1. x \in Seq(Byte) /\ y \in Seq(Byte)
    BY <1>1, DigitsTwo
  <2>2. a = x ++ y
    BY DEF Start
  <2> HIDE DEF x, y, a
  <2> QED  BY <2>1, <2>2, JoinType
<1>3. \A n \in 1 .. N : p[n] \in Seq(Byte)
  <2> SUFFICES ASSUME NEW n \in 1 .. N PROVE p[n] \in Seq(Byte)
    OBVIOUS
  <2> DEFINE x == items[n].id
             y == Digits(items[n].state, 2)
             z == Digits(Len(items[n].data), 4)
             w == items[n].data
  <2>1. items[n] \in Record
    BY ElementOfSeq
  <2>2. x \in Seq(Byte) /\ items[n].state \in Nat /\ w \in Seq(Byte) /\ Len(w) \in Nat
    <3>1. w \in Seq(Byte)
      OBVIOUS
    <3>2. x \in Seq(Byte) /\ items[n].state \in Nat
      BY <2>1 DEF Record
    <3> HIDE DEF w
    <3>3. Len(w) \in Nat
      BY <3>1
    <3> QED  BY <3>1, <3>2, <3>3
  <2>3. y \in Seq(Byte) /\ z \in Seq(Byte)
    BY <2>2, DigitsTwo, DigitsFour
  <2>4. p[n] = ((x ++ y) ++ z) ++ w
    BY Zenon DEF Item, ++
  <2> HIDE DEF x, y, z, w, p
  <2>5. x ++ y \in Seq(Byte)
    BY <2>2, <2>3, JoinType
  <2>6. (x ++ y) ++ z \in Seq(Byte)
    BY <2>3, <2>5, JoinType
  <2>7. ((x ++ y) ++ z) ++ w \in Seq(Byte)
    BY <2>2, <2>6, JoinType
  <2> QED  BY <2>4, <2>7
<1>4. PICK g : Adds(g, N, a, p)
  <2> HIDE DEF N, a, p
  <2> QED  BY <1>1, Accumulates
<1>5. Grows(g, flag, items)
  <2>1. \A n \in 0 .. N : n # 0 => n \in 1 .. N
    BY <1>1
  <2>2. [n \in 0 .. N |-> IF n = 0 THEN a ELSE g[n - 1] ++ p[n]]
        = [n \in 0 .. N |-> IF n = 0 THEN a
             ELSE g[n - 1] ++ Item(items[n].id, items[n].state, items[n].data)]
    BY <2>1
  <2>3. g = [n \in 0 .. N |-> IF n = 0 THEN a ELSE g[n - 1] ++ p[n]]
    BY <1>4 DEF Adds
  <2> QED  BY <2>2, <2>3, Zenon DEF Grows
<1>6. PICK f : Grows(f, flag, items) /\ Message(flag, items) = f[N]
  BY <1>5, MessageGrows
<1>7. f[0] = a /\ \A n \in 1 .. N : f[n] = f[n - 1] ++ p[n]
  <2>1. 0 \in 0 .. N /\ \A n \in 1 .. N : n \in 0 .. N /\ n # 0
    BY <1>1
  <2> QED  BY <1>6, <2>1 DEF Grows
<1> HIDE DEF N, p, a
<1> DEFINE S == {n \in Nat : n <= N => f[n] \in Seq(Byte)}
<1>8. 0 \in S
  BY <1>2, <1>7
<1>9. ASSUME NEW n \in Nat, n \in S PROVE n + 1 \in S
  <2>1. SUFFICES ASSUME n + 1 <= N PROVE f[n + 1] \in Seq(Byte)
    OBVIOUS
  <2>2. n <= N /\ n + 1 \in 1 .. N /\ (n + 1) - 1 = n
    BY <1>1, <2>1
  <2>3. f[n] \in Seq(Byte) /\ p[n + 1] \in Seq(Byte) /\ f[n + 1] = f[n] ++ p[n + 1]
    BY <1>3, <1>7, <1>9, <2>2
  <2> QED  BY <2>3, JoinType
<1>10. Nat \subseteq S
  <2> HIDE DEF S
  <2> QED  BY <1>8, <1>9, SetInduction
<1> QED  BY <1>1, <1>6, <1>10

LEMMA TwoBytesAre ==
  \A x \in TwoBytes : x \in Nat /\ x <= 65535
BY DEF TwoBytes

LEMMA BatchIs ==
  ASSUME NEW i \in 1 .. Len(Work)
  PROVE  /\ Batch(i) \in Seq(Items) /\ Len(Batch(i)) = Len(Work[i]) /\ Len(Batch(i)) <= 65535
         /\ Message(0, Batch(i)) \in Seq(Byte)
<1>1. /\ Work[i] \in Seq([id : Nat, state : TwoBytes, data : Seq(Byte)])
      /\ Len(Work[i]) <= 65535
      /\ \A k \in DOMAIN Work[i] : Len(Work[i][k].data) < LengthLimit
  <2>1. Work \in Seq(Seq([id : Nat, state : TwoBytes, data : Seq(Byte)]))
    BY WireAssumption DEF WorkAssumption
  <2>2. i \in DOMAIN Work
    BY <2>1
  <2>3. Len(Work[i]) \in TwoBytes /\ \A k \in DOMAIN Work[i] : Len(Work[i][k].data) < LengthLimit
    BY <2>2, WireAssumption DEF WorkAssumption
  <2>4. Len(Work[i]) <= 65535
    BY <2>3, TwoBytesAre
  <2>5. Work[i] \in Seq([id : Nat, state : TwoBytes, data : Seq(Byte)])
    BY <2>1, ElementOfSeq
  <2> QED  BY <2>3, <2>4, <2>5
<1> DEFINE w == Work[i]
           b == Batch(i)
<1>2. ASSUME NEW k \in 1 .. Len(w)
      PROVE  b[k] \in Items /\ b[k].data \in Seq(Byte)
  <2>0. w \in Seq([id : Nat, state : TwoBytes, data : Seq(Byte)]) /\ k \in DOMAIN w
    BY <1>1
  <2>1. w[k] \in [id : Nat, state : TwoBytes, data : Seq(Byte)]
    BY <2>0, ElementOfSeq
  <2>2. w[k].id \in Nat /\ w[k].state \in TwoBytes /\ w[k].data \in Seq(Byte)
    BY <2>1
  <2>3. Len(w[k].data) < LengthLimit
    BY <1>1
  <2> DEFINE d == Digits(w[k].id, 4)
  <2>4. d \in Seq(Byte) /\ Len(d) = 4
    BY <2>2, DigitsFour
  <2>5. b[k] = [w[k] EXCEPT !.id = d]
    BY <1>1 DEF Batch
  <2> HIDE DEF d, w, b
  <2>6. /\ b[k] \in [id : Seq(Byte), state : TwoBytes, data : Seq(Byte)]
        /\ b[k].id = d /\ b[k].state = w[k].state /\ b[k].data = w[k].data
    BY <2>1, <2>4, <2>5
  <2>7. w[k].data \in Seq(Nat) /\ Len(w[k].data) \in Nat
    BY <2>2, BytesOf
  <2>3a. w[k].state \in Nat /\ w[k].state <= 65535
    BY <2>2, TwoBytesAre
  <2>8. b[k] \in [id : Seq(Byte), state : Nat, data : Seq(Nat)]
    BY <2>3a, <2>6, <2>7
  <2>9. Len(b[k].data) <= Most
    BY <2>3, <2>6, <2>7, SMT DEF Most, LengthLimit
  <2>10. b[k].state <= 65535
    BY <2>3a, <2>6
  <2> QED  BY <2>2, <2>4, <2>6, <2>8, <2>9, <2>10 DEF Items, Record
<1>3. b \in [1 .. Len(w) -> Items] /\ Len(w) \in Nat
  <2>1. DOMAIN w = 1 .. Len(w) /\ Len(w) \in Nat
    BY <1>1
  <2>2. b = [k \in 1 .. Len(w) |-> [w[k] EXCEPT !.id = Digits(@, 4)]]
    BY <2>1 DEF Batch
  <2>3. b = [k \in 1 .. Len(w) |-> b[k]]
    BY <2>2
  <2> HIDE DEF b, w
  <2> QED  BY <1>2, <2>1, <2>3
<1>4. b \in Seq(Items) /\ Len(b) = Len(w)
  BY <1>3, Listed
<1>5. Message(0, b) \in Seq(Byte)
  <2> HIDE DEF b, w
  <2>1. b \in Seq(Record)
    BY <1>4, ItemsAre
  <2>2. \A k \in 1 .. Len(b) : b[k].data \in Seq(Byte)
    BY <1>2, <1>4
  <2> QED  BY <2>1, <2>2, MessageBytes
<1> QED  BY <1>1, <1>4, <1>5

-----------------------------------------------------------------------------
LEMMA NumberNat ==
  ASSUME NEW b \in Seq(Nat), Len(b) <= 4
  PROVE  Number(b) \in Nat
<1>1. Len(b) \in Nat /\ \A i \in 1 .. Len(b) : b[i] \in Nat
  BY ElementOfSeq
<1>2. PICK f : Counts(f, b) /\ Number(b) = f[Len(b)]
  <2>1. PICK g : Counts(g, b)
    BY <1>1, CountsExist
  <2> QED  BY <2>1, NumberCounts
<1>3. \A x \in Nat : Shift(x) \in Nat
  BY DEF Shift, Least
<1>4. f[0] = 0 /\ \A n \in 1 .. Len(b) : f[n] = Shift(f[n - 1]) + b[n]
  <2>1. 0 \in 0 .. Len(b) /\ \A n \in 1 .. Len(b) : n \in 0 .. Len(b) /\ n # 0
    BY <1>1
  <2> QED  BY <1>2, <2>1 DEF Counts
<1> DEFINE S == {n \in Nat : n <= Len(b) => f[n] \in Nat}
<1>5. 0 \in S
  BY <1>4
<1>6. ASSUME NEW n \in Nat, n \in S PROVE n + 1 \in S
  <2>1. SUFFICES ASSUME n + 1 <= Len(b) PROVE f[n + 1] \in Nat
    OBVIOUS
  <2>2. n <= Len(b) /\ n + 1 \in 1 .. Len(b) /\ (n + 1) - 1 = n
    BY <1>1, <2>1
  <2>3. f[n + 1] = Shift(f[n]) + b[n + 1] /\ f[n] \in Nat /\ b[n + 1] \in Nat
    BY <1>1, <1>4, <1>6, <2>2
  <2>4. Shift(f[n]) \in Nat
    BY <1>3, <2>3
  <2> QED  BY <2>3, <2>4
<1>7. Nat \subseteq S
  <2> HIDE DEF S
  <2> QED  BY <1>5, <1>6, SetInduction
<1> QED  BY <1>1, <1>2, <1>7

(* The locals of Protocol.receive. *)
Locals ==
  [taken : BOOLEAN, left : Int, id : Seq(Byte), state : Seq(Byte), want : Nat,
   data : Seq(Byte), items : Seq(Record)]

(* Those of read_message. *)
Parsed == [id : Seq(Nat), state : Nat, data : Seq(Nat)]

Parse ==
  [part : {"head", "item", "data", "end"}, want : Nat, bytes : Seq(Nat), flag : Nat,
   left : Int, item : Seq(Nat), items : Seq(Parsed)]

Reading ==
  /\ got \in Parse /\ Len(got.bytes) <= got.want
  /\ got.part = "head" => got.want = 4 /\ got.items = <<>>
  /\ got.part = "item" => got.want = 10
  /\ got.part = "data" => Len(got.item) = 10

(* Types, and what the program counters say of the rest. *)
Base ==
  /\ Reading
  /\ down \in Seq(Byte) /\ out \in Seq(Byte)
  /\ up \in Seq(Nat) /\ mout \in Seq(Nat) /\ tout \in Seq(Nat)
  /\ sent \in 0 .. Len(Work) /\ emitted \in Nat
  /\ open \in BOOLEAN /\ short \in BOOLEAN /\ stalled \in BOOLEAN /\ torn \in BOOLEAN
  /\ sv \in {"idle", "writing", "reading", "delivering", "gone"}
  /\ wpc \in Receiving \cup {"head", "forward", "send", "close", "closed"}
  /\ rcv \in Locals
  /\ wpc = "payload" => rcv.want <= Most /\ Len(rcv.data) <= rcv.want
  /\ sv \notin {"writing", "gone"} => out = <<>>
  /\ ~open => sv = "gone"
  /\ wpc # "send" => mout = <<>>
  /\ tpc # "sending" => tout = <<>>
  /\ tpc = "sending" => wpc = "forward" \/ torn

(* The other end is closed and all it wrote is taken. *)
Lost == ~open /\ down = <<>>

(* What receive has is what a message can hold, as long as no header field *)
(* was read short.                                                         *)
Kept ==
  /\ wpc \in {"batch", "id", "state", "length", "payload", "forward"} =>
       rcv.items \in Seq(Items) /\ Len(rcv.items) <= 65535
  /\ wpc \in {"batch", "id", "state", "length", "payload"} => rcv.taken \/ ~open
  /\ wpc \in {"flag", "batch"} => rcv.items = <<>>
  /\ wpc = "flag" => ~rcv.taken
  /\ wpc = "id" => rcv.left \in Nat /\ rcv.left >= 1 /\ Len(rcv.items) + rcv.left <= 65535
  /\ wpc \in {"state", "length", "payload"} =>
       /\ rcv.left \in Nat /\ Len(rcv.items) + rcv.left <= 65534
       /\ Lost \/ Len(rcv.id) = 4
  /\ wpc \in {"length", "payload"} => Lost \/ Len(rcv.state) = 2
  /\ wpc = "payload" => Len(rcv.id) = 4 /\ Len(rcv.state) = 2

Messages ==
  {m \in [code : {"Normal", "StreamEvent", "InternalError"}, items : Seq(Items)] :
     Len(m.items) <= 65535}

KeptWell == ~short => Kept /\ said \in Seq(Messages)

(* The replies among messages. *)
Replies(messages) == {i \in 1 .. Len(messages) : messages[i].code # "StreamEvent"}

Inside == {"batch", "id", "state", "length", "payload", "forward"}

(* Of the b-th batch: what receive has taken ... *)
Known(b) ==
  LET B == Batch(b)
      k == Len(rcv.items)
  IN /\ Cardinality(Replies(said)) = IF wpc \in Inside THEN b - 1 ELSE b
     /\ wpc \in Inside => b >= 1
     /\ wpc = "forward" => rcv.items = B
     /\ wpc \in {"id", "state", "length", "payload"} =>
          /\ k < Len(B) /\ \A j \in 1 .. k : rcv.items[j] = B[j]
          /\ rcv.left = IF wpc = "id" THEN Len(B) - k ELSE Len(B) - k - 1
     /\ wpc \in {"state", "length", "payload"} => rcv.id = B[k + 1].id
     /\ wpc \in {"length", "payload"} => rcv.state = Digits(B[k + 1].state, 2)
     /\ wpc = "payload" => rcv.want = Len(B[k + 1].data)

(* ... and what of it is ahead, of which a payload is taken in pieces. *)
Ahead(b) ==
  LET B == Batch(b)
      k == Len(rcv.items)
      R == Rest(0, B)
      it == B[k + 1]
  IN CASE wpc = "batch" -> Digits(Len(B), 2) ++ R[0]
       [] wpc = "id" -> R[k]
       [] wpc = "state" -> Digits(it.state, 2) ++ (Digits(Len(it.data), 4) ++ (it.data ++ R[k + 1]))
       [] wpc = "length" -> Digits(Len(it.data), 4) ++ (it.data ++ R[k + 1])
       [] wpc = "payload" -> it.data ++ R[k + 1]
       [] OTHER -> <<>>

Piece == IF wpc = "payload" THEN rcv.data ELSE <<>>

Written == [i \in 1 .. Len(Work) |-> Message(0, Batch(i))]

DownAt(b, t) ==
  Known(b) /\ Piece ++ (down ++ out) = Ahead(b) ++ t[b]

(* The worker is at some place of what the service has written. *)
DownInv ==
  (~short /\ ~stalled /\ wpc \notin {"close", "closed"}) =>
    \/ Lost /\ wpc \in {"batch", "id", "state", "length"}
    \/ \E t : Splits(t, sent, Written) /\ \E b \in 0 .. sent : DownAt(b, t)

Codes ==
  {"Normal", "BadRequestError", "ValidationError", "TimeoutError", "StreamEvent", "InternalError"}

(* A batch is sent only when the ones before it are answered. *)
Asked ==
  /\ heard \in Seq([code : Codes, items : Seq(Parsed)])
  /\ wpc # "closed" =>
       sent <= Cardinality(Replies(heard)) + IF sv = "idle" THEN 0 ELSE 1

FlagOf(code) == CASE code = "Normal" -> 1 [] code = "StreamEvent" -> STREAM_EVENT [] OTHER -> 8

Spoken == [i \in 1 .. Len(said) |-> Message(FlagOf(said[i].code), said[i].items)]

(* The header of an item. *)
Heading(it) == it.id ++ (Digits(it.state, 2) ++ Digits(Len(it.data), 4))

(* What read_message has of a message m ... *)
Partway(g, m) ==
  LET M == m.items
      k == Len(g.items)
  IN /\ g.flag = FlagOf(m.code)
     /\ k <= Len(M) /\ g.items \in Seq(Items) /\ \A j \in 1 .. k : g.items[j] = M[j]
     /\ g.left = Len(M) - k
     /\ g.part = "item" => k < Len(M)
     /\ g.part = "data" =>
          k < Len(M) /\ g.want = Len(M[k + 1].data) /\ g.item = Heading(M[k + 1])
     /\ g.part = "end" => k = Len(M) /\ g.bytes = <<>> /\ g.want = 0

(* ... and what of it is ahead. *)
Remains(g, m) ==
  LET R == Rest(FlagOf(m.code), m.items)
      k == Len(g.items)
  IN CASE g.part = "item" -> R[k]
       [] g.part = "data" -> m.items[k + 1].data ++ R[k + 1]
       [] OTHER -> <<>>

(* The message that is read. *)
Reads == said[Len(heard) + 1]

Held ==
  got.part # "head" => Len(heard) < Len(said) /\ Partway(got, Reads)

Onward == Remains(got, Reads)

Begun == IF got.part = "head" THEN Len(heard) ELSE Len(heard) + 1

(* What it has not taken yet; the end of a reply is lost when sendall fails. *)
Coming(lost) == (up ++ (mout ++ tout)) ++ lost

UpAt(t, lost) ==
  /\ Len(heard) <= Len(said)
  /\ Held
  /\ lost = <<>> \/ wpc \in {"close", "closed"}
  /\ got.bytes ++ Coming(lost) = Onward ++ t[Begun]

Level == open /\ ~short /\ ~torn /\ (wpc = "closed" => sv \in {"reading", "delivering"})

(* The service is at some place of what the worker has said. *)
UpInv ==
  Level =>
    \E t : Splits(t, Len(said), Spoken) /\ \E lost \in Seq(Nat) : UpAt(t, lost)

Heard ==
  (~short /\ ~torn) =>
    /\ Len(heard) <= Len(said) /\ heard \in Seq(Messages)
    /\ \A i \in 1 .. Len(heard) : heard[i] = said[i]

-----------------------------------------------------------------------------
(* What a piece of at most w elements leaves of a part. *)
Chunked(S, s, w, k) ==
  /\ k \in 0 .. Len(s) /\ k <= w
  /\ Take(s, k) \in Seq(S) /\ Len(Take(s, k)) = k
  /\ Drop(s, k) \in Seq(S)
  /\ Len(s) >= w => k = w
  /\ Len(s) < w => k = Len(s) /\ Drop(s, k) = <<>>

LEMMA Chunk ==
  ASSUME NEW S, NEW s \in Seq(S), NEW w \in Nat
  PROVE  Chunked(S, s, w, Least(w, Len(s)))
<1>1. Len(s) \in Nat
  OBVIOUS
<1> SUFFICES ASSUME NEW k, k = Least(w, Len(s))
             PROVE  Chunked(S, s, w, k)
  OBVIOUS
<1>2. k \in 0 .. Len(s) /\ k <= w /\ (Len(s) >= w => k = w) /\ (Len(s) < w => k = Len(s))
  BY <1>1 DEF Least
<1>3. /\ Take(s, k) \in Seq(S) /\ Len(Take(s, k)) = k
      /\ Drop(s, k) \in Seq(S) /\ Len(Drop(s, k)) = Len(s) - k
  BY <1>2, TakeDrop
<1>4. Len(s) < w => Drop(s, k) = <<>>
  BY <1>1, <1>2, <1>3, EmptySeq
<1> QED  BY <1>2, <1>3, <1>4 DEF Chunked

(* The fields of a header are taken from the front of down. *)
LEMMA RecvIs ==
  ASSUME Base, NEW field \in DOMAIN Header, Recv(field)
  PROVE  /\ Field(field) \in Seq(Byte) /\ down' \in Seq(Byte) /\ Header[field] \in Nat
         /\ Len(down) \in Nat
         /\ Len(down) >= Header[field] =>
              /\ Len(Field(field)) = Header[field]
              /\ Field(field) = Take(down, Header[field]) /\ down' = Drop(down, Header[field])
         /\ (open /\ ~short' => Len(down) >= Header[field])
         /\ ~(Len(down) >= Header[field]) => down' = <<>> /\ Len(Field(field)) < Header[field]
         /\ Len(Field(field)) <= 4
         /\ short' \in BOOLEAN /\ (~short' => ~short)
<1>1. Header[field] \in Nat /\ Len(down) \in Nat /\ down \in Seq(Byte)
  <2>1. Header[field] \in Nat
    BY DEF Header
  <2>2. down \in Seq(Byte)
    BY DEF Base
  <2> QED  BY <2>1, <2>2
<1> DEFINE k == Least(Header[field], Len(down))
<1>2. Chunked(Byte, down, Header[field], k)
  BY <1>1, Chunk
<1>3. down' = Drop(down, k) /\ Field(field) = Take(down, k)
  BY DEF Recv, Field
<1>4. short' = (short \/ (open /\ Len(down) < Header[field])) /\ short \in BOOLEAN /\ open \in BOOLEAN
  BY DEF Recv, Base
<1> HIDE DEF k
<1>5. Len(down) >= Header[field] \/ Len(down) < Header[field]
  BY <1>1
<1>6. ~(Len(down) >= Header[field]) => Len(down) < Header[field]
  BY <1>1
<1>7. ~(Len(down) >= Header[field]) => down' = <<>> /\ Len(Field(field)) < Header[field]
  BY <1>1, <1>2, <1>3, <1>6 DEF Chunked
<1>8. Field(field) \in Seq(Byte) /\ down' \in Seq(Byte)
  BY <1>2, <1>3 DEF Chunked
<1>9. Len(down) >= Header[field] =>
        /\ Len(Field(field)) = Header[field]
        /\ Field(field) = Take(down, Header[field]) /\ down' = Drop(down, Header[field])
  BY <1>2, <1>3 DEF Chunked
<1>10. open /\ ~short' => Len(down) >= Header[field]
  BY <1>4, <1>5
<1>11. short' \in BOOLEAN /\ (~short' => ~short)
  BY <1>4
<1>12. Len(Field(field)) <= 4
  <2>1. Header[field] <= 4
    BY DEF Header
  <2>2. Len(Field(field)) \in Nat
    BY <1>8
  <2> QED  BY <1>1, <1>7, <1>9, <2>1, <2>2
<1> QED  BY <1>1, <1>7, <1>8, <1>9, <1>10, <1>11, <1>12

(* The room that is left takes a piece of what is to be written. *)
LEMMA Room ==
  ASSUME NEW S, NEW s \in Seq(S), NEW n \in Nat, NEW k, k = Least(Buffer - n, Len(s)), k > 0
  PROVE  k \in 0 .. Len(s) /\ Take(s, k) \in Seq(S) /\ Drop(s, k) \in Seq(S)
         /\ (k = Len(s) => Drop(s, k) = <<>>)
<1>1. k \in 0 .. Len(s)
  <2>1. Buffer - n \in Int /\ Len(s) \in Nat
    BY WireAssumption
  <2>2. Least(Buffer - n, Len(s)) \in Int /\ Least(Buffer - n, Len(s)) <= Len(s)
    BY <2>1, LeastIs
  <2> QED  BY <2>1, <2>2
<1>2. Take(s, k) \in Seq(S) /\ Drop(s, k) \in Seq(S) /\ Len(Drop(s, k)) = Len(s) - k
  BY <1>1, TakeDrop
<1>3. k = Len(s) => Drop(s, k) = <<>>
  BY <1>1, <1>2, EmptySeq
<1> QED  BY <1>1, <1>2, <1>3

LEMMA WriteIs ==
  ASSUME Base, WriteSome
  PROVE  /\ down' \in Seq(Byte) /\ out' \in Seq(Byte) /\ down' ++ out' = down ++ out
         /\ sv' = "writing" \/ (sv' = "reading" /\ out' = <<>>)
<1> DEFINE k == Least(Buffer - Len(down), Len(out))
<1>1. down \in Seq(Byte) /\ out \in Seq(Byte) /\ Len(down) \in Nat
  BY DEF Base
<1>2. k > 0 /\ down' = down ++ Take(out, k) /\ out' = Drop(out, k)
      /\ sv' = IF k = Len(out) THEN "reading" ELSE sv
  BY DEF WriteSome, ++
<1>3. k \in 0 .. Len(out) /\ Take(out, k) \in Seq(Byte) /\ Drop(out, k) \in Seq(Byte)
      /\ (k = Len(out) => Drop(out, k) = <<>>)
  BY <1>1, <1>2, Room
<1> HIDE DEF k
<1>4. down' \in Seq(Byte)
  BY <1>1, <1>2, <1>3, JoinType
<1>5. down' ++ out' = down ++ out
  BY <1>1, <1>2, <1>3, Pour
<1> QED  BY <1>2, <1>3, <1>4, <1>5 DEF WriteSome

LEMMA LocalsAre ==
  ASSUME NEW r \in Locals
  PROVE  /\ r.left \in Int /\ r.id \in Seq(Byte) /\ r.state \in Seq(Byte) /\ r.want \in Nat
         /\ r.data \in Seq(Byte) /\ r.items \in Seq(Record)
         /\ \A x \in BOOLEAN : [r EXCEPT !.taken = x] \in Locals
         /\ \A n \in Int : [r EXCEPT !.left = n] \in Locals
         /\ \A n \in Int, x \in Seq(Byte) : [r EXCEPT !.id = x, !.left = n] \in Locals
         /\ \A x \in Seq(Byte) : [r EXCEPT !.state = x] \in Locals
         /\ \A n \in Nat, x \in Seq(Byte) : [r EXCEPT !.want = n, !.data = x] \in Locals
         /\ \A x \in Seq(Byte) : [r EXCEPT !.data = x] \in Locals
         /\ \A x \in Seq(Record) : [r EXCEPT !.items = x] \in Locals
BY DEF Locals

LEMMA FreshIs ==
  Fresh \in Locals /\ Fresh.items = <<>> /\ Fresh.taken = FALSE
<1>1. <<>> \in Seq(Byte) /\ <<>> \in Seq(Record)
  BY EmptySeq
<1> QED  BY <1>1 DEF Fresh, Locals

(* _recv_all moves what there is of the payload from down to data. *)
LEMMA PayloadIs ==
  ASSUME Base, RecvPayload
  PROVE  /\ rcv' \in Locals /\ down' \in Seq(Byte)
         /\ \E d : rcv' = [rcv EXCEPT !.data = d]
         /\ rcv'.want = rcv.want /\ rcv'.data \in Seq(Byte) /\ Len(rcv'.data) <= rcv.want
         /\ rcv'.data ++ down' = rcv.data ++ down
<1>1. /\ rcv.want \in Nat /\ rcv.data \in Seq(Byte) /\ down \in Seq(Byte)
      /\ Len(rcv.data) \in Nat /\ Len(rcv.data) <= rcv.want
  BY DEF Base, Locals, RecvPayload
<1> DEFINE w == rcv.want - Len(rcv.data)
           k == Least(w, Len(down))
           d == rcv.data ++ Take(down, k)
<1>2. down' = Drop(down, k) /\ rcv' = [rcv EXCEPT !.data = d]
  BY DEF RecvPayload, ++
<1>3. w \in Nat
  BY <1>1
<1>4. Chunked(Byte, down, w, k)
  <2> HIDE DEF w
  <2> QED  BY <1>1, <1>3, Chunk
<1> HIDE DEF k
<1>5. k \in 0 .. Len(down) /\ k <= w /\ Take(down, k) \in Seq(Byte) /\ Len(Take(down, k)) = k
      /\ Drop(down, k) \in Seq(Byte)
  BY <1>4 DEF Chunked
<1>6. d \in Seq(Byte) /\ Len(d) = Len(rcv.data) + k
  BY <1>1, <1>5, JoinType
<1>7. d ++ Drop(down, k) = rcv.data ++ down
  BY <1>1, <1>5, Pour
<1>8. Len(d) <= rcv.want
  <2> HIDE DEF d
  <2> QED  BY <1>1, <1>5, <1>6
<1> HIDE DEF d
<1>9. rcv' \in Locals /\ rcv'.data = d /\ rcv'.want = rcv.want
  BY <1>2, <1>6 DEF Base, Locals
<1> QED  BY <1>2, <1>5, <1>6, <1>7, <1>8, <1>9

LEMMA KeepIs ==
  ASSUME Base, KeepItem
  PROVE  rcv' \in Locals
<1>1. /\ rcv.state \in Seq(Byte) /\ rcv.id \in Seq(Byte) /\ rcv.data \in Seq(Byte)
      /\ rcv.items \in Seq(Record) /\ rcv \in Locals
  BY DEF Base, Locals
<1>2. CASE rcv' = rcv
  BY <1>1, <1>2
<1> DEFINE it == [id |-> rcv.id, state |-> Number(rcv.state), data |-> rcv.data]
<1>3. CASE Len(rcv.state) = 2 /\ rcv' = [rcv EXCEPT !.items = Append(@, it)]
  <2>1. Number(rcv.state) \in Nat
    BY <1>1, <1>3, NumberTwo
  <2>2. it \in Record
    <3>1. rcv.data \in Seq(Nat)
      BY <1>1, BytesOf
    <3> QED  BY <1>1, <2>1, <3>1 DEF Record
  <2> HIDE DEF it
  <2>3. Append(rcv.items, it) \in Seq(Record)
    BY <1>1, <2>2
  <2>4. rcv' = [rcv EXCEPT !.items = Append(rcv.items, it)]
    BY <1>3
  <2> QED  BY <1>1, <2>3, <2>4 DEF Locals
<1> QED  BY <1>2, <1>3 DEF KeepItem, Header

(* read_message takes pieces of up, and goes from part to part. *)
LEMMA ParseIs ==
  ASSUME NEW g \in Parse
  PROVE  /\ g.want \in Nat /\ g.bytes \in Seq(Nat) /\ Len(g.bytes) \in Nat /\ g.flag \in Nat
         /\ g.left \in Int /\ g.item \in Seq(Nat) /\ g.items \in Seq(Parsed)
         /\ g.part \in {"head", "item", "data", "end"}
         /\ \A x \in Seq(Nat) : [g EXCEPT !.bytes = x] \in Parse
<1>1. \A x \in Seq(Nat) : Len(x) \in Nat
  OBVIOUS
<1> QED  BY <1>1 DEF Parse

LEMMA NoMessageIs ==
  /\ NoMessage \in Parse /\ NoMessage.bytes = <<>> /\ NoMessage.items = <<>>
  /\ NoMessage.part = "head" /\ NoMessage.want = 4 /\ Len(NoMessage.bytes) <= 4
<1>1. <<>> \in Seq(Nat) /\ <<>> \in Seq(Parsed) /\ Len(<<>>) = 0
  BY EmptySeq
<1> QED  BY <1>1 DEF NoMessage, Parse

LEMMA ReadIs ==
  ASSUME Base, ReadSome
  PROVE  /\ up' \in Seq(Nat) /\ got' \in Parse
         /\ \E b : got' = [got EXCEPT !.bytes = b] /\ got'.bytes = b
         /\ got'.bytes \in Seq(Nat) /\ Len(got'.bytes) <= got.want
         /\ got'.bytes ++ up' = got.bytes ++ up
<1>1. /\ got.want \in Nat /\ got.bytes \in Seq(Nat) /\ up \in Seq(Nat)
      /\ Len(got.bytes) \in Nat /\ Len(got.bytes) <= got.want /\ Len(up) \in Nat /\ got \in Parse
  <2>1. got \in Parse /\ up \in Seq(Nat) /\ Len(got.bytes) <= got.want
    BY DEF Base, Reading
  <2> QED  BY <2>1, ParseIs
<1> DEFINE w == got.want - Len(got.bytes)
           k == Least(Len(up), w)
           b == got.bytes ++ Take(up, k)
<1>2. up' = Drop(up, k) /\ got' = [got EXCEPT !.bytes = b] /\ k > 0
  BY DEF ReadSome, ++
<1>3. k \in 0 .. Len(up) /\ k <= w
  <2>1. w \in Int
    BY <1>1
  <2> HIDE DEF w
  <2>2. k \in Int /\ k <= Len(up) /\ k <= w
    <3>1. Len(up) \in Int
      BY <1>1
    <3> QED  BY <2>1, <3>1, LeastIs
  <2> QED  BY <1>1, <1>2, <2>2
<1> HIDE DEF k
<1>4. Take(up, k) \in Seq(Nat) /\ Len(Take(up, k)) = k /\ Drop(up, k) \in Seq(Nat)
  BY <1>1, <1>3, TakeDrop
<1>5. b \in Seq(Nat) /\ Len(b) = Len(got.bytes) + k
  BY <1>1, <1>4, JoinType
<1>6. b ++ Drop(up, k) = got.bytes ++ up
  BY <1>1, <1>3, Pour
<1>7. Len(b) <= got.want
  <2> HIDE DEF b
  <2> QED  BY <1>1, <1>3, <1>5
<1> HIDE DEF b
<1>8. got' \in Parse
  BY <1>1, <1>2, <1>5, ParseIs
<1>9. got'.bytes = b
  BY <1>1, <1>2 DEF Parse
<1> QED  BY <1>2, <1>4, <1>5, <1>6, <1>7, <1>8, <1>9

(* Where read_message is when an item may follow. *)
AtNext(g) ==
  /\ g.part = IF g.left = 0 THEN "end" ELSE "item"
  /\ g.want = IF g.left = 0 THEN 0 ELSE 10
  /\ g.bytes = <<>>

LEMMA ReadHead ==
  ASSUME Base, ReadPart, got.part = "head"
  PROVE  /\ got' \in Parse /\ AtNext(got') /\ Len(got.bytes) = 4
         /\ got'.flag = Number(Take(got.bytes, 2)) /\ got'.left = Number(Drop(got.bytes, 2))
         /\ got'.items = got.items
<1> DEFINE b == got.bytes
           f == Number(Take(b, 2))
           n == Number(Drop(b, 2))
<1>1. got \in Parse /\ b \in Seq(Nat) /\ Len(b) = 4
  BY ParseIs DEF Base, Reading, ReadPart
<1>2. f \in Nat /\ n \in Nat
  <2>1. 2 \in 0 .. Len(b)
    BY <1>1
  <2>2. /\ Take(b, 2) \in Seq(Nat) /\ Len(Take(b, 2)) = 2
        /\ Drop(b, 2) \in Seq(Nat) /\ Len(Drop(b, 2)) = Len(b) - 2
    BY <1>1, <2>1, TakeDrop
  <2>3. Len(Take(b, 2)) <= 4 /\ Len(Drop(b, 2)) <= 4
    <3>1. 10 - 6 = 4 /\ 4 - 2 = 2 /\ 2 <= 4
      OBVIOUS
    <3>2. Len(Drop(b, 2)) = 2
      BY <1>1, <2>2, <3>1, Zenon
    <3> QED  BY <2>2, <3>1, <3>2, Zenon
  <2> QED  BY <2>2, <2>3, NumberNat
<1>3. got' = [[got EXCEPT !.flag = f, !.left = n] EXCEPT
                !.part = IF n = 0 THEN "end" ELSE "item", !.want = IF n = 0 THEN 0 ELSE 10,
                !.bytes = <<>>]
  <2>1. [got EXCEPT !.flag = f, !.left = n].left = n
    <3> HIDE DEF f, n
    <3> QED  BY <1>1 DEF Parse
  <2> QED  BY <2>1 DEF ReadPart
<1> HIDE DEF f, n
<1>4. <<>> \in Seq(Nat)
  BY EmptySeq
<1>5. got' \in Parse /\ AtNext(got') /\ got'.flag = f /\ got'.left = n /\ got'.items = got.items
  <2>1. n \in Int
    BY <1>2
  <2> DEFINE y == [got EXCEPT !.flag = f, !.left = n]
  <2>2. y \in Parse /\ y.flag = f /\ y.left = n /\ y.items = got.items
    BY <1>1, <1>2, <2>1 DEF Parse
  <2>3. got' = [y EXCEPT !.part = IF n = 0 THEN "end" ELSE "item",
                         !.want = IF n = 0 THEN 0 ELSE 10, !.bytes = <<>>]
    BY <1>3
  <2> HIDE DEF y
  <2> QED  BY <1>4, <2>2, <2>3 DEF Parse, AtNext
<1> QED  BY <1>1, <1>5 DEF f, n

LEMMA ReadItem ==
  ASSUME Base, ReadPart, got.part = "item"
  PROVE  /\ got' \in Parse /\ got'.part = "data" /\ got'.bytes = <<>> /\ Len(got.bytes) = 10
         /\ got'.want = Number(Drop(got.bytes, 6)) /\ got'.item = got.bytes
         /\ got'.flag = got.flag /\ got'.left = got.left /\ got'.items = got.items
<1> DEFINE b == got.bytes
           n == Number(Drop(b, 6))
<1>1. got \in Parse /\ b \in Seq(Nat) /\ Len(b) = 10
  BY ParseIs DEF Base, Reading, ReadPart
<1>2. n \in Nat
  <2>1. 6 \in 0 .. Len(b)
    BY <1>1
  <2>2. Drop(b, 6) \in Seq(Nat) /\ Len(Drop(b, 6)) = Len(b) - 6
    BY <1>1, <2>1, TakeDrop
  <2>3. Len(Drop(b, 6)) <= 4
    <3>1. 10 - 6 = 4 /\ 4 <= 4
      OBVIOUS
    <3>2. Len(Drop(b, 6)) = 4
      BY <1>1, <2>2, <3>1, Zenon
    <3> QED  BY <3>1, <3>2, Zenon
  <2> QED  BY <2>2, <2>3, NumberNat
<1>3. got' = [got EXCEPT !.part = "data", !.want = n, !.bytes = <<>>, !.item = b]
  BY DEF ReadPart
<1> HIDE DEF n
<1>4. <<>> \in Seq(Nat)
  BY EmptySeq
<1>5. /\ got' \in Parse /\ got'.part = "data" /\ got'.bytes = <<>> /\ got'.want = n
      /\ got'.item = b /\ got'.flag = got.flag /\ got'.left = got.left /\ got'.items = got.items
  BY <1>1, <1>2, <1>3, <1>4 DEF Parse
<1> QED  BY <1>1, <1>5 DEF n

LEMMA ReadData ==
  ASSUME Base, ReadPart, got.part = "data"
  PROVE  /\ got' \in Parse /\ AtNext(got') /\ Len(got.bytes) = got.want
         /\ got'.left = got.left - 1 /\ got'.flag = got.flag
         /\ got'.items = Append(got.items, [id |-> Take(got.item, 4),
                                            state |-> Number(SubSeq(got.item, 5, 6)),
                                            data |-> got.bytes])
<1> DEFINE it == [id |-> Take(got.item, 4), state |-> Number(SubSeq(got.item, 5, 6)),
                  data |-> got.bytes]
           n == got.left - 1
           its == Append(got.items, it)
<1>1. /\ got \in Parse /\ got.bytes \in Seq(Nat) /\ got.item \in Seq(Nat) /\ Len(got.item) = 10
      /\ got.items \in Seq(Parsed) /\ got.left \in Int /\ Len(got.bytes) = got.want
  BY ParseIs DEF Base, Reading, ReadPart
<1>2. it \in Parsed
  <2>1. Take(got.item, 4) \in Seq(Nat)
    <3>1. 4 \in 0 .. Len(got.item)
      BY <1>1
    <3> QED  BY <1>1, <3>1, TakeDrop
  <2>2. SubSeq(got.item, 5, 6) \in Seq(Nat) /\ Len(SubSeq(got.item, 5, 6)) = 2
    <3>1. \A i \in 5 .. 6 : got.item[i] \in Nat
      <4>1. \A i \in 5 .. 6 : i \in 1 .. Len(got.item)
        BY <1>1
      <4> QED  BY <1>1, <4>1, ElementOfSeq
    <3>2. /\ SubSeq(got.item, 5, 6) \in Seq(Nat)
          /\ Len(SubSeq(got.item, 5, 6)) = IF 5 <= 6 THEN 6 - 5 + 1 ELSE 0
      <4>1. 5 \in Int /\ 6 \in Int
        OBVIOUS
      <4> QED  BY <3>1, <4>1, SubSeqProperties
    <3> QED  BY <3>2
  <2>3. Number(SubSeq(got.item, 5, 6)) \in Nat
    <3>1. Len(SubSeq(got.item, 5, 6)) <= 4
      BY <2>2
    <3> QED  BY <2>2, <3>1, NumberNat
  <2> QED  BY <1>1, <2>1, <2>3 DEF Parsed
<1>3. its \in Seq(Parsed)
  <2> HIDE DEF it
  <2> QED  BY <1>1, <1>2
<1> HIDE DEF its
<1>4. got' = [[got EXCEPT !.left = n, !.items = its] EXCEPT
                !.part = IF n = 0 THEN "end" ELSE "item", !.want = IF n = 0 THEN 0 ELSE 10,
                !.bytes = <<>>]
  <2>1. [got EXCEPT !.left = n, !.items = its].left = n
    <3> HIDE DEF n
    <3> QED  BY <1>1 DEF Parse
  <2> QED  BY <2>1 DEF ReadPart, its
<1>5. n \in Int
  BY <1>1
<1> HIDE DEF n
<1>6. <<>> \in Seq(Nat)
  BY EmptySeq
<1>7. got' \in Parse /\ AtNext(got') /\ got'.flag = got.flag /\ got'.left = n /\ got'.items = its
  BY <1>1, <1>3, <1>4, <1>5, <1>6 DEF Parse, AtNext
<1> QED  BY <1>1, <1>7 DEF n, its

LEMMA ReadingGoesOn ==
  ASSUME Base, ReadSome \/ ReadPart
  PROVE  Reading'
<1>1. CASE ReadSome
  <2>1. PICK b : got' = [got EXCEPT !.bytes = b] /\ got'.bytes = b
    BY <1>1, ReadIs
  <2>2. got' \in Parse /\ Len(got'.bytes) <= got.want
    BY <1>1, ReadIs
  <2>3. /\ got'.part = got.part /\ got'.want = got.want /\ got'.item = got.item
        /\ got'.items = got.items
    BY <2>1 DEF Base, Reading, Parse
  <2> QED  BY <2>2, <2>3 DEF Base, Reading
<1>2. CASE ReadPart /\ got.part = "head"
  <2>1. got' \in Parse /\ AtNext(got')
    BY <1>2, ReadHead
  <2> QED  BY <2>1, EmptySeq DEF Reading, AtNext
<1>3. CASE ReadPart /\ got.part = "item"
  <2>1. /\ got' \in Parse /\ got'.part = "data" /\ got'.bytes = <<>>
        /\ got'.item = got.bytes /\ Len(got.bytes) = 10
    BY <1>3, ReadItem
  <2>2. got'.want \in Nat
    BY <2>1, ParseIs
  <2> QED  BY <2>1, <2>2, EmptySeq DEF Reading
<1>4. CASE ReadPart /\ got.part = "data"
  <2>1. got' \in Parse /\ AtNext(got')
    BY <1>4, ReadData
  <2> QED  BY <2>1, EmptySeq DEF Reading, AtNext
<1>5. ReadPart => got.part \in {"head", "item", "data"}
  BY ParseIs DEF ReadPart, Base, Reading
<1> QED  BY <1>1, <1>2, <1>3, <1>4, <1>5

(* The two threads write what they have to say in pieces. *)
LEMMA ReplyIs ==
  ASSUME Base, Reply
  PROVE  \E flag \in {1, 8} :
           /\ mout' = Message(flag, rcv.items) /\ mout' \in Seq(Nat)
           /\ said' = Append(said, [code |-> CodeOf(flag), items |-> rcv.items])
<1>1. PICK flag \in {1, 8} :
        /\ mout' = Message(flag, rcv.items)
        /\ said' = Append(said, [code |-> CodeOf(flag), items |-> rcv.items])
  BY DEF Reply, Speak
<1>2. flag \in Nat /\ rcv.items \in Seq(Record)
  <2>1. rcv \in Locals
    BY DEF Base
  <2>2. rcv.items \in Seq(Record)
    BY <2>1, LocalsAre
  <2>3. flag \in Nat
    OBVIOUS
  <2> QED  BY <2>2, <2>3
<1>3. mout' \in Seq(Nat)
  BY <1>1, <1>2, RestIs
<1> QED  BY <1>1, <1>3

LEMMA ReplySomeIs ==
  ASSUME Base, ReplySome
  PROVE  /\ up' \in Seq(Nat) /\ mout' \in Seq(Nat) /\ up' ++ mout' = up ++ mout
         /\ wpc' = "send" \/ (wpc' = "head" /\ mout' = <<>>)
<1> DEFINE k == Least(Buffer - Len(up), Len(mout))
<1>1. up \in Seq(Nat) /\ mout \in Seq(Nat) /\ Len(up) \in Nat
  BY DEF Base
<1>2. k > 0 /\ up' = up ++ Take(mout, k) /\ mout' = Drop(mout, k)
      /\ wpc' = IF k = Len(mout) THEN "head" ELSE "send"
  BY DEF ReplySome, Goto, ++
<1>3. k \in 0 .. Len(mout) /\ Take(mout, k) \in Seq(Nat) /\ Drop(mout, k) \in Seq(Nat)
      /\ (k = Len(mout) => Drop(mout, k) = <<>>)
  BY <1>1, <1>2, Room
<1> HIDE DEF k
<1>4. up' \in Seq(Nat)
  BY <1>1, <1>2, <1>3, JoinType
<1>5. up' ++ mout' = up ++ mout
  BY <1>1, <1>2, <1>3, Pour
<1> QED  BY <1>2, <1>3, <1>4, <1>5

Event == <<[rcv.items[1] EXCEPT !.state = 0, !.data = <<emitted>>]>>

LEMMA EmitIs ==
  ASSUME Base, Emit
  PROVE  /\ tout' = Message(STREAM_EVENT, Event) /\ tout' \in Seq(Nat)
         /\ said' = Append(said, [code |-> CodeOf(STREAM_EVENT), items |-> Event])
         /\ rcv.items # <<>> /\ Event \in Seq(Record)
<1>1. /\ tout' = Message(STREAM_EVENT, Event) /\ rcv.items # <<>>
      /\ said' = Append(said, [code |-> CodeOf(STREAM_EVENT), items |-> Event])
  BY DEF Emit, Speak, Event
<1>2. rcv.items[1] \in Record /\ STREAM_EVENT \in Nat /\ emitted \in Nat
  <2>1. rcv.items \in Seq(Record)
    BY LocalsAre DEF Base
  <2>2. Len(rcv.items) \in Nat /\ Len(rcv.items) # 0
    BY <1>1, <2>1, EmptySeq
  <2>3. 1 \in 1 .. Len(rcv.items)
    BY <2>2
  <2> QED  BY <2>1, <2>3, ElementOfSeq DEF Base, STREAM_EVENT
<1>3. \A n \in Nat : <<n>> \in Seq(Nat)
  OBVIOUS
<1>4. \A it \in Record : [it EXCEPT !.state = 0, !.data = <<emitted>>] \in Record
  BY <1>2, <1>3 DEF Record
<1>5. Event \in Seq(Record)
  <2> DEFINE it == [rcv.items[1] EXCEPT !.state = 0, !.data = <<emitted>>]
  <2>1. it \in Record /\ Event = <<it>>
    BY <1>2, <1>4 DEF Event
  <2> HIDE DEF it
  <2> QED  BY <2>1
<1>6. Message(STREAM_EVENT, Event) \in Seq(Nat)
  BY <1>2, <1>5, RestIs
<1> QED  BY <1>1, <1>5, <1>6

LEMMA EventSomeIs ==
  ASSUME Base, EventSome
  PROVE  /\ up' \in Seq(Nat) /\ tout' \in Seq(Nat) /\ up' ++ tout' = up ++ tout
         /\ tpc' = "sending" \/ (tpc' = "idle" /\ tout' = <<>>)
<1> DEFINE k == Least(Buffer - Len(up), Len(tout))
<1>1. up \in Seq(Nat) /\ tout \in Seq(Nat) /\ Len(up) \in Nat
  BY DEF Base
<1>2. k > 0 /\ up' = up ++ Take(tout, k) /\ tout' = Drop(tout, k)
      /\ tpc' = IF k = Len(tout) THEN "idle" ELSE tpc
  BY DEF EventSome, ++
<1>3. k \in 0 .. Len(tout) /\ Take(tout, k) \in Seq(Nat) /\ Drop(tout, k) \in Seq(Nat)
      /\ (k = Len(tout) => Drop(tout, k) = <<>>)
  BY <1>1, <1>2, Room
<1> HIDE DEF k
<1>4. up' \in Seq(Nat)
  BY <1>1, <1>2, <1>3, JoinType
<1>5. up' ++ tout' = up ++ tout
  BY <1>1, <1>2, <1>3, Pour
<1> QED  BY <1>2, <1>3, <1>4, <1>5 DEF EventSome

(* Types, through read_exact, recv and the partial writes of both sides:   *)
(* the service never has more of a part than it wants, _recv_all never     *)
(* more than the length it was given, and each thread has bytes left only  *)
(* inside of its sendall.                                                  *)
THEOREM BaseHolds == WSpec => []Base
<1>1. WInit => Base
  <2> SUFFICES ASSUME WInit PROVE Base
    OBVIOUS
  <2>1. Len(Work) \in Nat /\ 0 \in 0 .. Len(Work)
    BY WireAssumption DEF WorkAssumption
  <2>2. <<>> \in Seq(Byte)
    BY EmptySeq
  <2>3. <<>> \in Seq(Nat)
    BY EmptySeq
  <2>4. Reading
    BY NoMessageIs DEF WInit, Reading
  <2> QED  BY <2>1, <2>2, <2>3, <2>4, FreshIs DEF WInit, Base, Receiving
<1>2. Base /\ [WNext]_wVars => Base'
  <2> SUFFICES ASSUME Base, [WNext]_wVars PROVE Base'
    OBVIOUS
  <2>w. Len(Work) \in Nat
    BY WireAssumption DEF WorkAssumption
  <2>0. got' = got => Reading'
    BY DEF Base, Reading
  <2>000. rcv \in Locals
    BY DEF Base
  <2>00. got' = NoMessage => Reading'
    BY NoMessageIs DEF Reading
  <2>1. CASE SendMessage
    <3>1. sent + 1 \in 1 .. Len(Work) /\ sent + 1 \in 0 .. Len(Work)
      BY <2>1, <2>w DEF SendMessage, Base
    <3>2. out' \in Seq(Byte)
      BY <2>1, <3>1, BatchIs DEF SendMessage
    <3> QED  BY <2>0, <2>1, <3>1, <3>2 DEF SendMessage, Base, worker, sends, faults
  <2>2. CASE WriteSome
    BY <2>0, <2>2, WriteIs DEF WriteSome, Base, worker, sends, faults
  <2>3. CASE ReadSome
    <3>1. up' \in Seq(Nat)
      BY <2>3, ReadIs
    <3> QED  BY <2>3, <3>1, ReadingGoesOn DEF ReadSome, Base, worker, sends, faults
  <2>4. CASE ReadPart
    <3>1. UNCHANGED <<down, up, open, sv, sent, out, heard, worker, sends, faults, shutdown>>
      BY <2>4 DEF ReadPart
    <3> QED  BY <2>4, <3>1, ReadingGoesOn DEF Base, worker, sends, faults
  <2>5. CASE ReadMessage
    BY <2>5, <2>00 DEF ReadMessage, Base, worker, sends, faults
  <2>6. CASE Delivered
    BY <2>0, <2>6 DEF Delivered, Base, worker, sends, faults
  <2>7. CASE SocketError
    <3>1. CASE sv = "writing" /\ sv' = "gone" /\ open' = FALSE
      BY <2>7, <2>00, <3>1 DEF SocketError, Base, worker, sends, faults
    <3>2. CASE sv = "reading" /\ AfterEvent /\ sv' = "idle" /\ open' = TRUE
      BY <2>7, <2>00, <3>2 DEF SocketError, Base, worker, sends, faults
    <3>3. CASE sv = "reading" /\ ~AfterEvent /\ sv' = "gone" /\ open' = FALSE
      BY <2>7, <2>00, <3>3 DEF SocketError, Base, worker, sends, faults
    <3>4. AfterEvent \in BOOLEAN
      BY DEF AfterEvent
    <3> QED  BY <2>7, <3>1, <3>2, <3>3, <3>4, Zenon DEF SocketError
  <2>8. CASE LoopHead
    BY <2>0, <2>8, FreshIs DEF LoopHead, Base, service, sends, faults, Receiving
  <2>9. CASE Close
    BY <2>0, <2>9 DEF Close, Base, service, sends, faults, Receiving
  <2>10. ASSUME NEW field \in DOMAIN Header, Recv(field), rcv' \in Locals,
                wpc' \in (Receiving \ {"flag"}) \cup {"forward", "close"},
                wpc' = "payload" => rcv'.want <= Most /\ Len(rcv'.data) <= rcv'.want
         PROVE  Base'
    <3>1. down' \in Seq(Byte) /\ short' \in BOOLEAN
      BY <2>10, RecvIs
    <3>2. UNCHANGED <<up, open, service, sends, stalled, shutdown>> /\ wpc = field
      BY <2>10 DEF Recv
    <3>3. wpc # "forward" /\ wpc # "send"
      BY <3>2 DEF Header
    <3> QED  BY <2>0, <2>10, <3>1, <3>2, <3>3 DEF Base, service, sends, Receiving
  <2>11. CASE RecvFlag
    <3>1. wpc' = "batch" /\ "flag" \in DOMAIN Header
      BY <2>11 DEF RecvFlag, Goto, Header
    <3>2. rcv' = [rcv EXCEPT !.taken = down # <<>>] /\ (down # <<>>) \in BOOLEAN
      BY <2>11 DEF RecvFlag
    <3>3. rcv' \in Locals
      BY <3>2, <2>000, LocalsAre
    <3> QED  BY <2>10, <2>11, <3>1, <3>3 DEF RecvFlag, Receiving
  <2>12. CASE RecvBatch
    <3>1. wpc' \in {"close", "forward", "id"} /\ "batch" \in DOMAIN Header
      BY <2>12 DEF RecvBatch, Goto, Header
    <3>2. Number(Field("batch")) \in Nat
      <4>1. Recv("batch")
        BY <2>12 DEF RecvBatch
      <4>2. Field("batch") \in Seq(Byte) /\ Len(Field("batch")) <= 4
        BY <3>1, <4>1, RecvIs
      <4>3. Field("batch") \in Seq(Nat)
        BY <4>2, BytesOf
      <4> QED  BY <4>2, <4>3, NumberNat
    <3>3. rcv' = [rcv EXCEPT !.left = Number(Field("batch"))]
      BY <2>12 DEF RecvBatch
    <3>4. rcv' \in Locals
      <4>1. Number(Field("batch")) \in Int
        BY <3>2
      <4> QED  BY <3>3, <4>1, <2>000, LocalsAre
    <3> QED  BY <2>10, <2>12, <3>1, <3>4 DEF RecvBatch, Receiving
  <2>13. CASE RecvId
    <3>1. wpc' = "state" /\ "id" \in DOMAIN Header
      BY <2>13 DEF RecvId, Goto, Header
    <3>2. Field("id") \in Seq(Byte)
      BY <2>13, <3>1, RecvIs DEF RecvId
    <3>3. rcv' = [rcv EXCEPT !.id = Field("id"), !.left = rcv.left - 1]
      BY <2>13 DEF RecvId
    <3>4. rcv.left \in Int /\ rcv.left - 1 \in Int
      <4>1. rcv.left \in Int
        BY <2>000, LocalsAre
      <4> QED  BY <4>1
    <3>5. rcv' \in Locals
      BY <3>2, <3>3, <3>4, <2>000, LocalsAre
    <3> QED  BY <2>10, <2>13, <3>1, <3>5 DEF RecvId, Receiving
  <2>14. CASE RecvState
    <3>1. wpc' = "length" /\ "state" \in DOMAIN Header
      BY <2>14 DEF RecvState, Goto, Header
    <3>2. Field("state") \in Seq(Byte)
      BY <2>14, <3>1, RecvIs DEF RecvState
    <3>3. rcv' = [rcv EXCEPT !.state = Field("state")]
      BY <2>14 DEF RecvState
    <3>4. rcv' \in Locals
      BY <3>2, <3>3, <2>000, LocalsAre
    <3> QED  BY <2>10, <2>14, <3>1, <3>4 DEF RecvState, Receiving
  <2>15. CASE RecvLength
    <3>1. wpc' \in {"close", "payload"} /\ "length" \in DOMAIN Header
      BY <2>15 DEF RecvLength, Goto, Header
    <3>2. /\ Number(Field("length")) \in Nat /\ Field("length") \in Seq(Byte)
      <4>1. Recv("length")
        BY <2>15 DEF RecvLength
      <4>2. Field("length") \in Seq(Byte) /\ Len(Field("length")) <= 4
        BY <3>1, <4>1, RecvIs
      <4>3. Field("length") \in Seq(Nat)
        BY <4>2, BytesOf
      <4> QED  BY <4>2, <4>3, NumberNat
    <3>3. rcv' = [rcv EXCEPT !.want = Number(Field("length")), !.data = <<>>]
      BY <2>15 DEF RecvLength
    <3>4. rcv' \in Locals /\ rcv'.want = Number(Field("length")) /\ rcv'.data = <<>>
      <4>1. <<>> \in Seq(Byte)
        BY EmptySeq
      <4> QED  BY <3>2, <3>3, <4>1 DEF Base, Locals
    <3>5. wpc' = "payload" => Number(Field("length")) <= Most
      <4>1. wpc' = "payload" => Len(Field("length")) = 4
        BY <2>15 DEF RecvLength, Goto, Header
      <4> QED  BY <3>2, <4>1, NumberFour
    <3>6. Len(rcv'.data) <= rcv'.want
      BY <3>2, <3>4, EmptySeq
    <3> QED  BY <2>10, <2>15, <3>1, <3>4, <3>5, <3>6 DEF RecvLength, Receiving
  <2>16. CASE RecvPayload
    <3>1. /\ rcv'.want = rcv.want /\ rcv'.data \in Seq(Byte) /\ Len(rcv'.data) <= rcv.want
          /\ rcv' \in Locals /\ down' \in Seq(Byte)
      BY <2>16, PayloadIs
    <3>2. UNCHANGED <<up, open, service, wpc, sends, faults, shutdown>>
      BY <2>16 DEF RecvPayload
    <3> QED  BY <2>0, <3>1, <3>2 DEF Base, service, sends, faults
  <2>17. CASE KeepItem
    <3>1. rcv' \in Locals
      BY <2>17, KeepIs
    <3>2. wpc' \in {"close", "forward", "id"} /\ wpc = "payload"
      BY <2>17 DEF KeepItem, Goto
    <3> QED  BY <2>0, <2>17, <3>1, <3>2 DEF KeepItem, Base, service, sends, faults, Receiving
  <2>18. CASE ReceiveTimeout
    BY <2>0, <2>18, FreshIs DEF ReceiveTimeout, Goto, Base, service, sends, Receiving
  <2>19. CASE Reply
    <3>1. mout' \in Seq(Nat)
      BY <2>19, ReplyIs
    <3>2. /\ wpc = "forward" /\ wpc' = "send" /\ torn' = (torn \/ tpc = "sending")
          /\ UNCHANGED <<down, up, open, service, rcv, tpc, tout, emitted, faults, shutdown>>
      BY <2>19 DEF Reply, Goto
    <3> QED  BY <2>0, <3>1, <3>2 DEF Base, service, faults, Receiving
  <2>20. CASE ReplySome
    <3>1. /\ up' \in Seq(Nat) /\ mout' \in Seq(Nat)
          /\ wpc' = "send" \/ (wpc' = "head" /\ mout' = <<>>)
      BY <2>20, ReplySomeIs
    <3>2. /\ wpc = "send"
          /\ UNCHANGED <<down, open, service, rcv, tpc, tout, emitted, said, torn, faults, shutdown>>
      BY <2>20 DEF ReplySome
    <3> QED  BY <2>0, <3>1, <3>2 DEF Base, service, faults, Receiving
  <2>21. CASE ReplyFails
    BY <2>0, <2>21, EmptySeq DEF ReplyFails, Goto, Base, service, faults, Receiving
  <2>22. CASE Emit
    <3>1. tout' \in Seq(Nat)
      BY <2>22, EmitIs
    <3>2. /\ wpc = "forward" /\ tpc' = "sending" /\ emitted' = emitted + 1
          /\ UNCHANGED <<down, up, open, service, worker, mout, torn, faults, shutdown>>
      BY <2>22 DEF Emit
    <3> QED  BY <2>0, <3>1, <3>2 DEF Base, service, worker, faults
  <2>23. CASE EventSome
    <3>1. /\ up' \in Seq(Nat) /\ tout' \in Seq(Nat)
          /\ tpc' = "sending" \/ (tpc' = "idle" /\ tout' = <<>>)
      BY <2>23, EventSomeIs
    <3>2. /\ tpc = "sending"
          /\ UNCHANGED <<down, open, service, worker, mout, emitted, said, torn, faults, shutdown>>
      BY <2>23 DEF EventSome
    <3> QED  BY <2>0, <3>1, <3>2 DEF Base, service, worker, faults
  <2>24. CASE EventFails
    BY <2>0, <2>24, EmptySeq DEF EventFails, Base, service, worker, faults
  <2>25. CASE Break
    BY <2>0, <2>25 DEF Break, Base, worker, sends, faults
  <2>26. CASE Shutdown
    BY <2>0, <2>26 DEF Shutdown, Base, service, worker, sends, faults
  <2>27. CASE UNCHANGED wVars
    BY <2>0, <2>27 DEF wVars, Base, Lost, service, worker, sends, faults
  <2> QED
    BY <2>1, <2>2, <2>3, <2>4, <2>5, <2>6, <2>7, <2>8, <2>9, <2>11, <2>12, <2>13, <2>14, <2>15,
       <2>16, <2>17, <2>18, <2>19, <2>20, <2>21, <2>22, <2>23, <2>24, <2>25, <2>26, <2>27
       DEF WNext, ConnectionTask, MainThread, StreamingThread
<1> QED  BY <1>1, <1>2, PTL DEF WSpec

-----------------------------------------------------------------------------
(* The steps of receive, field by field. *)
LEMMA RecvFlagIs ==
  ASSUME Base, RecvFlag
  PROVE  /\ Recv("flag") /\ wpc = "flag" /\ wpc' = "batch" /\ "flag" \in DOMAIN Header
         /\ rcv'.taken = (down # <<>>) /\ rcv'.items = rcv.items
<1>1. rcv \in Locals
  BY DEF Base
<1>2. rcv' = [rcv EXCEPT !.taken = down # <<>>]
  BY DEF RecvFlag
<1>3. rcv'.taken = (down # <<>>) /\ rcv'.items = rcv.items
  BY <1>1, <1>2 DEF Locals
<1> QED  BY <1>3 DEF RecvFlag, Recv, Goto, Header

LEMMA RecvBatchIs ==
  ASSUME Base, RecvBatch
  PROVE  /\ Recv("batch") /\ wpc = "batch" /\ "batch" \in DOMAIN Header
         /\ wpc' = IF Len(Field("batch")) # 2 THEN "close"
                   ELSE IF Number(Field("batch")) = 0 THEN "forward" ELSE "id"
         /\ rcv'.left = Number(Field("batch"))
         /\ rcv'.taken = rcv.taken /\ rcv'.items = rcv.items
<1>1. rcv \in Locals
  BY DEF Base
<1> DEFINE n == Number(Field("batch"))
<1>2. rcv' = [rcv EXCEPT !.left = n]
  BY DEF RecvBatch
<1> HIDE DEF n
<1>3. rcv'.left = n /\ rcv'.taken = rcv.taken /\ rcv'.items = rcv.items
  BY <1>1, <1>2 DEF Locals
<1> QED  BY <1>3 DEF RecvBatch, Recv, Goto, Header, n

LEMMA RecvIdIs ==
  ASSUME Base, RecvId
  PROVE  /\ Recv("id") /\ wpc = "id" /\ wpc' = "state" /\ "id" \in DOMAIN Header
         /\ rcv'.id = Field("id") /\ rcv'.left = rcv.left - 1
         /\ rcv'.taken = rcv.taken /\ rcv'.items = rcv.items
<1>1. rcv \in Locals
  BY DEF Base
<1>2. rcv' = [rcv EXCEPT !.id = Field("id"), !.left = rcv.left - 1]
  BY DEF RecvId
<1>3. /\ rcv'.id = Field("id") /\ rcv'.left = rcv.left - 1
      /\ rcv'.taken = rcv.taken /\ rcv'.items = rcv.items
  BY <1>1, <1>2 DEF Locals
<1> QED  BY <1>3 DEF RecvId, Recv, Goto, Header

LEMMA RecvStateIs ==
  ASSUME Base, RecvState
  PROVE  /\ Recv("state") /\ wpc = "state" /\ wpc' = "length" /\ "state" \in DOMAIN Header
         /\ rcv'.state = Field("state") /\ rcv'.id = rcv.id /\ rcv'.left = rcv.left
         /\ rcv'.taken = rcv.taken /\ rcv'.items = rcv.items
<1>1. rcv \in Locals
  BY DEF Base
<1>2. rcv' = [rcv EXCEPT !.state = Field("state")]
  BY DEF RecvState
<1>3. /\ rcv'.state = Field("state") /\ rcv'.id = rcv.id /\ rcv'.left = rcv.left
      /\ rcv'.taken = rcv.taken /\ rcv'.items = rcv.items
  BY <1>1, <1>2 DEF Locals
<1> QED  BY <1>3 DEF RecvState, Recv, Goto, Header

LEMMA RecvLengthIs ==
  ASSUME Base, RecvLength
  PROVE  /\ Recv("length") /\ wpc = "length" /\ "length" \in DOMAIN Header
         /\ wpc' = IF Len(Field("length")) # 4 THEN "close" ELSE "payload"
         /\ rcv'.want = Number(Field("length")) /\ rcv'.data = <<>>
         /\ rcv'.state = rcv.state /\ rcv'.id = rcv.id /\ rcv'.left = rcv.left
         /\ rcv'.taken = rcv.taken /\ rcv'.items = rcv.items
<1>1. rcv \in Locals
  BY DEF Base
<1> DEFINE n == Number(Field("length"))
<1>2. rcv' = [rcv EXCEPT !.want = n, !.data = <<>>]
  BY DEF RecvLength
<1> HIDE DEF n
<1>3. /\ rcv'.want = n /\ rcv'.data = <<>>
      /\ rcv'.state = rcv.state /\ rcv'.id = rcv.id /\ rcv'.left = rcv.left
      /\ rcv'.taken = rcv.taken /\ rcv'.items = rcv.items
  BY <1>1, <1>2 DEF Locals
<1> QED  BY <1>3 DEF RecvLength, Recv, Goto, Header, n

LEMMA RecvPayloadIs ==
  ASSUME Base, RecvPayload
  PROVE  /\ wpc = "payload" /\ rcv'.want = rcv.want
         /\ rcv'.state = rcv.state /\ rcv'.id = rcv.id /\ rcv'.left = rcv.left
         /\ rcv'.taken = rcv.taken /\ rcv'.items = rcv.items
         /\ UNCHANGED <<up, open, service, wpc, sends, faults, shutdown>>
<1>1. rcv \in Locals
  BY DEF Base
<1>2. PICK d : rcv' = [rcv EXCEPT !.data = d]
  BY PayloadIs
<1>3. /\ rcv'.want = rcv.want
      /\ rcv'.state = rcv.state /\ rcv'.id = rcv.id /\ rcv'.left = rcv.left
      /\ rcv'.taken = rcv.taken /\ rcv'.items = rcv.items
  BY <1>1, <1>2 DEF Locals
<1> QED  BY <1>3 DEF RecvPayload

Kind == [id |-> rcv.id, state |-> Number(rcv.state), data |-> rcv.data]

LEMMA KeepItemIs ==
  ASSUME Base, KeepItem, Len(rcv.state) = 2
  PROVE  /\ wpc = "payload" /\ Len(rcv.data) = rcv.want
         /\ wpc' = IF rcv.left = 0 THEN "forward" ELSE "id"
         /\ rcv'.items = Append(rcv.items, Kind)
         /\ rcv'.taken = rcv.taken /\ rcv'.left = rcv.left
<1>1. rcv \in Locals
  BY DEF Base
<1>2. rcv' = [rcv EXCEPT !.items = Append(rcv.items, Kind)]
  BY DEF KeepItem, Header, Kind
<1>3. /\ rcv'.items = Append(rcv.items, Kind)
      /\ rcv'.taken = rcv.taken /\ rcv'.left = rcv.left
  BY <1>1, <1>2 DEF Locals
<1> QED  BY <1>3 DEF KeepItem, Header, Goto

-----------------------------------------------------------------------------
(* What a header field can give. *)
LEMMA FieldIs ==
  ASSUME Base, NEW field \in DOMAIN Header, Recv(field), ~short'
  PROVE  /\ ~short /\ Field(field) \in Seq(Byte)
         /\ Lost' \/ (Len(Field(field)) = Header[field] /\ Len(down) >= Header[field]
                       /\ Field(field) = Take(down, Header[field])
                       /\ down' = Drop(down, Header[field]))
         /\ (Lost => Lost') /\ (Lost' \/ ~Lost)
         /\ Len(Field(field)) = Header[field] =>
              /\ Len(down) >= Header[field] /\ down # <<>>
              /\ Field(field) = Take(down, Header[field]) /\ down' = Drop(down, Header[field])
         /\ down = <<>> => ~open
         /\ open' = open
<1> DEFINE F == Field(field)
           w == Header[field]
<1>1. /\ F \in Seq(Byte) /\ w \in Nat /\ Len(down) \in Nat
      /\ Len(down) >= w =>
           /\ Len(F) = w
           /\ F = Take(down, w) /\ down' = Drop(down, w)
      /\ (open /\ ~short' => Len(down) >= w)
      /\ ~(Len(down) >= w) => down' = <<>> /\ Len(F) < w
      /\ (~short' => ~short)
  BY RecvIs
<1>2. w >= 1
  BY DEF Header
<1>3. open' = open /\ (down = <<>> => ~open)
  BY DEF Recv
<1>4. down = <<>> => Len(down) = 0
  BY EmptySeq
<1> HIDE DEF F, w
<1>5. Len(F) \in Nat
  BY <1>1
<1>6. Len(down) >= w \/ Lost'
  BY <1>1, <1>3 DEF Lost
<1>7. Lost => ~(Len(down) >= w)
  BY <1>1, <1>2, <1>4 DEF Lost
<1>8. Len(F) = w => Len(down) >= w /\ down # <<>>
  <2>1. SUFFICES ASSUME Len(F) = w PROVE Len(down) >= w /\ down # <<>>
    OBVIOUS
  <2>2. ~(Len(F) < w)
    BY <1>1, <2>1
  <2>3. Len(down) >= w
    BY <1>1, <2>2
  <2>4. Len(down) # 0
    <3>1. w \in Nat /\ Len(down) \in Nat
      BY <1>1
    <3> QED  BY <1>2, <2>3, <3>1
  <2> QED  BY <1>4, <2>3, <2>4
<1> QED  BY <1>1, <1>3, <1>6, <1>7, <1>8 DEF F, w

LEMMA KindIs ==
  ASSUME Base, KeptWell, ~short, wpc = "payload", Len(rcv.data) = rcv.want
  PROVE  Kind \in Items /\ Len(rcv.state) = 2 /\ rcv.items \in Seq(Items)
<1>1. /\ Len(rcv.id) = 4 /\ Len(rcv.state) = 2 /\ rcv.items \in Seq(Items)
  BY DEF KeptWell, Kept
<1>2. rcv \in Locals /\ Len(rcv.data) <= Most
  BY DEF Base
<1>3. /\ rcv.id \in Seq(Byte) /\ rcv.state \in Seq(Byte) /\ rcv.data \in Seq(Byte)
  BY <1>2, LocalsAre
<1>4. rcv.data \in Seq(Nat)
  BY <1>3, BytesOf
<1>5. Number(rcv.state) \in Nat /\ Number(rcv.state) <= 65535
  BY <1>1, <1>3, NumberTwo
<1>6. Kind \in Record
  BY <1>3, <1>4, <1>5 DEF Kind, Record
<1>7. Kind.id = rcv.id /\ Kind.state = Number(rcv.state) /\ Kind.data = rcv.data
  BY DEF Kind
<1>8. Kind \in Items
  BY <1>1, <1>2, <1>5, <1>6, <1>7 DEF Items
<1> QED  BY <1>1, <1>8

(* The codes of replies and events; what is said is a message. *)
LEMMA CodesAre ==
  /\ CodeOf(1) = "Normal" /\ CodeOf(8) = "InternalError" /\ CodeOf(STREAM_EVENT) = "StreamEvent"
<1>1. (1 \div 1) % 2 = 1
  OBVIOUS
<1>2. (8 \div 1) % 2 = 0 /\ (8 \div 2) % 2 = 0 /\ (8 \div 4) % 2 = 0 /\ (8 \div 16) % 2 = 0
      /\ (8 \div 32768) % 2 = 0
  BY SMT
<1>3. (32768 \div 1) % 2 = 0 /\ (32768 \div 2) % 2 = 0 /\ (32768 \div 4) % 2 = 0
      /\ (32768 \div 16) % 2 = 0 /\ (32768 \div 32768) % 2 = 1
  BY SMT
<1> QED  BY <1>1, <1>2, <1>3 DEF CodeOf, Bit, STREAM_EVENT

LEMMA SaidMore ==
  ASSUME NEW flag \in {1, 8, STREAM_EVENT}, NEW items \in Seq(Items), Len(items) <= 65535
  PROVE  [code |-> CodeOf(flag), items |-> items] \in Messages
<1>1. CodeOf(flag) \in {"Normal", "StreamEvent", "InternalError"}
  BY CodesAre
<1> QED  BY <1>1 DEF Messages

LEMMA InItems ==
  ASSUME NEW r \in Record, Len(r.id) = 4, r.state <= 65535, Len(r.data) <= Most
  PROVE  r \in Items
BY DEF Items

LEMMA EventItem ==
  ASSUME Base, KeptWell, ~short, Emit
  PROVE  Event \in Seq(Items) /\ Len(Event) = 1
<1>1. rcv.items \in Seq(Items) /\ rcv.items # <<>> /\ emitted \in Nat
  BY EmitIs DEF KeptWell, Kept, Emit, Base
<1>2. rcv.items[1] \in Items
  <2>1. Len(rcv.items) \in Nat /\ Len(rcv.items) # 0
    BY <1>1, EmptySeq
  <2>2. 1 \in 1 .. Len(rcv.items)
    BY <2>1
  <2> QED  BY <1>1, <2>2, ElementOfSeq
<1> DEFINE ev == [rcv.items[1] EXCEPT !.state = 0, !.data = <<emitted>>]
<1>3. <<emitted>> \in Seq(Nat) /\ Len(<<emitted>>) = 1
  BY <1>1
<1>4. 1 <= Most
  BY SMT DEF Most, LengthLimit
<1>5. ev \in Record /\ ev.id = rcv.items[1].id /\ ev.state = 0 /\ ev.data = <<emitted>>
  <2>1. rcv.items[1] \in Record
    BY <1>2, ItemsAre
  <2> QED  BY <1>3, <2>1 DEF Record
<1>6. ev \in Items
  <2>1. Len(ev.id) = 4
    BY <1>2, <1>5, ItemsAre
  <2>2. ev.state <= 65535 /\ Len(ev.data) <= Most
    BY <1>3, <1>4, <1>5
  <2> HIDE DEF ev
  <2>3. ev \in Record
    BY <1>5
  <2> QED  BY <2>1, <2>2, <2>3, InItems
<1> HIDE DEF ev
<1>7. <<ev>> \in Seq(Items) /\ Len(<<ev>>) = 1
  BY <1>6
<1> QED  BY <1>7 DEF Event, ev

(* A step that leaves receive and what is said alone. *)
LEMMA KeptFrame ==
  ASSUME KeptWell, UNCHANGED <<wpc, rcv, said, short>>, Lost => Lost', open' => open
  PROVE  KeptWell'
BY DEF KeptWell, Kept

(* What receive has is what a message can hold, unless a header field was *)
(* read short.                                                            *)
THEOREM KeptHolds == WSpec => []KeptWell
<1>1. WInit => KeptWell
  <2>1. <<>> \in Seq(Messages)
    BY EmptySeq
  <2> QED  BY <2>1 DEF WInit, KeptWell, Kept
<1>2. Base /\ Base' /\ KeptWell /\ [WNext]_wVars => KeptWell'
  <2> SUFFICES ASSUME Base, Base', KeptWell, [WNext]_wVars PROVE KeptWell'
    OBVIOUS
  <2>0. Lost => sv = "gone"
    BY DEF Base, Lost
  <2>1. CASE SendMessage
    BY <2>1, KeptFrame DEF SendMessage, worker, sends, faults, Lost
  <2>2. CASE WriteSome
    BY <2>0, <2>2, KeptFrame DEF WriteSome, worker, sends, faults
  <2>3. CASE ReadSome
    BY <2>3, KeptFrame DEF ReadSome, worker, sends, faults, Lost
  <2>4. CASE ReadPart
    BY <2>4, KeptFrame DEF ReadPart, worker, sends, faults, Lost
  <2>5. CASE ReadMessage
    BY <2>5, KeptFrame DEF ReadMessage, worker, sends, faults, Lost
  <2>6. CASE Delivered
    BY <2>6, KeptFrame DEF Delivered, worker, sends, faults, Lost
  <2>7. CASE SocketError
    <3>1. open
      BY <2>7 DEF SocketError, Base
    <3> QED  BY <2>7, <3>1, KeptFrame DEF SocketError, worker, sends, faults, Lost
  <2>8. CASE EventSome
    BY <2>8, KeptFrame DEF EventSome, service, worker, faults, Lost
  <2>9. CASE EventFails
    BY <2>9, KeptFrame DEF EventFails, service, worker, faults, Lost
  <2>10. CASE Break
    BY <2>10, KeptFrame DEF Break, worker, sends, faults, Lost
  <2>11. CASE Shutdown
    BY <2>11, KeptFrame DEF Shutdown, service, worker, sends, faults, Lost
  <2>12. CASE UNCHANGED wVars
    BY <2>12, KeptFrame DEF wVars, service, worker, sends, faults, Lost
  <2>13. CASE LoopHead
    BY <2>13, FreshIs DEF LoopHead, service, sends, faults, KeptWell, Kept
  <2>14. CASE Close
    BY <2>14 DEF Close, service, sends, faults, KeptWell, Kept
  <2>15. CASE ReceiveTimeout
    BY <2>15 DEF ReceiveTimeout, Goto, service, sends, faults, KeptWell, Kept
  <2>16. CASE ReplySome
    <3>1. wpc' \in {"send", "head"} /\ UNCHANGED <<said, short>>
      BY <2>16 DEF ReplySome, Goto, faults
    <3> QED  BY <3>1 DEF KeptWell, Kept
  <2>17. CASE ReplyFails
    BY <2>17 DEF ReplyFails, Goto, faults, KeptWell, Kept
  <2>18. CASE Reply
    <3>1. wpc = "forward" /\ wpc' = "send" /\ UNCHANGED <<short>>
      BY <2>18 DEF Reply, Goto, faults
    <3>2. ASSUME ~short PROVE said' \in Seq(Messages)
      <4>1. said \in Seq(Messages) /\ rcv.items \in Seq(Items) /\ Len(rcv.items) <= 65535
        BY <3>1, <3>2 DEF KeptWell, Kept
      <4>2. PICK flag \in {1, 8} :
              said' = Append(said, [code |-> CodeOf(flag), items |-> rcv.items])
        BY <2>18, ReplyIs
      <4> DEFINE m == [code |-> CodeOf(flag), items |-> rcv.items]
      <4>3. m \in Messages
        BY <4>1, SaidMore
      <4> HIDE DEF m
      <4>4. Append(said, m) \in Seq(Messages)
        BY <4>1, <4>3
      <4> QED  BY <4>2, <4>4 DEF m
    <3> QED  BY <3>1, <3>2 DEF KeptWell, Kept
  <2>19. CASE Emit
    <3>1. UNCHANGED <<down, open, wpc, rcv, short>>
      BY <2>19 DEF Emit, worker, faults
    <3>2. ASSUME ~short PROVE said' \in Seq(Messages)
      <4>1. said \in Seq(Messages)
        BY <3>2 DEF KeptWell
      <4>2. Event \in Seq(Items) /\ Len(Event) = 1
        BY <2>19, <3>2, EventItem
      <4>3. said' = Append(said, [code |-> CodeOf(STREAM_EVENT), items |-> Event])
        BY <2>19, EmitIs
      <4>4. Len(Event) <= 65535
        BY <4>2
      <4>5. PICK flag \in {1, 8, STREAM_EVENT} :
              said' = Append(said, [code |-> CodeOf(flag), items |-> Event])
        BY <4>3
      <4> DEFINE m == [code |-> CodeOf(flag), items |-> Event]
      <4>6. m \in Messages
        BY <4>2, <4>4, SaidMore
      <4> HIDE DEF m
      <4>7. Append(said, m) \in Seq(Messages)
        BY <4>1, <4>6
      <4> QED  BY <4>5, <4>7 DEF m
    <3> QED  BY <3>1, <3>2 DEF KeptWell, Kept, Lost
  <2> DEFINE Ok == ~short /\ ~short' /\ Kept /\ said \in Seq(Messages) /\ said' = said
  <2>20. ASSUME NEW field \in DOMAIN Header, Recv(field), ~short' PROVE Ok
    <3>1. ~short /\ UNCHANGED sends
      BY <2>20, FieldIs DEF Recv
    <3> QED  BY <2>20, <3>1 DEF KeptWell, sends
  <2>21. CASE RecvFlag
    <3> SUFFICES ASSUME ~short' PROVE KeptWell'
      BY DEF KeptWell
    <3>1. /\ wpc = "flag" /\ wpc' = "batch" /\ rcv'.taken = (down # <<>>) /\ rcv'.items = rcv.items
          /\ Recv("flag") /\ "flag" \in DOMAIN Header
      BY <2>21, RecvFlagIs
    <3>2. Ok /\ (down = <<>> => ~open) /\ open' = open
      BY <2>20, <3>1, FieldIs
    <3>3. rcv.items = <<>>
      BY <3>1, <3>2 DEF Kept
    <3>4. <<>> \in Seq(Items) /\ Len(<<>>) <= 65535
      <4>1. <<>> \in Seq(Items) /\ Len(<<>>) = 0
        BY EmptySeq
      <4> QED  BY <4>1
    <3>5. rcv'.items \in Seq(Items) /\ Len(rcv'.items) <= 65535 /\ rcv'.items = <<>>
      BY <3>1, <3>3, <3>4
    <3>6. rcv'.taken \/ ~open'
      BY <3>1, <3>2, Zenon
    <3> QED  BY <3>1, <3>2, <3>5, <3>6 DEF KeptWell, Kept
  <2>22. CASE RecvBatch
    <3> SUFFICES ASSUME ~short' PROVE KeptWell'
      BY DEF KeptWell
    <3> DEFINE n == Number(Field("batch"))
    <3>1. /\ wpc = "batch" /\ rcv'.left = n
          /\ wpc' = IF Len(Field("batch")) # 2 THEN "close" ELSE IF n = 0 THEN "forward" ELSE "id"
          /\ rcv'.taken = rcv.taken /\ rcv'.items = rcv.items
          /\ Recv("batch") /\ "batch" \in DOMAIN Header
      BY <2>22, RecvBatchIs
    <3>2. Ok /\ open' = open /\ Field("batch") \in Seq(Byte)
      BY <2>20, <3>1, FieldIs
    <3>3. wpc' # "close" => n \in Nat /\ n <= 65535
      BY <3>1, <3>2, NumberTwo
    <3>4. rcv.items = <<>> /\ (rcv.taken \/ ~open)
      BY <3>1, <3>2 DEF Kept
    <3>5. <<>> \in Seq(Items) /\ Len(<<>>) = 0
      BY EmptySeq
    <3> HIDE DEF n
    <3>6. wpc' = "id" => n \in Nat /\ n >= 1 /\ 0 + n <= 65535
      BY <3>1, <3>3
    <3>7. wpc' \in {"close", "forward", "id"}
      BY <3>1
    <3> QED  BY <3>1, <3>2, <3>4, <3>5, <3>6, <3>7 DEF KeptWell, Kept
  <2>23. CASE RecvId
    <3> SUFFICES ASSUME ~short' PROVE KeptWell'
      BY DEF KeptWell
    <3>1. /\ wpc = "id" /\ wpc' = "state" /\ rcv'.id = Field("id") /\ rcv'.left = rcv.left - 1
          /\ rcv'.taken = rcv.taken /\ rcv'.items = rcv.items
          /\ Recv("id") /\ "id" \in DOMAIN Header
      BY <2>23, RecvIdIs
    <3>2. Ok /\ open' = open /\ (Lost' \/ Len(Field("id")) = Header["id"])
      BY <2>20, <3>1, FieldIs
    <3>3. Header["id"] = 4
      BY DEF Header
    <3>4. /\ rcv.left \in Nat /\ rcv.left >= 1 /\ Len(rcv.items) + rcv.left <= 65535
          /\ rcv.items \in Seq(Items) /\ Len(rcv.items) <= 65535 /\ (rcv.taken \/ ~open)
      BY <3>1, <3>2 DEF Kept
    <3>5. Len(rcv.items) \in Nat
      BY <3>4
    <3>6. rcv.left - 1 \in Nat /\ Len(rcv.items) + (rcv.left - 1) <= 65534
      BY <3>4, <3>5
    <3> QED  BY <3>1, <3>2, <3>3, <3>4, <3>6 DEF KeptWell, Kept
  <2>24. CASE RecvState
    <3> SUFFICES ASSUME ~short' PROVE KeptWell'
      BY DEF KeptWell
    <3>1. /\ wpc = "state" /\ wpc' = "length" /\ rcv'.state = Field("state")
          /\ rcv'.id = rcv.id /\ rcv'.left = rcv.left
          /\ rcv'.taken = rcv.taken /\ rcv'.items = rcv.items
          /\ Recv("state") /\ "state" \in DOMAIN Header
      BY <2>24, RecvStateIs
    <3>2. Ok /\ open' = open /\ (Lost' \/ Len(Field("state")) = Header["state"]) /\ (Lost => Lost')
      BY <2>20, <3>1, FieldIs
    <3>3. Header["state"] = 2
      BY DEF Header
    <3>4. /\ rcv.left \in Nat /\ Len(rcv.items) + rcv.left <= 65534
          /\ rcv.items \in Seq(Items) /\ Len(rcv.items) <= 65535 /\ (rcv.taken \/ ~open)
          /\ Lost \/ Len(rcv.id) = 4
      BY <3>1, <3>2 DEF Kept
    <3> QED  BY <3>1, <3>2, <3>3, <3>4 DEF KeptWell, Kept
  <2>25. CASE RecvLength
    <3> SUFFICES ASSUME ~short' PROVE KeptWell'
      BY DEF KeptWell
    <3>1. /\ wpc = "length" /\ wpc' = IF Len(Field("length")) # 4 THEN "close" ELSE "payload"
          /\ rcv'.state = rcv.state /\ rcv'.id = rcv.id /\ rcv'.left = rcv.left
          /\ rcv'.taken = rcv.taken /\ rcv'.items = rcv.items
          /\ Recv("length") /\ "length" \in DOMAIN Header
      BY <2>25, RecvLengthIs
    <3>2. Ok /\ open' = open /\ (Len(Field("length")) = Header["length"] => down # <<>>)
      BY <2>20, <3>1, FieldIs
    <3>3. Header["length"] = 4
      BY DEF Header
    <3>4. /\ rcv.left \in Nat /\ Len(rcv.items) + rcv.left <= 65534
          /\ rcv.items \in Seq(Items) /\ Len(rcv.items) <= 65535 /\ (rcv.taken \/ ~open)
          /\ Lost \/ (Len(rcv.id) = 4 /\ Len(rcv.state) = 2)
      BY <3>1, <3>2 DEF Kept
    <3>5. wpc' = "payload" => ~Lost
      BY <3>1, <3>2, <3>3 DEF Lost
    <3> QED  BY <3>1, <3>2, <3>4, <3>5 DEF KeptWell, Kept
  <2>26. CASE RecvPayload
    <3>1. /\ wpc = "payload" /\ wpc' = wpc
          /\ rcv'.state = rcv.state /\ rcv'.id = rcv.id /\ rcv'.left = rcv.left
          /\ rcv'.taken = rcv.taken /\ rcv'.items = rcv.items
          /\ open' = open /\ short' = short /\ said' = said
      BY <2>26, RecvPayloadIs DEF faults, sends
    <3> QED  BY <3>1 DEF KeptWell, Kept
  <2>27. CASE KeepItem
    <3>1. wpc = "payload" /\ open' = open /\ short' = short /\ said' = said
          /\ Len(rcv.data) = rcv.want
      BY <2>27 DEF KeepItem, faults, sends
    <3> SUFFICES ASSUME ~short PROVE KeptWell'
      BY <3>1 DEF KeptWell
    <3>2. Kind \in Items /\ Len(rcv.state) = 2 /\ rcv.items \in Seq(Items)
      BY <3>1, KindIs
    <3>3. /\ wpc' = IF rcv.left = 0 THEN "forward" ELSE "id"
          /\ rcv'.items = Append(rcv.items, Kind)
          /\ rcv'.taken = rcv.taken /\ rcv'.left = rcv.left
      BY <2>27, <3>2, KeepItemIs
    <3>4. /\ rcv.left \in Nat /\ Len(rcv.items) + rcv.left <= 65534 /\ (rcv.taken \/ ~open)
      BY <3>1 DEF KeptWell, Kept
    <3>5. /\ rcv'.items \in Seq(Items) /\ Len(rcv'.items) = Len(rcv.items) + 1
          /\ Len(rcv.items) \in Nat
      BY <3>2, <3>3
    <3>6. Len(rcv'.items) <= 65535 /\ Len(rcv'.items) + rcv.left <= 65535
          /\ (rcv.left # 0 => rcv.left >= 1)
      BY <3>4, <3>5
    <3> QED  BY <3>1, <3>3, <3>4, <3>5, <3>6 DEF KeptWell, Kept
  <2> QED
    BY <2>1, <2>2, <2>3, <2>4, <2>5, <2>6, <2>7, <2>8, <2>9, <2>10, <2>11, <2>12, <2>13, <2>14,
       <2>15, <2>16, <2>17, <2>18, <2>19, <2>21, <2>22, <2>23, <2>24, <2>25, <2>26, <2>27
       DEF WNext, ConnectionTask, MainThread, StreamingThread
<1> QED  BY <1>1, <1>2, BaseHolds, PTL DEF WSpec

-----------------------------------------------------------------------------
(* Taking a field off the front of what is ahead. *)
LEMMA Consume ==
  ASSUME NEW s \in Seq(Nat), NEW o \in Seq(Nat), NEW f \in Seq(Nat), NEW a \in Seq(Nat),
         NEW T \in Seq(Nat), s ++ o = (f ++ a) ++ T, Len(f) <= Len(s)
  PROVE  Take(s, Len(f)) = f /\ Drop(s, Len(f)) ++ o = a ++ T
<1>1. (f ++ a) ++ T = f ++ (a ++ T) /\ a ++ T \in Seq(Nat)
  BY Joined, JoinType
<1> DEFINE r == a ++ T
<1>2. s ++ o = f ++ r /\ r \in Seq(Nat)
  BY <1>1
<1> HIDE DEF r
<1>3. Take(s, Len(f)) = f /\ Drop(s, Len(f)) ++ o = r
  BY <1>2, CutFront
<1> QED  BY <1>3 DEF r

Exact(field, f, a, T) == Field(field) = f /\ down' ++ out = a ++ T

LEMMA FieldStep ==
  ASSUME Base, NEW field \in DOMAIN Header, Recv(field), ~short',
         NEW f \in Seq(Nat), NEW a \in Seq(Nat), NEW T \in Seq(Nat),
         Len(f) = Header[field], down ++ out = (f ++ a) ++ T
  PROVE  /\ Lost' \/ Exact(field, f, a, T)
         /\ Len(Field(field)) = Header[field] => Exact(field, f, a, T)
<1>1. down \in Seq(Nat) /\ out \in Seq(Nat)
  BY BytesOf DEF Base
<1>2. ASSUME Len(down) >= Header[field], Field(field) = Take(down, Header[field]),
             down' = Drop(down, Header[field])
      PROVE  Exact(field, f, a, T)
  <2>1. Len(f) <= Len(down)
    BY <1>2, RecvIs
  <2>2. Take(down, Len(f)) = f /\ Drop(down, Len(f)) ++ out = a ++ T
    BY <1>1, <2>1, Consume
  <2> QED  BY <1>2, <2>2 DEF Exact
<1> QED  BY <1>2, FieldIs

(* An item at the front of what is ahead, field by field. *)
PartAhead(flag, items, k) ==
  LET it == items[k + 1]
        R == Rest(flag, items)
        s == Digits(it.state, 2)
        n == Digits(Len(it.data), 4)
    IN /\ it \in Items /\ k + 1 \in 1 .. Len(items)
       /\ it.id \in Seq(Nat) /\ s \in Seq(Nat) /\ n \in Seq(Nat) /\ it.data \in Seq(Nat)
       /\ Len(it.id) = 4 /\ Len(s) = 2 /\ Len(n) = 4
       /\ Number(s) = it.state /\ Number(n) = Len(it.data)
       /\ R[k] \in Seq(Nat) /\ R[k + 1] \in Seq(Nat)
       /\ it.data ++ R[k + 1] \in Seq(Nat)
       /\ n ++ (it.data ++ R[k + 1]) \in Seq(Nat)
       /\ s ++ (n ++ (it.data ++ R[k + 1])) \in Seq(Nat)
       /\ R[k] = it.id ++ (s ++ (n ++ (it.data ++ R[k + 1])))

LEMMA PartRest ==
  ASSUME NEW flag \in Nat, NEW items \in Seq(Items), NEW k \in Nat, k < Len(items)
  PROVE  PartAhead(flag, items, k)
<1> DEFINE it == items[k + 1]
           R == Rest(flag, items)
           s == Digits(it.state, 2)
           n == Digits(Len(it.data), 4)
           d == it.data
           r == R[k + 1]
           i == it.id
<1>1. items \in Seq(Record) /\ Len(items) \in Nat
  BY ItemsAre
<1>2. k + 1 \in 1 .. Len(items) /\ k \in 0 .. Len(items) /\ k + 1 \in 0 .. Len(items) /\ (k + 1) - 1 = k
  BY <1>1
<1>3. it \in Items
  BY <1>2, ElementOfSeq
<1>4. /\ it \in Record /\ i \in Seq(Byte) /\ it.state \in Nat /\ d \in Seq(Nat) /\ Len(d) \in Nat
      /\ Len(i) = 4 /\ it.state <= 65535 /\ Len(d) <= Most
  BY <1>3, ItemsAre
<1>5. s \in Seq(Byte) /\ Len(s) = 2 /\ Number(s) = it.state
  BY <1>4, DigitsTwo
<1>6. n \in Seq(Byte) /\ Len(n) = 4 /\ Number(n) = Len(d)
  BY <1>4, DigitsFour
<1>7. i \in Seq(Nat) /\ s \in Seq(Nat) /\ n \in Seq(Nat)
  BY <1>4, <1>5, <1>6, BytesOf
<1>8. R[k] \in Seq(Nat) /\ r \in Seq(Nat)
  BY <1>1, <1>2, RestIs
<1>9. R[k] = Part(it) ++ r
  BY <1>1, <1>2, RestIs
<1>10. Part(it) = i ++ (s ++ (n ++ d))
  BY DEF Part
<1> HIDE DEF s, n, d, r, i, it, R
<1>11. n ++ d \in Seq(Nat) /\ d ++ r \in Seq(Nat)
  BY <1>4, <1>7, <1>8, JoinType
<1>12. s ++ (n ++ d) \in Seq(Nat) /\ n ++ (d ++ r) \in Seq(Nat)
  BY <1>7, <1>11, JoinType
<1>13. s ++ (n ++ (d ++ r)) \in Seq(Nat)
  BY <1>7, <1>12, JoinType
<1>14. (i ++ (s ++ (n ++ d))) ++ r = i ++ ((s ++ (n ++ d)) ++ r)
  BY <1>7, <1>8, <1>12, Joined
<1>15. (s ++ (n ++ d)) ++ r = s ++ ((n ++ d) ++ r)
  BY <1>7, <1>8, <1>11, Joined
<1>16. (n ++ d) ++ r = n ++ (d ++ r)
  BY <1>4, <1>7, <1>8, Joined
<1>17. R[k] = i ++ (s ++ (n ++ (d ++ r)))
  BY <1>9, <1>10, <1>14, <1>15, <1>16
<1> QED  BY <1>2, <1>3, <1>4, <1>5, <1>6, <1>7, <1>8, <1>11, <1>12, <1>13, <1>17
         DEF PartAhead, s, n, d, r, i, it, R

(* A message from its front: the flag, the count, and the items. *)
LEMMA StartRest ==
  ASSUME NEW flag \in Nat, flag <= 65535, NEW items \in Seq(Items), Len(items) <= 65535
  PROVE  LET R == Rest(flag, items)
             f == Digits(flag, 2)
             n == Digits(Len(items), 2)
         IN /\ f \in Seq(Nat) /\ n \in Seq(Nat) /\ Len(f) = 2 /\ Len(n) = 2
            /\ Number(f) = flag /\ Number(n) = Len(items)
            /\ R[0] \in Seq(Nat) /\ n ++ R[0] \in Seq(Nat) /\ f ++ n \in Seq(Nat)
            /\ R[Len(items)] = <<>>
            /\ Message(flag, items) = f ++ (n ++ R[0])
            /\ Message(flag, items) = (f ++ n) ++ R[0]
            /\ Message(flag, items) \in Seq(Nat)
<1> DEFINE R == Rest(flag, items)
           f == Digits(flag, 2)
           n == Digits(Len(items), 2)
           r == R[0]
<1>1. items \in Seq(Record) /\ Len(items) \in Nat /\ 0 \in 0 .. Len(items)
  BY ItemsAre
<1>2. /\ f \in Seq(Byte) /\ Len(f) = 2 /\ Number(f) = flag
      /\ n \in Seq(Byte) /\ Len(n) = 2 /\ Number(n) = Len(items)
  BY <1>1, DigitsTwo
<1>3. f \in Seq(Nat) /\ n \in Seq(Nat)
  BY <1>2, BytesOf
<1>4. /\ r \in Seq(Nat) /\ R[Len(items)] = <<>> /\ Message(flag, items) \in Seq(Nat)
      /\ Message(flag, items) = Start(flag, items) ++ r
  BY <1>1, RestIs
<1>5. Start(flag, items) = f ++ n
  BY DEF Start
<1> HIDE DEF f, n, r, R
<1>6. n ++ r \in Seq(Nat) /\ f ++ n \in Seq(Nat) /\ (f ++ n) ++ r = f ++ (n ++ r)
  BY <1>3, <1>4, Joined, JoinType
<1> QED  BY <1>2, <1>3, <1>4, <1>5, <1>6 DEF f, n, r, R

(* An event is no reply; anything else is one more. *)
LEMMA RepliesMore ==
  ASSUME NEW S, NEW s \in Seq(S), NEW m
  PROVE  /\ IsFiniteSet(Replies(s)) /\ Cardinality(Replies(s)) \in Nat
         /\ m.code = "StreamEvent" => Replies(Append(s, m)) = Replies(s)
         /\ m.code # "StreamEvent" =>
              Cardinality(Replies(Append(s, m))) = Cardinality(Replies(s)) + 1
<1>1. IsFiniteSet(Replies(s)) /\ Len(s) \in Nat
  <2>1. Len(s) \in Nat
    OBVIOUS
  <2>2. IsFiniteSet(1 .. Len(s))
    BY <2>1, FS_Interval
  <2>3. Replies(s) \subseteq 1 .. Len(s)
    BY DEF Replies
  <2> QED  BY <2>1, <2>2, <2>3, FS_Subset
<1> DEFINE a == Append(s, m)
           N == Len(s)
<1>2. Len(a) = N + 1 /\ a[N + 1] = m /\ \A i \in 1 .. N : a[i] = s[i]
  <2>1. a \in Seq(S \cup {m}) /\ s \in Seq(S \cup {m})
    <3>1. s \in Seq(S \cup {m})
      BY SeqMonotonic
    <3> QED  BY <3>1
  <2> QED  BY <2>1, AppendProperties
<1> HIDE DEF a
<1>3. \A i \in 1 .. N + 1 : i \in 1 .. N \/ i = N + 1
  BY <1>1
<1>4. \A i \in 1 .. N : i \in 1 .. N + 1
  BY <1>1
<1>5. N + 1 \in 1 .. N + 1 /\ N + 1 \notin 1 .. N
  BY <1>1
<1>6. m.code = "StreamEvent" => Replies(a) = Replies(s)
  BY <1>2, <1>3, <1>4 DEF Replies
<1>7. m.code # "StreamEvent" => Replies(a) = Replies(s) \cup {N + 1}
  BY <1>2, <1>3, <1>4, <1>5 DEF Replies
<1>8. N + 1 \notin Replies(s)
  BY <1>5 DEF Replies
<1>9. Cardinality(Replies(s)) \in Nat /\ Cardinality(Replies(s) \cup {N + 1}) = Cardinality(Replies(s)) + 1
  BY <1>1, <1>8, FS_CardinalityType, FS_AddElement
<1> QED  BY <1>1, <1>6, <1>7, <1>9 DEF a

-----------------------------------------------------------------------------
(* The service's stream. *)
LEMMA WrittenAre ==
  ASSUME NEW b \in 1 .. Len(Work)
  PROVE  /\ Batch(b) \in Seq(Items) /\ Len(Batch(b)) \in Nat /\ Len(Batch(b)) <= 65535
         /\ Written[b] = Message(0, Batch(b)) /\ Written[b] \in Seq(Nat)
         /\ Message(0, Batch(b)) \in Seq(Byte)
<1>1. /\ Batch(b) \in Seq(Items) /\ Len(Batch(b)) <= 65535
      /\ Message(0, Batch(b)) \in Seq(Byte)
  BY BatchIs
<1>2. Written[b] = Message(0, Batch(b))
  BY DEF Written
<1> QED  BY <1>1, <1>2, BytesOf

LEMMA SentAre ==
  ASSUME Base
  PROVE  /\ sent \in Nat /\ \A b \in 1 .. sent : b \in 1 .. Len(Work) /\ Written[b] \in Seq(Nat)
         /\ \A b \in 0 .. sent : b \in Nat /\ (b >= 1 => b \in 1 .. sent)
<1>1. sent \in 0 .. Len(Work) /\ Len(Work) \in Nat
  BY WireAssumption DEF Base, WorkAssumption
<1>2. sent \in Nat /\ \A b \in 1 .. sent : b \in 1 .. Len(Work)
  BY <1>1
<1>3. \A b \in 1 .. sent : Written[b] \in Seq(Nat)
  BY <1>2, WrittenAre
<1>4. \A b \in 0 .. sent : b \in Nat /\ (b >= 1 => b \in 1 .. sent)
  BY <1>2
<1> QED  BY <1>2, <1>3, <1>4

(* A place in it. *)
At(b, t) == Splits(t, sent, Written) /\ b \in 0 .. sent /\ DownAt(b, t)

LEMMA SplitAt ==
  ASSUME NEW N \in Nat, NEW p, NEW t, Splits(t, N, p), NEW k \in 0 .. N
  PROVE  /\ t[k] \in Seq(Nat) /\ t[N] = <<>>
         /\ k # N => k + 1 \in 0 .. N /\ k + 1 \in 1 .. N /\ t[k] = p[k + 1] ++ t[k + 1]
                     /\ t[k + 1] \in Seq(Nat)
<1>1. t[k] \in Seq(Nat) /\ t[N] = <<>>
  BY DEF Splits
<1>2. ASSUME k # N
      PROVE  k + 1 \in 0 .. N /\ k + 1 \in 1 .. N /\ t[k] = p[k + 1] ++ t[k + 1]
             /\ t[k + 1] \in Seq(Nat)
  <2>1. k + 1 \in 0 .. N /\ k + 1 \in 1 .. N /\ (k + 1) - 1 = k
    BY <1>2
  <2> QED  BY <2>1 DEF Splits
<1> QED  BY <1>1, <1>2

Walking == {"id", "state", "length", "payload"}

(* The worker inside of the b-th batch. *)
LEMMA Within ==
  ASSUME Base, NEW b, NEW t, At(b, t), wpc \in Inside
  PROVE  /\ b \in 1 .. sent /\ b \in 1 .. Len(Work) /\ t[b] \in Seq(Nat)
         /\ Batch(b) \in Seq(Items) /\ Len(Batch(b)) \in Nat /\ Len(Batch(b)) <= 65535
         /\ Len(rcv.items) \in Nat
         /\ Cardinality(Replies(said)) = b - 1
<1>1. b \in 0 .. sent /\ b >= 1 /\ Cardinality(Replies(said)) = b - 1 /\ Splits(t, sent, Written)
  BY DEF At, DownAt, Known
<1>2. b \in 1 .. sent /\ b \in 1 .. Len(Work) /\ sent \in Nat
  BY <1>1, SentAre
<1>3. t[b] \in Seq(Nat)
  BY <1>1, <1>2, SplitAt
<1>4. Len(rcv.items) \in Nat
  <2>1. rcv \in Locals
    BY DEF Base
  <2>2. rcv.items \in Seq(Record)
    BY <2>1, LocalsAre
  <2> QED  BY <2>2
<1> QED  BY <1>1, <1>2, <1>3, <1>4, WrittenAre

LEMMA AheadIs ==
  ASSUME Base, NEW b, NEW t, At(b, t), wpc \notin {"close", "closed"}
  PROVE  Ahead(b) \in Seq(Nat) /\ Piece \in Seq(Nat) /\ down \in Seq(Nat) /\ t[b] \in Seq(Nat)
<1>1. <<>> \in Seq(Nat)
  BY EmptySeq
<1>2. down \in Seq(Nat)
  BY BytesOf DEF Base
<1>3. Piece \in Seq(Nat)
  <2>1. rcv \in Locals
    BY DEF Base
  <2>2. rcv.data \in Seq(Nat)
    BY <2>1, LocalsAre, BytesOf
  <2> QED  BY <1>1, <2>2 DEF Piece
<1>4. t[b] \in Seq(Nat)
  <2>1. b \in 0 .. sent /\ Splits(t, sent, Written) /\ sent \in Nat
    BY SentAre DEF At
  <2> QED  BY <2>1, SplitAt
<1>5. CASE wpc \notin Inside \/ wpc = "forward"
  <2>1. Ahead(b) = <<>>
    BY <1>5 DEF Ahead, Inside
  <2> QED  BY <1>1, <1>2, <1>3, <1>4, <2>1
<1>6. CASE wpc = "batch"
  <2>1. Ahead(b) = Digits(Len(Batch(b)), 2) ++ Rest(0, Batch(b))[0]
    BY <1>6 DEF Ahead
  <2>2. Batch(b) \in Seq(Items) /\ Len(Batch(b)) <= 65535
    BY <1>6, Within DEF Inside
  <2>3. 0 \in Nat /\ 0 <= 65535
    OBVIOUS
  <2>4. Ahead(b) \in Seq(Nat)
    BY <2>1, <2>2, <2>3, StartRest
  <2> QED  BY <1>2, <1>3, <1>4, <2>4
<1>7. CASE wpc \in Walking
  <2> DEFINE B == Batch(b)
             k == Len(rcv.items)
             R == Rest(0, B)
             it == B[k + 1]
  <2>1. k \in Nat /\ k < Len(B) /\ B \in Seq(Items)
    BY <1>7, Within DEF At, DownAt, Known, Walking, Inside
  <2>2. /\ R[k] \in Seq(Nat)
        /\ it.data ++ R[k + 1] \in Seq(Nat)
        /\ Digits(Len(it.data), 4) ++ (it.data ++ R[k + 1]) \in Seq(Nat)
        /\ Digits(it.state, 2) ++ (Digits(Len(it.data), 4) ++ (it.data ++ R[k + 1])) \in Seq(Nat)
    <3>1. 0 \in Nat
      OBVIOUS
    <3> HIDE DEF B, k
    <3>2. PartAhead(0, B, k)
      BY <2>1, <3>1, PartRest
    <3> QED  BY <3>2 DEF PartAhead
  <2>3. Ahead(b) \in Seq(Nat)
    BY <1>7, <2>2, Zenon DEF Ahead, Walking
  <2> QED  BY <1>2, <1>3, <1>4, <2>3
<1> QED  BY <1>5, <1>6, <1>7 DEF Inside, Walking

(* Steps that leave it where it is. *)
LEMMA DownFrame ==
  ASSUME DownInv, UNCHANGED <<wpc, rcv, short, stalled, sent, down, out>>, open' => open,
         Cardinality(Replies(said))' = Cardinality(Replies(said))
  PROVE  DownInv'
<1> SUFFICES ASSUME ~short', ~stalled', wpc' \notin {"close", "closed"},
                    ~(Lost' /\ wpc' \in {"batch", "id", "state", "length"})
             PROVE  \E t : Splits(t, sent, Written)' /\ \E b \in 0 .. sent' : DownAt(b, t)'
  BY DEF DownInv
<1>1. ~(Lost /\ wpc \in {"batch", "id", "state", "length"})
  BY DEF Lost
<1>2. PICK t : Splits(t, sent, Written) /\ \E b \in 0 .. sent : DownAt(b, t)
  BY <1>1 DEF DownInv
<1>3. PICK b \in 0 .. sent : DownAt(b, t)
  BY <1>2
<1>4. Known(b)' /\ Ahead(b)' = Ahead(b) /\ Piece' = Piece
  BY <1>3 DEF DownAt, Known, Ahead, Piece
<1>5. DownAt(b, t)'
  BY <1>3, <1>4 DEF DownAt
<1>6. Splits(t, sent, Written)'
  BY <1>2 DEF Splits, Written
<1> QED  BY <1>5, <1>6

LEMMA AtNow ==
  ASSUME NEW b, NEW t, Splits(t, sent, Written), sent' = sent, b \in 0 .. sent, DownAt(b, t)'
  PROVE  DownInv'
<1>1. Splits(t, sent, Written)'
  BY DEF Splits, Written
<1>2. b \in 0 .. sent'
  OBVIOUS
<1> QED  BY <1>1, <1>2 DEF DownInv

LEMMA NoJoin ==
  ASSUME NEW s \in Seq(Nat), NEW o \in Seq(Nat)
  PROVE  <<>> ++ (s ++ o) = s ++ o /\ s ++ o \in Seq(Nat)
<1>1. s ++ o \in Seq(Nat)
  BY JoinType
<1> DEFINE r == s ++ o
<1> HIDE DEF r
<1>2. <<>> ++ r = r
  BY <1>1, JoinNone DEF r
<1> QED  BY <1>1, <1>2 DEF r

(* While a header is read nothing is held back. *)
LEMMA Plain ==
  ASSUME Base
  PROVE  /\ down \in Seq(Nat) /\ out \in Seq(Nat)
         /\ wpc # "payload" => Piece ++ (down ++ out) = down ++ out
         /\ wpc' # "payload" /\ Base' => Piece' ++ (down' ++ out') = down' ++ out'
<1>1. down \in Seq(Nat) /\ out \in Seq(Nat)
  BY BytesOf DEF Base
<1>2. wpc # "payload" => Piece ++ (down ++ out) = down ++ out
  BY <1>1, NoJoin DEF Piece
<1>3. ASSUME Base', wpc' # "payload" PROVE Piece' ++ (down' ++ out') = down' ++ out'
  <2>1. down' \in Seq(Nat) /\ out' \in Seq(Nat)
    BY <1>3, BytesOf DEF Base
  <2>2. Piece' = <<>>
    BY <1>3 DEF Piece
  <2> QED  BY <2>1, <2>2, NoJoin
<1> QED  BY <1>1, <1>2, <1>3

LEMMA DownFlag ==
  ASSUME Base, Base', KeptWell, RecvFlag, ~short', NEW b, NEW t, At(b, t)
  PROVE  (Lost' /\ wpc' = "batch") \/ DownInv'
<1>1. /\ Recv("flag") /\ wpc = "flag" /\ wpc' = "batch" /\ "flag" \in DOMAIN Header
      /\ rcv'.items = rcv.items
  BY RecvFlagIs
<1>2. UNCHANGED <<out, sent, said>> /\ Header["flag"] = 2
  BY <1>1 DEF Recv, service, sends, Header
<1>3. rcv.items = <<>>
  BY <1>1, FieldIs DEF KeptWell, Kept
<1>4. /\ Splits(t, sent, Written) /\ b \in 0 .. sent /\ sent \in Nat
      /\ Cardinality(Replies(said)) = b
      /\ Piece ++ (down ++ out) = Ahead(b) ++ t[b] /\ Ahead(b) = <<>> /\ t[b] \in Seq(Nat)
  <2>1. Splits(t, sent, Written) /\ b \in 0 .. sent /\ sent \in Nat
    BY SentAre DEF At
  <2>2. /\ Cardinality(Replies(said)) = b
        /\ Piece ++ (down ++ out) = Ahead(b) ++ t[b] /\ Ahead(b) = <<>>
    BY <1>1 DEF At, DownAt, Known, Inside, Ahead
  <2> QED  BY <2>1, <2>2, SplitAt
<1>5. down ++ out = t[b] /\ down \in Seq(Nat) /\ out \in Seq(Nat)
  BY <1>1, <1>4, Plain, JoinNone
<1>6. CASE b = sent
  <2>1. t[b] = <<>>
    BY <1>4, <1>6, SplitAt
  <2>2. Len(down) + Len(out) = 0 /\ Len(down) \in Nat /\ Len(out) \in Nat
    <3>1. Len(down ++ out) = Len(down) + Len(out)
      BY <1>5, JoinType
    <3>2. Len(down ++ out) = 0
      BY <1>5, <2>1, EmptySeq
    <3> QED  BY <1>5, <3>1, <3>2
  <2>3. ~(Len(down) >= 2)
    BY <2>2
  <2> QED  BY <1>1, <1>2, <2>3, FieldIs
<1>7. CASE b # sent
  <2> DEFINE c == b + 1
             B == Batch(c)
             R == Rest(0, B)
             f == Digits(0, 2)
             n == Digits(Len(B), 2)
             r == R[0]
  <2>1. c \in 1 .. sent /\ c \in 0 .. sent /\ t[b] = Written[c] ++ t[c] /\ t[c] \in Seq(Nat)
        /\ c >= 1 /\ c - 1 = b
    BY <1>4, <1>7, SplitAt
  <2>2. B \in Seq(Items) /\ Len(B) <= 65535 /\ Written[c] = Message(0, B)
    BY <2>1, SentAre, WrittenAre
  <2>3. /\ f \in Seq(Nat) /\ Len(f) = 2 /\ n ++ r \in Seq(Nat)
        /\ Message(0, B) = f ++ (n ++ r)
    <3>1. 0 \in Nat /\ 0 <= 65535
      OBVIOUS
    <3> HIDE DEF B
    <3> QED  BY <2>2, <3>1, StartRest
  <2> HIDE DEF c, B, R, f, n, r
  <2>4. down ++ out = (f ++ (n ++ r)) ++ t[c]
    BY <1>5, <2>1, <2>2, <2>3
  <2>5. Lost' \/ Exact("flag", f, n ++ r, t[c])
    <3> DEFINE a == n ++ r
    <3>1. a \in Seq(Nat) /\ down ++ out = (f ++ a) ++ t[c] /\ Len(f) = Header["flag"]
      BY <1>2, <2>3, <2>4
    <3> HIDE DEF a
    <3>2. Lost' \/ Exact("flag", f, a, t[c])
      BY <1>1, <2>1, <2>3, <3>1, FieldStep
    <3> QED  BY <3>2 DEF a
  <2>6. ASSUME Exact("flag", f, n ++ r, t[c]) PROVE DownInv'
    <3>1. down' ++ out' = (n ++ r) ++ t[c]
      BY <1>2, <2>6 DEF Exact
    <3>2. Piece' ++ (down' ++ out') = down' ++ out'
      BY <1>1, Plain
    <3>3. Ahead(c)' = n ++ r
      BY <1>1 DEF Ahead, n, r, R, B
    <3>4. Known(c)'
      BY <1>1, <1>2, <1>4, <2>1 DEF Known, Inside
    <3>5. DownAt(c, t)'
      BY <3>1, <3>2, <3>3, <3>4 DEF DownAt
    <3> QED  BY <1>2, <1>4, <2>1, <3>5, AtNow
  <2> QED  BY <1>1, <2>5, <2>6
<1> QED  BY <1>6, <1>7

LEMMA DownBatch ==
  ASSUME Base, Base', KeptWell, RecvBatch, ~short', NEW b, NEW t, At(b, t), wpc' # "close"
  PROVE  DownInv'
<1> DEFINE B == Batch(b)
           R == Rest(0, B)
           n == Digits(Len(B), 2)
           r == R[0]
           F == Field("batch")
<1>1. /\ Recv("batch") /\ wpc = "batch" /\ "batch" \in DOMAIN Header
      /\ wpc' = IF Len(F) # 2 THEN "close" ELSE IF Number(F) = 0 THEN "forward" ELSE "id"
      /\ rcv'.left = Number(F)
      /\ rcv'.items = rcv.items
  BY RecvBatchIs
<1>2. UNCHANGED <<out, sent, said>> /\ Header["batch"] = 2 /\ Len(F) = 2
  BY <1>1 DEF Recv, service, sends, Header
<1>3. rcv.items = <<>>
  BY <1>1, FieldIs DEF KeptWell, Kept
<1>4. /\ b \in 1 .. sent /\ b \in 0 .. sent /\ t[b] \in Seq(Nat) /\ b >= 1
      /\ B \in Seq(Items) /\ Len(B) \in Nat /\ Len(B) <= 65535
      /\ Cardinality(Replies(said)) = b - 1 /\ Splits(t, sent, Written)
  BY <1>1, Within DEF Inside, At
<1>5. down ++ out = (n ++ r) ++ t[b]
  <2>1. Piece ++ (down ++ out) = Ahead(b) ++ t[b]
    BY DEF At, DownAt
  <2>2. Ahead(b) = n ++ r
    BY <1>1 DEF Ahead
  <2> QED  BY <1>1, <2>1, <2>2, Plain
<1>6. /\ n \in Seq(Nat) /\ r \in Seq(Nat) /\ Len(n) = 2 /\ Number(n) = Len(B)
      /\ R[Len(B)] = <<>>
  <2>1. 0 \in Nat /\ 0 <= 65535
    OBVIOUS
  <2> HIDE DEF B
  <2> QED  BY <1>4, <2>1, StartRest
<1> HIDE DEF B, R, n, r
<1>7. Exact("batch", n, r, t[b])
  <2>1. Len(n) = Header["batch"] /\ Len(F) = Header["batch"]
    BY <1>2, <1>6
  <2> QED  BY <1>1, <1>4, <1>5, <1>6, <2>1, FieldStep
<1>8. F = n /\ down' ++ out' = r ++ t[b]
  BY <1>2, <1>7 DEF Exact
<1>9. Piece' ++ (down' ++ out') = down' ++ out'
  BY <1>1, <1>2, Plain
<1>10. rcv'.left = Len(B) /\ rcv'.items = <<>> /\ Len(<<>>) = 0
  BY <1>1, <1>3, <1>6, <1>8, EmptySeq
<1>11. CASE Len(B) = 0
  <2>1. wpc' = "forward"
    BY <1>1, <1>2, <1>6, <1>8, <1>11
  <2>2. B = <<>> /\ r = <<>>
    BY <1>4, <1>6, <1>11, EmptySeq DEF r
  <2>3. Ahead(b)' = <<>>
    BY <2>1 DEF Ahead
  <2>4. Known(b)'
    BY <1>2, <1>4, <1>10, <2>1, <2>2 DEF Known, Inside, B
  <2>5. DownAt(b, t)'
    BY <1>8, <1>9, <2>2, <2>3, <2>4 DEF DownAt
  <2> QED  BY <1>2, <1>4, <2>5, AtNow
<1>12. CASE Len(B) # 0
  <2>1. wpc' = "id"
    BY <1>1, <1>2, <1>6, <1>8, <1>12
  <2>2. Ahead(b)' = r
    BY <1>10, <2>1 DEF Ahead, r, R, B
  <2>3. 0 < Len(B) /\ Len(B) = Len(B) - 0 /\ \A j \in 1 .. 0 : FALSE
    BY <1>4, <1>12
  <2>4. Known(b)'
    BY <1>2, <1>4, <1>10, <2>1, <2>3 DEF Known, Inside, B
  <2>5. DownAt(b, t)'
    BY <1>8, <1>9, <2>2, <2>4 DEF DownAt
  <2> QED  BY <1>2, <1>4, <2>5, AtNow
<1> QED  BY <1>11, <1>12

(* The item that is being read. *)
Turn(b) == Batch(b)[Len(rcv.items) + 1]

LEMMA Walk ==
  ASSUME Base, NEW b, NEW t, At(b, t), wpc \in Walking
  PROVE  LET k == Len(rcv.items)
             it == Turn(b)
             R == Rest(0, Batch(b))
             s == Digits(it.state, 2)
             n == Digits(Len(it.data), 4)
             r == R[k + 1]
         IN /\ b \in 1 .. sent /\ b \in 0 .. sent /\ t[b] \in Seq(Nat) /\ Splits(t, sent, Written)
            /\ k \in Nat /\ k < Len(Batch(b)) /\ it \in Items
            /\ it.id \in Seq(Nat) /\ s \in Seq(Nat) /\ n \in Seq(Nat) /\ it.data \in Seq(Nat)
            /\ Len(it.id) = 4 /\ Len(s) = 2 /\ Len(n) = 4
            /\ Number(s) = it.state /\ Number(n) = Len(it.data)
            /\ r \in Seq(Nat) /\ it.data ++ r \in Seq(Nat)
            /\ n ++ (it.data ++ r) \in Seq(Nat)
            /\ s ++ (n ++ (it.data ++ r)) \in Seq(Nat)
            /\ R[k] = it.id ++ (s ++ (n ++ (it.data ++ r)))
            /\ Batch(b) \in Seq(Items) /\ R[Len(Batch(b))] = <<>>
<1> DEFINE B == Batch(b)
           k == Len(rcv.items)
<1>1. /\ b \in 1 .. sent /\ b \in 0 .. sent /\ t[b] \in Seq(Nat) /\ Splits(t, sent, Written)
      /\ k \in Nat /\ k < Len(B) /\ B \in Seq(Items) /\ Len(B) <= 65535
  BY Within DEF At, DownAt, Known, Walking, Inside
<1>2. 0 \in Nat /\ 0 <= 65535
  OBVIOUS
<1>0. B \in Seq(Items) /\ Len(B) <= 65535 /\ k \in Nat /\ k < Len(B)
  BY <1>1
<1> HIDE DEF B, k
<1>3. Rest(0, B)[Len(B)] = <<>>
  BY <1>0, <1>2, StartRest
<1>4. PartAhead(0, B, k)
  BY <1>0, <1>2, PartRest
<1> QED  BY <1>1, <1>3, <1>4 DEF PartAhead, Turn, B, k

(* What is known of it stays so while its next field is read. *)
LEMMA DownId ==
  ASSUME Base, Base', KeptWell, RecvId, ~short', NEW b, NEW t, At(b, t)
  PROVE  (Lost' /\ wpc' = "state") \/ DownInv'
<1> DEFINE k == Len(rcv.items)
           B == Batch(b)
           it == Turn(b)
           R == Rest(0, B)
           f == it.id
           s == Digits(it.state, 2)
           n == Digits(Len(it.data), 4)
           a == s ++ (n ++ (it.data ++ R[k + 1]))
<1>1. /\ Recv("id") /\ wpc = "id" /\ wpc' = "state" /\ "id" \in DOMAIN Header
      /\ rcv'.id = Field("id") /\ rcv'.left = rcv.left - 1 /\ rcv'.items = rcv.items
  BY RecvIdIs
<1>2. UNCHANGED <<out, sent, said>> /\ Header["id"] = 4
  BY <1>1 DEF Recv, service, sends, Header
<1>3. /\ b \in 0 .. sent /\ t[b] \in Seq(Nat) /\ Splits(t, sent, Written)
      /\ k \in Nat /\ k < Len(B)
      /\ f \in Seq(Nat) /\ Len(f) = 4 /\ a \in Seq(Nat)
      /\ R[k] = f ++ a
  <2>1. wpc \in Walking
    BY <1>1 DEF Walking
  <2> QED  BY <2>1, Walk
<1>4. /\ Cardinality(Replies(said)) = b - 1 /\ b >= 1 /\ rcv.left = Len(B) - k
      /\ \A j \in 1 .. k : rcv.items[j] = B[j]
      /\ Piece ++ (down ++ out) = Ahead(b) ++ t[b]
      /\ Ahead(b) = R[k]
  BY <1>1 DEF At, DownAt, Known, Inside, Ahead
<1> HIDE DEF f, a, R
<1>5. down ++ out = (f ++ a) ++ t[b]
  BY <1>1, <1>3, <1>4, Plain
<1>6. Lost' \/ Exact("id", f, a, t[b])
  BY <1>1, <1>2, <1>3, <1>5, FieldStep
<1>7. ASSUME Exact("id", f, a, t[b]) PROVE DownInv'
  <2>1. rcv'.id = f /\ down' ++ out' = a ++ t[b]
    BY <1>1, <1>2, <1>7 DEF Exact
  <2>2. Piece' ++ (down' ++ out') = down' ++ out'
    BY <1>1, Plain
  <2>3. Ahead(b)' = a
    BY <1>1 DEF Ahead, a, R, Turn
  <2>4. Known(b)'
    BY <1>1, <1>2, <1>3, <1>4, <2>1 DEF Known, Inside, Turn, f
  <2>5. DownAt(b, t)'
    BY <2>1, <2>2, <2>3, <2>4 DEF DownAt
  <2> QED  BY <1>2, <1>3, <2>5, AtNow
<1> QED  BY <1>1, <1>6, <1>7

LEMMA DownState ==
  ASSUME Base, Base', KeptWell, RecvState, ~short', NEW b, NEW t, At(b, t)
  PROVE  (Lost' /\ wpc' = "length") \/ DownInv'
<1> DEFINE k == Len(rcv.items)
           B == Batch(b)
           it == Turn(b)
           R == Rest(0, B)
           f == Digits(it.state, 2)
           n == Digits(Len(it.data), 4)
           a == n ++ (it.data ++ R[k + 1])
<1>1. /\ Recv("state") /\ wpc = "state" /\ wpc' = "length" /\ "state" \in DOMAIN Header
      /\ rcv'.state = Field("state") /\ rcv'.id = rcv.id /\ rcv'.left = rcv.left
      /\ rcv'.items = rcv.items
  BY RecvStateIs
<1>2. UNCHANGED <<out, sent, said>> /\ Header["state"] = 2
  BY <1>1 DEF Recv, service, sends, Header
<1>3. /\ b \in 0 .. sent /\ t[b] \in Seq(Nat) /\ Splits(t, sent, Written)
      /\ k \in Nat /\ k < Len(B)
      /\ f \in Seq(Nat) /\ Len(f) = 2 /\ a \in Seq(Nat)
  <2>1. wpc \in Walking
    BY <1>1 DEF Walking
  <2> QED  BY <2>1, Walk
<1>4. /\ Cardinality(Replies(said)) = b - 1 /\ b >= 1 /\ rcv.left = Len(B) - k - 1
      /\ \A j \in 1 .. k : rcv.items[j] = B[j]
      /\ rcv.id = it.id
      /\ Piece ++ (down ++ out) = Ahead(b) ++ t[b]
      /\ Ahead(b) = f ++ a
  BY <1>1 DEF At, DownAt, Known, Inside, Ahead, Turn
<1> HIDE DEF f, a, R
<1>5. down ++ out = (f ++ a) ++ t[b]
  BY <1>1, <1>4, Plain
<1>6. Lost' \/ Exact("state", f, a, t[b])
  BY <1>1, <1>2, <1>3, <1>5, FieldStep
<1>7. ASSUME Exact("state", f, a, t[b]) PROVE DownInv'
  <2>1. rcv'.state = f /\ down' ++ out' = a ++ t[b]
    BY <1>1, <1>2, <1>7 DEF Exact
  <2>2. Piece' ++ (down' ++ out') = down' ++ out'
    BY <1>1, Plain
  <2>3. Ahead(b)' = a
    BY <1>1 DEF Ahead, a, R, Turn
  <2>4. Known(b)'
    BY <1>1, <1>2, <1>3, <1>4, <2>1 DEF Known, Inside, Turn, f
  <2>5. DownAt(b, t)'
    BY <2>1, <2>2, <2>3, <2>4 DEF DownAt
  <2> QED  BY <1>2, <1>3, <2>5, AtNow
<1> QED  BY <1>1, <1>6, <1>7

LEMMA DownLength ==
  ASSUME Base, Base', KeptWell, RecvLength, ~short', NEW b, NEW t, At(b, t), wpc' # "close"
  PROVE  DownInv'
<1> DEFINE k == Len(rcv.items)
           B == Batch(b)
           it == Turn(b)
           R == Rest(0, B)
           f == Digits(Len(it.data), 4)
           a == it.data ++ R[k + 1]
<1>1. /\ Recv("length") /\ wpc = "length" /\ "length" \in DOMAIN Header
      /\ wpc' = IF Len(Field("length")) # 4 THEN "close" ELSE "payload"
      /\ rcv'.want = Number(Field("length")) /\ rcv'.data = <<>>
      /\ rcv'.state = rcv.state /\ rcv'.id = rcv.id /\ rcv'.left = rcv.left
      /\ rcv'.items = rcv.items
  BY RecvLengthIs
<1>2. UNCHANGED <<out, sent, said>> /\ Header["length"] = 4
      /\ Len(Field("length")) = 4 /\ wpc' = "payload"
  BY <1>1 DEF Recv, service, sends, Header
<1>3. /\ b \in 0 .. sent /\ t[b] \in Seq(Nat) /\ Splits(t, sent, Written)
      /\ k \in Nat /\ k < Len(B)
      /\ f \in Seq(Nat) /\ Len(f) = 4 /\ a \in Seq(Nat) /\ Number(f) = Len(it.data)
  <2>1. wpc \in Walking
    BY <1>1 DEF Walking
  <2> QED  BY <2>1, Walk
<1>4. /\ Cardinality(Replies(said)) = b - 1 /\ b >= 1 /\ rcv.left = Len(B) - k - 1
      /\ \A j \in 1 .. k : rcv.items[j] = B[j]
      /\ rcv.id = it.id /\ rcv.state = Digits(it.state, 2)
      /\ Piece ++ (down ++ out) = Ahead(b) ++ t[b]
      /\ Ahead(b) = f ++ a
  BY <1>1 DEF At, DownAt, Known, Inside, Ahead, Turn
<1> HIDE DEF f, a, R
<1>5. down ++ out = (f ++ a) ++ t[b]
  BY <1>1, <1>4, Plain
<1>6. Exact("length", f, a, t[b])
  BY <1>1, <1>2, <1>3, <1>5, FieldStep
<1>7. rcv'.want = Len(it.data) /\ down' ++ out' = a ++ t[b]
  BY <1>1, <1>2, <1>3, <1>6 DEF Exact
<1>8. Piece' ++ (down' ++ out') = down' ++ out'
  <2>1. down' \in Seq(Nat) /\ out' \in Seq(Nat)
    BY BytesOf DEF Base
  <2>2. Piece' = <<>>
    BY <1>1, <1>2 DEF Piece
  <2> QED  BY <2>1, <2>2, NoJoin
<1>9. Ahead(b)' = a
  BY <1>1, <1>2 DEF Ahead, a, R, Turn
<1>10. Known(b)'
  BY <1>1, <1>2, <1>3, <1>4, <1>7 DEF Known, Inside, Turn
<1>11. DownAt(b, t)'
  BY <1>7, <1>8, <1>9, <1>10 DEF DownAt
<1> QED  BY <1>2, <1>3, <1>11, AtNow

LEMMA DownPayload ==
  ASSUME Base, Base', RecvPayload, NEW b, NEW t, At(b, t)
  PROVE  DownInv'
<1>1. /\ wpc = "payload" /\ rcv'.want = rcv.want /\ wpc' = "payload"
      /\ rcv'.state = rcv.state /\ rcv'.id = rcv.id /\ rcv'.left = rcv.left
      /\ rcv'.items = rcv.items
      /\ UNCHANGED <<out, sent, said>>
  BY RecvPayloadIs DEF service, sends
<1>2. Splits(t, sent, Written) /\ b \in 0 .. sent /\ Known(b)
      /\ Piece ++ (down ++ out) = Ahead(b) ++ t[b]
  BY DEF At, DownAt
<1>3. Known(b)'
  BY <1>1, <1>2 DEF Known, Inside
<1>4. Ahead(b)' = Ahead(b)
  BY <1>1 DEF Ahead
<1>5. Piece' ++ (down' ++ out') = Piece ++ (down ++ out)
  <2>1. rcv'.data ++ down' = rcv.data ++ down
    BY PayloadIs
  <2>2. Piece' = rcv'.data /\ Piece = rcv.data
    BY <1>1 DEF Piece
  <2> DEFINE x == rcv.data
             y == down
             z == out
  <2>3. x \in Seq(Byte) /\ y \in Seq(Byte) /\ z \in Seq(Byte)
    <3>1. rcv \in Locals
      BY DEF Base
    <3> QED  BY <3>1, LocalsAre DEF Base
  <2>4. (x ++ y) ++ z = x ++ (y ++ z)
    <3> HIDE DEF x, y, z
    <3> QED  BY <2>3, Joined
  <2> DEFINE u == rcv'.data
             v == down'
  <2>5. u \in Seq(Byte) /\ v \in Seq(Byte)
    BY PayloadIs
  <2>6. (u ++ v) ++ z = u ++ (v ++ z)
    <3> HIDE DEF u, v, z
    <3> QED  BY <2>3, <2>5, Joined
  <2> QED  BY <1>1, <2>1, <2>2, <2>4, <2>6
<1>6. DownAt(b, t)'
  BY <1>2, <1>3, <1>4, <1>5 DEF DownAt
<1> QED  BY <1>1, <1>2, <1>6, AtNow

LEMMA RecordIs ==
  ASSUME NEW r \in Record
  PROVE  r = [id |-> r.id, state |-> r.state, data |-> r.data]
BY DEF Record

LEMMA DownKeep ==
  ASSUME Base, Base', KeptWell, KeepItem, ~short, NEW b, NEW t, At(b, t)
  PROVE  DownInv'
<1> DEFINE k == Len(rcv.items)
           B == Batch(b)
           it == Turn(b)
           R == Rest(0, B)
           r == R[k + 1]
           d == it.data
           s == Digits(it.state, 2)
<1>1. wpc = "payload" /\ Len(rcv.data) = rcv.want
  BY DEF KeepItem
<1>2. Len(rcv.state) = 2 /\ rcv.items \in Seq(Items) /\ Kind \in Items
  BY <1>1, KindIs
<1>3. /\ wpc' = IF rcv.left = 0 THEN "forward" ELSE "id"
      /\ rcv'.items = Append(rcv.items, Kind) /\ rcv'.left = rcv.left
  BY <1>2, KeepItemIs
<1>4. UNCHANGED <<down, out, sent, said>>
  BY DEF KeepItem, service, sends
<1>5. /\ b \in 0 .. sent /\ t[b] \in Seq(Nat) /\ Splits(t, sent, Written)
      /\ k \in Nat /\ k < Len(B) /\ it \in Items
      /\ s \in Seq(Nat) /\ d \in Seq(Nat) /\ Number(s) = it.state
      /\ r \in Seq(Nat) /\ B \in Seq(Items) /\ R[Len(B)] = <<>>
  <2>1. wpc \in Walking
    BY <1>1 DEF Walking
  <2> QED  BY <2>1, Walk
<1>6. /\ Cardinality(Replies(said)) = b - 1 /\ b >= 1 /\ rcv.left = Len(B) - k - 1
      /\ \A j \in 1 .. k : rcv.items[j] = B[j]
      /\ rcv.id = it.id /\ rcv.state = s /\ rcv.want = Len(d)
      /\ rcv.data ++ (down ++ out) = (d ++ r) ++ t[b]
  BY <1>1 DEF At, DownAt, Known, Inside, Ahead, Turn, Piece
<1>7. it = B[k + 1]
  BY DEF Turn
<1> HIDE DEF d, r, R, s, it, B
<1>8. rcv.data = d /\ down ++ out = r ++ t[b]
  <2> DEFINE x == rcv.data
             y == down ++ out
             T == t[b]
             z == r ++ T
  <2>1. x \in Seq(Nat)
    <3>1. rcv \in Locals
      BY DEF Base
    <3> QED  BY <3>1, LocalsAre, BytesOf
  <2>2. down \in Seq(Nat) /\ out \in Seq(Nat)
    BY Plain
  <2>3. y \in Seq(Nat) /\ z \in Seq(Nat)
    BY <1>5, <2>2, JoinType
  <2>4. (d ++ r) ++ T = d ++ z
    <3> HIDE DEF T
    <3> QED  BY <1>5, Joined DEF T
  <2>5. x ++ y = d ++ z /\ Len(x) = Len(d)
    BY <1>1, <1>6, <2>4
  <2> HIDE DEF x, y, z
  <2>6. x = d /\ y = z
    BY <1>5, <2>1, <2>3, <2>5, SameCut
  <2> QED  BY <2>6 DEF x, y, z
<1>9. Kind = it
  <2>1. Kind = [id |-> it.id, state |-> it.state, data |-> it.data]
    BY <1>5, <1>6, <1>8, Zenon DEF Kind, d
  <2>2. it \in Record
    BY <1>5, ItemsAre
  <2>3. it = [id |-> it.id, state |-> it.state, data |-> it.data]
    BY <2>2, RecordIs
  <2> QED  BY <2>1, <2>3
<1> DEFINE I == rcv.items
           J == rcv'.items
<1>10. /\ J \in Seq(Items) /\ Len(J) = k + 1 /\ J[k + 1] = it
       /\ \A j \in 1 .. k : J[j] = I[j]
  <2>1. J = Append(I, it) /\ I \in Seq(Items) /\ k = Len(I)
    BY <1>2, <1>3, <1>9
  <2> HIDE DEF I, J, k
  <2>2. Len(J) = Len(I) + 1 /\ J[Len(I) + 1] = it /\ \A j \in 1 .. Len(I) : J[j] = I[j]
    BY <1>5, <2>1, AppendProperties
  <2>3. J \in Seq(Items)
    BY <1>5, <2>1
  <2> QED  BY <2>1, <2>2, <2>3
<1>11. \A j \in 1 .. k + 1 : J[j] = B[j]
  <2> SUFFICES ASSUME NEW j \in 1 .. k + 1 PROVE J[j] = B[j]
    OBVIOUS
  <2>1. CASE j = k + 1
    BY <1>7, <1>10, <2>1
  <2>2. CASE j # k + 1
    <3>1. j \in 1 .. k
      BY <1>5, <2>2
    <3> QED  BY <1>6, <1>10, <3>1
  <2> QED  BY <2>1, <2>2
<1>12. wpc' # "payload"
  BY <1>3
<1>13. Piece' ++ (down' ++ out') = r ++ t[b]
  BY <1>4, <1>8, <1>12, Plain
<1>14. CASE rcv.left = 0
  <2>1. wpc' = "forward" /\ Len(B) = k + 1
    <3>1. Len(B) \in Nat
      BY <1>5
    <3> QED  BY <1>3, <1>5, <1>6, <1>14, <3>1
  <2>2. J = B
    <3> HIDE DEF J, k
    <3>1. \A j \in 1 .. Len(J) : J[j] = B[j]
      BY <1>10, <1>11
    <3> QED  BY <1>5, <1>10, <2>1, <3>1, SeqEqual
  <2>3. Ahead(b)' = <<>> /\ r = <<>>
    BY <1>5, <2>1 DEF Ahead, r
  <2>4. Known(b)'
    BY <1>4, <1>6, <2>1, <2>2 DEF Known, Inside, B
  <2>5. DownAt(b, t)'
    BY <1>13, <2>3, <2>4 DEF DownAt
  <2> QED  BY <1>4, <1>5, <2>5, AtNow
<1>15. CASE rcv.left # 0
  <2>1. wpc' = "id"
    BY <1>3, <1>15
  <2>2. k + 1 < Len(B) /\ rcv.left = Len(B) - (k + 1)
    <3>1. Len(B) \in Nat
      BY <1>5
    <3> QED  BY <1>5, <1>6, <1>15, <3>1
  <2>3. Ahead(b)' = r
    BY <1>10, <2>1 DEF Ahead, r, R, B
  <2>4. Known(b)'
    BY <1>3, <1>4, <1>6, <1>10, <1>11, <2>1, <2>2 DEF Known, Inside, B
  <2>5. DownAt(b, t)'
    BY <1>13, <2>3, <2>4 DEF DownAt
  <2> QED  BY <1>4, <1>5, <2>5, AtNow
<1> QED  BY <1>14, <1>15

(* Its place, where it has one. *)
Astray == Lost /\ wpc \in {"batch", "id", "state", "length"}

LEMMA Place ==
  ASSUME DownInv, ~short, ~stalled, wpc \notin {"close", "closed"}, ~Astray
  PROVE  \E t, b : At(b, t)
BY DEF DownInv, Astray, At

LEMMA DownSend ==
  ASSUME Base, DownInv, SendMessage
  PROVE  DownInv'
<1> SUFFICES ASSUME ~short', ~stalled', wpc' \notin {"close", "closed"} PROVE DownInv'
  BY DEF DownInv
<1> DEFINE q == Message(0, Batch(sent + 1))
           N == sent
<1>1. /\ UNCHANGED <<down, wpc, rcv, said, short, stalled>> /\ out' = q /\ sent' = N + 1
      /\ open /\ out = <<>> /\ sent < Len(Work)
  BY DEF SendMessage, worker, sends, faults, Base
<1>2. PICK t, b : At(b, t)
  <2>1. ~Astray
    BY <1>1 DEF Astray, Lost
  <2> QED  BY <1>1, <2>1, Place
<1>3. /\ Splits(t, N, Written) /\ b \in 0 .. N /\ N \in Nat /\ Known(b)
      /\ Piece ++ (down ++ out) = Ahead(b) ++ t[b]
      /\ Ahead(b) \in Seq(Nat) /\ Piece \in Seq(Nat) /\ down \in Seq(Nat) /\ t[b] \in Seq(Nat)
  BY <1>1, <1>2, SentAre, AheadIs DEF At, DownAt
<1>4. N + 1 \in 1 .. Len(Work)
  <2>1. Len(Work) \in Nat
    BY WireAssumption DEF WorkAssumption
  <2> QED  BY <1>1, <1>3, <2>1
<1>5. q \in Seq(Nat) /\ Written[N + 1] = q
  <2>1. Message(0, Batch(N + 1)) \in Seq(Byte) /\ Written[N + 1] = Message(0, Batch(N + 1))
    BY <1>4, WrittenAre
  <2> QED  BY <2>1, BytesOf
<1> HIDE DEF q
<1>0. PICK u : u = Longer(t, N, q)
  OBVIOUS
<1>6. Splits(u, N + 1, Written)
  <2>1. \A k \in 1 .. N : Written[k] \in Seq(Nat)
    BY SentAre
  <2> HIDE DEF N
  <2> QED  BY <1>0, <1>3, <1>5, <2>1, SplitsMore
<1>7. u[b] = t[b] ++ q /\ b \in 0 .. N + 1
  BY <1>0, <1>3 DEF Longer
<1>8. Piece ++ (down ++ q) = Ahead(b) ++ u[b]
  <2> DEFINE x == Piece
             y == down
             a == Ahead(b)
             T == t[b]
  <2>1. x \in Seq(Nat) /\ y \in Seq(Nat) /\ a \in Seq(Nat) /\ T \in Seq(Nat)
        /\ x ++ (y ++ <<>>) = a ++ T
    BY <1>1, <1>3
  <2> HIDE DEF x, y, a, T
  <2>2. x ++ y = a ++ T
    BY <2>1, JoinNone
  <2>3. (x ++ y) ++ q = x ++ (y ++ q) /\ (a ++ T) ++ q = a ++ (T ++ q)
    BY <1>5, <2>1, Joined
  <2> QED  BY <1>7, <2>2, <2>3 DEF x, y, a, T
<1>9. Known(b)' /\ Ahead(b)' = Ahead(b) /\ Piece' = Piece
  BY <1>1, <1>3 DEF Known, Ahead, Piece
<1>10. DownAt(b, u)'
  BY <1>1, <1>8, <1>9 DEF DownAt
<1>11. Splits(u, sent, Written)' /\ b \in 0 .. sent'
  BY <1>1, <1>6, <1>7 DEF Splits, Written
<1> QED  BY <1>10, <1>11 DEF DownInv

LEMMA DownWrite ==
  ASSUME Base, DownInv, WriteSome
  PROVE  DownInv'
<1> SUFFICES ASSUME ~short', ~stalled', wpc' \notin {"close", "closed"} PROVE DownInv'
  BY DEF DownInv
<1>1. UNCHANGED <<wpc, rcv, said, short, stalled, sent>> /\ open
  BY DEF WriteSome, worker, sends, faults, Base
<1>2. PICK t, b : At(b, t)
  <2>1. ~Astray
    BY <1>1 DEF Astray, Lost
  <2> QED  BY <1>1, <2>1, Place
<1>3. down' ++ out' = down ++ out
  BY WriteIs
<1>4. Known(b)' /\ Ahead(b)' = Ahead(b) /\ Piece' = Piece
  BY <1>1, <1>2 DEF At, DownAt, Known, Ahead, Piece
<1>5. DownAt(b, t)'
  BY <1>2, <1>3, <1>4 DEF At, DownAt
<1> QED  BY <1>1, <1>2, <1>5, AtNow DEF At

(* Between two batches nothing is held. *)
LEMMA DownIdle ==
  ASSUME DownInv, wpc \in {"head", "flag", "send"}, wpc' \in {"head", "flag", "send", "close"},
         UNCHANGED <<said, short, sent, down, out>>, ~stalled' => ~stalled
  PROVE  DownInv'
<1> SUFFICES ASSUME ~short', ~stalled', wpc' \notin {"close", "closed"} PROVE DownInv'
  BY DEF DownInv
<1>1. PICK t, b : At(b, t)
  <2>1. ~Astray
    BY DEF Astray
  <2> QED  BY <2>1, Place
<1>2. Known(b)' /\ Ahead(b)' = Ahead(b) /\ Piece' = Piece
  BY <1>1 DEF At, DownAt, Known, Ahead, Piece, Inside
<1>3. DownAt(b, t)'
  BY <1>1, <1>2 DEF At, DownAt
<1> QED  BY <1>1, <1>3, AtNow DEF At

LEMMA DownReply ==
  ASSUME Base, KeptWell, DownInv, Reply
  PROVE  DownInv'
<1> SUFFICES ASSUME ~short', ~stalled', wpc' \notin {"close", "closed"} PROVE DownInv'
  BY DEF DownInv
<1>1. UNCHANGED <<rcv, down, out, sent, short, stalled>> /\ wpc = "forward" /\ wpc' = "send"
  BY DEF Reply, service, faults, Goto
<1>2. PICK t, b : At(b, t)
  <2>1. ~Astray
    BY <1>1 DEF Astray
  <2> QED  BY <1>1, <2>1, Place
<1>3. b \in 0 .. sent /\ Cardinality(Replies(said)) = b - 1 /\ b \in Nat
  BY <1>1, <1>2, Within, SentAre DEF At, Inside
<1>4. said \in Seq(Messages)
  BY <1>1 DEF KeptWell
<1>5. PICK flag \in {1, 8} : said' = Append(said, [code |-> CodeOf(flag), items |-> rcv.items])
  BY ReplyIs
<1> DEFINE m == [code |-> CodeOf(flag), items |-> rcv.items]
<1>6. m.code # "StreamEvent"
  BY CodesAre
<1>7. said' = Append(said, m)
  BY <1>5
<1> HIDE DEF m
<1>8. Cardinality(Replies(said')) = Cardinality(Replies(said)) + 1
  BY <1>4, <1>6, <1>7, RepliesMore
<1>9. Cardinality(Replies(said')) = b
  BY <1>3, <1>8
<1>10. Known(b)'
  BY <1>1, <1>9 DEF Known, Inside
<1>11. Ahead(b)' = Ahead(b) /\ Piece' = Piece
  BY <1>1 DEF Ahead, Piece
<1>12. DownAt(b, t)'
  BY <1>1, <1>2, <1>10, <1>11 DEF At, DownAt
<1> QED  BY <1>1, <1>2, <1>12, AtNow DEF At

LEMMA DownEmit ==
  ASSUME Base, KeptWell, DownInv, Emit
  PROVE  DownInv'
<1> SUFFICES ASSUME ~short' PROVE DownInv'
  BY DEF DownInv
<1>1. UNCHANGED <<wpc, rcv, short, stalled, sent, down, out, open>>
  BY DEF Emit, worker, service, faults
<1>2. said \in Seq(Messages)
  BY <1>1 DEF KeptWell
<1> DEFINE m == [code |-> CodeOf(STREAM_EVENT), items |-> Event]
<1>3. said' = Append(said, m)
  BY EmitIs
<1>4. m.code = "StreamEvent"
  BY CodesAre
<1> HIDE DEF m
<1>5. Replies(said') = Replies(said)
  BY <1>2, <1>3, <1>4, RepliesMore
<1> QED  BY <1>1, <1>5, DownFrame

(* A receive that times out before it has taken anything loses nothing. *)
LEMMA DownTimeout ==
  ASSUME Base, KeptWell, DownInv, ReceiveTimeout
  PROVE  DownInv'
<1> SUFFICES ASSUME ~short', ~stalled' PROVE DownInv'
  BY DEF DownInv
<1>1. /\ UNCHANGED <<said, short, sent, down, out>> /\ wpc' = "head" /\ open
      /\ stalled' = (stalled \/ rcv.taken)
      /\ wpc \in {"flag", "batch", "id", "state", "length", "payload"}
  BY DEF ReceiveTimeout, Goto, service, sends, Receiving
<1>2. ~stalled /\ ~rcv.taken
  BY <1>1
<1>3. wpc \in {"batch", "id", "state", "length", "payload"} => rcv.taken \/ ~open
  BY <1>1 DEF KeptWell, Kept
<1>4. wpc = "flag"
  BY <1>1, <1>2, <1>3
<1> QED  BY <1>1, <1>2, <1>4, DownIdle

(* A header field that the end of the stream cut. *)
LEMMA DownCut ==
  ASSUME Base, NEW field \in {"batch", "id", "state", "length"}, Recv(field), ~short', Lost
  PROVE  Lost' /\ Len(Field(field)) # Header[field]
<1>1. field \in DOMAIN Header
  BY DEF Header
<1>2. /\ Lost => Lost'
      /\ Len(Field(field)) = Header[field] => down # <<>>
  BY <1>1, FieldIs
<1> QED  BY <1>2 DEF Lost

LEMMA DownReceive ==
  ASSUME Base, Base', KeptWell, DownInv,
         RecvFlag \/ RecvBatch \/ RecvId \/ RecvState \/ RecvLength \/ RecvPayload \/ KeepItem
  PROVE  DownInv'
<1> SUFFICES ASSUME ~short', ~stalled', wpc' \notin {"close", "closed"} PROVE DownInv'
  BY DEF DownInv
<1>0. Lost' /\ wpc' \in {"batch", "id", "state", "length"} => DownInv'
  BY DEF DownInv
<1>1. CASE RecvFlag
  <2>1. Recv("flag") /\ wpc = "flag" /\ wpc' = "batch" /\ "flag" \in DOMAIN Header
    BY <1>1, RecvFlagIs
  <2>2. ~short /\ ~stalled
    BY <2>1, FieldIs DEF Recv
  <2>3. PICK t, b : At(b, t)
    BY <2>1, <2>2, Place DEF Astray
  <2>4. (Lost' /\ wpc' = "batch") \/ DownInv'
    BY <1>1, <2>3, DownFlag
  <2> QED  BY <1>0, <2>4
<1>2. CASE RecvBatch
  <2>1. /\ Recv("batch") /\ wpc = "batch" /\ "batch" \in DOMAIN Header
        /\ wpc' = IF Len(Field("batch")) # 2 THEN "close"
                  ELSE IF Number(Field("batch")) = 0 THEN "forward" ELSE "id"
    BY <1>2, RecvBatchIs
  <2>2. ~short /\ ~stalled /\ Header["batch"] = 2
    BY <2>1, FieldIs DEF Recv, Header
  <2>3. ~Lost
    BY <2>1, <2>2, DownCut
  <2>4. PICK t, b : At(b, t)
    BY <2>1, <2>2, <2>3, Place DEF Astray
  <2>5. wpc' # "close"
    OBVIOUS
  <2> QED  BY <1>2, <2>4, <2>5, DownBatch
<1>3. CASE RecvId
  <2>1. Recv("id") /\ wpc = "id" /\ wpc' = "state" /\ "id" \in DOMAIN Header
    BY <1>3, RecvIdIs
  <2>2. ~short /\ ~stalled
    BY <2>1, FieldIs DEF Recv
  <2>3. CASE Lost
    BY <1>0, <2>1, <2>3, DownCut
  <2>4. CASE ~Lost
    <3>1. PICK t, b : At(b, t)
      BY <2>1, <2>2, <2>4, Place DEF Astray
    <3>2. (Lost' /\ wpc' = "state") \/ DownInv'
      BY <1>3, <3>1, DownId
    <3> QED  BY <1>0, <3>2
  <2> QED  BY <2>3, <2>4
<1>4. CASE RecvState
  <2>1. Recv("state") /\ wpc = "state" /\ wpc' = "length" /\ "state" \in DOMAIN Header
    BY <1>4, RecvStateIs
  <2>2. ~short /\ ~stalled
    BY <2>1, FieldIs DEF Recv
  <2>3. CASE Lost
    BY <1>0, <2>1, <2>3, DownCut
  <2>4. CASE ~Lost
    <3>1. PICK t, b : At(b, t)
      BY <2>1, <2>2, <2>4, Place DEF Astray
    <3>2. (Lost' /\ wpc' = "length") \/ DownInv'
      BY <1>4, <3>1, DownState
    <3> QED  BY <1>0, <3>2
  <2> QED  BY <2>3, <2>4
<1>5. CASE RecvLength
  <2>1. /\ Recv("length") /\ wpc = "length" /\ "length" \in DOMAIN Header
        /\ wpc' = IF Len(Field("length")) # 4 THEN "close" ELSE "payload"
    BY <1>5, RecvLengthIs
  <2>2. ~short /\ ~stalled /\ Header["length"] = 4
    BY <2>1, FieldIs DEF Recv, Header
  <2>3. ~Lost
    BY <2>1, <2>2, DownCut
  <2>4. PICK t, b : At(b, t)
    BY <2>1, <2>2, <2>3, Place DEF Astray
  <2>5. wpc' # "close"
    OBVIOUS
  <2> QED  BY <1>5, <2>4, <2>5, DownLength
<1>6. CASE RecvPayload
  <2>1. wpc = "payload" /\ ~short /\ ~stalled
    BY <1>6 DEF RecvPayload, faults
  <2>2. PICK t, b : At(b, t)
    BY <2>1, Place DEF Astray
  <2> QED  BY <1>6, <2>2, DownPayload
<1>7. CASE KeepItem
  <2>1. wpc = "payload" /\ ~short /\ ~stalled
    BY <1>7 DEF KeepItem, faults
  <2>2. PICK t, b : At(b, t)
    BY <2>1, Place DEF Astray
  <2> QED  BY <1>7, <2>1, <2>2, DownKeep
<1> QED  BY <1>1, <1>2, <1>3, <1>4, <1>5, <1>6, <1>7

(* The worker takes the batches the service has written one after the      *)
(* other, field by field, and answers each before it takes the next.       *)
THEOREM DownHolds == WSpec => []DownInv
<1>1. WInit => DownInv
  <2> SUFFICES ASSUME WInit PROVE DownInv
    OBVIOUS
  <2>1. PICK t : t = [k \in 0 .. 0 |-> <<>>]
    OBVIOUS
  <2>2. t[0] = <<>> /\ <<>> \in Seq(Nat) /\ 0 \in 0 .. sent /\ sent = 0
    BY <2>1, EmptySeq DEF WInit
  <2>3. Splits(t, sent, Written)
    BY <2>1, <2>2 DEF Splits
  <2>4. Cardinality(Replies(said)) = 0
    <3>1. Replies(said) = {}
      <4>1. Len(said) = 0
        BY EmptySeq DEF WInit
      <4> QED  BY <4>1 DEF Replies
    <3> QED  BY <3>1, FS_EmptySet
  <2>5. wpc = "head" /\ down = <<>> /\ out = <<>>
    BY DEF WInit
  <2>6. Known(0)
    BY <2>4, <2>5 DEF Known, Inside
  <2>7. Ahead(0) = <<>> /\ Piece = <<>>
    BY <2>5 DEF Ahead, Piece
  <2>8. DownAt(0, t)
    BY <2>2, <2>5, <2>6, <2>7, JoinNone DEF DownAt
  <2> QED  BY <2>2, <2>3, <2>8 DEF DownInv
<1>2. Base /\ Base' /\ KeptWell /\ DownInv /\ [WNext]_wVars => DownInv'
  <2> SUFFICES ASSUME Base, Base', KeptWell, DownInv, [WNext]_wVars PROVE DownInv'
    OBVIOUS
  <2>1. CASE SendMessage
    BY <2>1, DownSend
  <2>2. CASE WriteSome
    BY <2>2, DownWrite
  <2>3. CASE ReadSome
    BY <2>3, DownFrame DEF ReadSome, worker, sends, faults
  <2>4. CASE ReadPart
    BY <2>4, DownFrame DEF ReadPart, worker, sends, faults
  <2>5. CASE ReadMessage
    BY <2>5, DownFrame DEF ReadMessage, worker, sends, faults
  <2>6. CASE Delivered
    BY <2>6, DownFrame DEF Delivered, worker, sends, faults
  <2>7. CASE SocketError
    <3>1. open
      BY <2>7 DEF SocketError, Base
    <3> QED  BY <2>7, <3>1, DownFrame DEF SocketError, worker, sends, faults
  <2>8. CASE EventSome
    BY <2>8, DownFrame DEF EventSome, service, worker, faults
  <2>9. CASE EventFails
    BY <2>9, DownFrame DEF EventFails, service, worker, faults
  <2>10. CASE Break
    BY <2>10, DownFrame DEF Break, worker, sends, faults
  <2>11. CASE Shutdown
    BY <2>11, DownFrame DEF Shutdown, service, worker, sends, faults
  <2>12. CASE UNCHANGED wVars
    BY <2>12, DownFrame DEF wVars, service, worker, sends, faults
  <2>13. CASE LoopHead
    <3>1. wpc = "head" /\ wpc' \in {"flag", "close"} /\ UNCHANGED <<said, short, stalled, sent, down, out>>
      BY <2>13 DEF LoopHead, service, sends, faults
    <3> QED  BY <3>1, DownIdle
  <2>14. CASE Close \/ ReplyFails
    BY <2>14 DEF Close, ReplyFails, Goto, DownInv
  <2>15. CASE ReceiveTimeout
    BY <2>15, DownTimeout
  <2>16. CASE ReplySome
    <3>1. /\ wpc = "send" /\ wpc' \in {"send", "head"}
          /\ UNCHANGED <<said, short, stalled, sent, down, out>>
      BY <2>16 DEF ReplySome, Goto, service, faults
    <3> QED  BY <3>1, DownIdle
  <2>17. CASE Reply
    BY <2>17, DownReply
  <2>18. CASE Emit
    BY <2>18, DownEmit
  <2>19. CASE RecvFlag \/ RecvBatch \/ RecvId \/ RecvState \/ RecvLength \/ RecvPayload \/ KeepItem
    BY <2>19, DownReceive
  <2> QED
    BY <2>1, <2>2, <2>3, <2>4, <2>5, <2>6, <2>7, <2>8, <2>9, <2>10, <2>11, <2>12, <2>13, <2>14,
       <2>15, <2>16, <2>17, <2>18, <2>19
       DEF WNext, ConnectionTask, MainThread, StreamingThread
<1> QED  BY <1>1, <1>2, BaseHolds, KeptHolds, PTL DEF WSpec

-----------------------------------------------------------------------------
(* The worker's stream. *)
LEMMA Slide ==
  ASSUME NEW a \in Seq(Nat), NEW b \in Seq(Nat), NEW c \in Seq(Nat), NEW d \in Seq(Nat)
  PROVE  a ++ ((b ++ c) ++ d) = (a ++ b) ++ (c ++ d)
<1>1. (b ++ c) ++ d = b ++ (c ++ d) /\ c ++ d \in Seq(Nat)
  BY Joined, JoinType
<1>2. a ++ (b ++ (c ++ d)) = (a ++ b) ++ (c ++ d)
  BY <1>1, Joined
<1> QED  BY <1>1, <1>2

LEMMA Halves ==
  ASSUME NEW S, NEW f \in Seq(S), NEW n \in Seq(S)
  PROVE  Take(f ++ n, Len(f)) = f /\ Drop(f ++ n, Len(f)) = n
<1> DEFINE x == f ++ n
           k == Len(f)
<1>1. x \in Seq(S) /\ Len(x) = Len(f) + Len(n) /\ Len(f) \in Nat /\ Len(n) \in Nat
  BY JoinType, LenProperties
<1>2. k \in 0 .. Len(x)
  <2> HIDE DEF x
  <2> QED  BY <1>1
<1> DEFINE t == Take(x, k)
           e == Drop(x, k)
<1> HIDE DEF x, k
<1>3. t \in Seq(S) /\ e \in Seq(S) /\ Len(t) = k /\ t ++ e = x
  BY <1>1, <1>2, TakeDrop
<1> HIDE DEF t, e
<1>4. t ++ e = f ++ n /\ Len(t) = Len(f)
  BY <1>3 DEF x, k
<1>5. t = f /\ e = n
  BY <1>3, <1>4, SameCut
<1> QED  BY <1>5 DEF t, e, x, k

LEMMA MessageOf ==
  ASSUME NEW m \in Messages
  PROVE  /\ m.items \in Seq(Items) /\ Len(m.items) \in Nat /\ Len(m.items) <= 65535
         /\ FlagOf(m.code) \in Nat /\ FlagOf(m.code) <= 65535
         /\ CodeOf(FlagOf(m.code)) = m.code /\ m = [code |-> m.code, items |-> m.items]
         /\ m.code \in {"Normal", "StreamEvent", "InternalError"}
<1>1. /\ m.code \in {"Normal", "StreamEvent", "InternalError"} /\ m.items \in Seq(Items)
      /\ Len(m.items) <= 65535 /\ m = [code |-> m.code, items |-> m.items]
  BY DEF Messages
<1>2. /\ FlagOf("Normal") = 1 /\ FlagOf("StreamEvent") = STREAM_EVENT /\ FlagOf("InternalError") = 8
  BY DEF FlagOf
<1>3. STREAM_EVENT \in Nat /\ STREAM_EVENT <= 65535
  BY SMT DEF STREAM_EVENT
<1>4. Len(m.items) \in Nat
  BY <1>1
<1>5. FlagOf(m.code) \in Nat /\ FlagOf(m.code) <= 65535
  BY <1>1, <1>2, <1>3
<1>6. CodeOf(FlagOf(m.code)) = m.code
  BY <1>1, <1>2, CodesAre
<1> QED  BY <1>1, <1>4, <1>5, <1>6

LEMMA FlagsAre ==
  ASSUME NEW flag \in {1, 8, STREAM_EVENT}
  PROVE  FlagOf(CodeOf(flag)) = flag
<1>1. /\ FlagOf("Normal") = 1 /\ FlagOf("StreamEvent") = STREAM_EVENT /\ FlagOf("InternalError") = 8
  BY DEF FlagOf
<1> QED  BY <1>1, CodesAre

LEMMA SpokenAre ==
  ASSUME said \in Seq(Messages), NEW i \in 1 .. Len(said)
  PROVE  /\ said[i] \in Messages /\ Spoken[i] \in Seq(Nat)
         /\ Spoken[i] = Message(FlagOf(said[i].code), said[i].items)
<1>1. said[i] \in Messages
  BY ElementOfSeq
<1>2. Spoken[i] = Message(FlagOf(said[i].code), said[i].items)
  BY DEF Spoken
<1> DEFINE F == FlagOf(said[i].code)
           M == said[i].items
<1>3. F \in Nat /\ F <= 65535 /\ M \in Seq(Items) /\ Len(M) <= 65535
  BY <1>1, MessageOf
<1>4. Message(F, M) \in Seq(Nat)
  <2> HIDE DEF F, M
  <2> QED  BY <1>3, StartRest
<1> QED  BY <1>1, <1>2, <1>4

(* The header of a message and what follows it. *)
Fits(flag, items) ==
  flag \in Nat /\ flag <= 65535 /\ items \in Seq(Items) /\ Len(items) <= 65535

LEMMA MessageFits ==
  ASSUME NEW m \in Messages
  PROVE  Fits(FlagOf(m.code), m.items)
BY MessageOf DEF Fits

LEMMA FitsFields ==
  ASSUME NEW flag, NEW items, Fits(flag, items)
  PROVE  /\ Digits(flag, 2) \in Seq(Nat) /\ Len(Digits(flag, 2)) = 2
         /\ Digits(Len(items), 2) \in Seq(Nat) /\ Len(Digits(Len(items), 2)) = 2
         /\ Number(Digits(flag, 2)) = flag /\ Number(Digits(Len(items), 2)) = Len(items)
<1>1. flag \in Nat /\ flag <= 65535 /\ items \in Seq(Items) /\ Len(items) <= 65535
  BY DEF Fits
<1> QED  BY <1>1, StartRest

LEMMA FitsBody ==
  ASSUME NEW flag, NEW items, Fits(flag, items)
  PROVE  /\ Rest(flag, items)[0] \in Seq(Nat) /\ Rest(flag, items)[Len(items)] = <<>>
         /\ Digits(flag, 2) ++ Digits(Len(items), 2) \in Seq(Nat)
         /\ Message(flag, items) =
              (Digits(flag, 2) ++ Digits(Len(items), 2)) ++ Rest(flag, items)[0]
<1>1. flag \in Nat /\ flag <= 65535 /\ items \in Seq(Items) /\ Len(items) <= 65535
  BY DEF Fits
<1> QED  BY <1>1, StartRest

(* The service's place in it. *)
Spot(t, lost) ==
  /\ said \in Seq(Messages) /\ heard \in Seq(Messages)
  /\ Splits(t, Len(said), Spoken) /\ lost \in Seq(Nat) /\ UpAt(t, lost)

LEMMA Upward ==
  ASSUME Base, NEW t, NEW lost, Spot(t, lost)
  PROVE  /\ Len(heard) \in Nat /\ Len(said) \in Nat /\ Begun \in 0 .. Len(said)
         /\ t[Begun] \in Seq(Nat) /\ Coming(lost) \in Seq(Nat) /\ got.bytes \in Seq(Nat)
         /\ got.bytes ++ Coming(lost) = Onward ++ t[Begun]
         /\ up \in Seq(Nat) /\ mout ++ tout \in Seq(Nat) /\ lost \in Seq(Nat)
         /\ Len(got.items) \in Nat
         /\ got.part # "head" =>
              /\ Len(heard) + 1 \in 1 .. Len(said) /\ Reads \in Messages /\ Begun = Len(heard) + 1
         /\ got.part = "head" => Begun = Len(heard) /\ Onward = <<>>
<1>1. /\ said \in Seq(Messages) /\ heard \in Seq(Messages) /\ lost \in Seq(Nat)
      /\ Splits(t, Len(said), Spoken) /\ Len(heard) <= Len(said) /\ Held
      /\ got.bytes ++ Coming(lost) = Onward ++ t[Begun]
  BY DEF Spot, UpAt
<1>2. Len(heard) \in Nat /\ Len(said) \in Nat
  BY <1>1
<1>3. got.part # "head" => Len(heard) < Len(said)
  BY <1>1 DEF Held
<1>4. got.part # "head" => Len(heard) + 1 \in 1 .. Len(said) /\ Begun = Len(heard) + 1
  BY <1>2, <1>3 DEF Begun
<1>5. got.part # "head" => Reads \in Messages
  BY <1>1, <1>4, SpokenAre DEF Reads
<1>6. got.part = "head" => Begun = Len(heard) /\ Onward = <<>>
  BY DEF Begun, Onward, Remains
<1>7. Begun \in 0 .. Len(said)
  BY <1>1, <1>2, <1>4, <1>6
<1>8. t[Begun] \in Seq(Nat)
  BY <1>1, <1>2, <1>7, SplitAt
<1>9. up \in Seq(Nat) /\ mout ++ tout \in Seq(Nat)
  BY JoinType DEF Base
<1>10. Coming(lost) \in Seq(Nat)
  <2>1. up ++ (mout ++ tout) \in Seq(Nat)
    BY <1>9, JoinType
  <2> QED  BY <1>1, <2>1, JoinType DEF Coming
<1>11. got.bytes \in Seq(Nat) /\ Len(got.items) \in Nat
  <2>1. got \in Parse
    BY DEF Base, Reading
  <2>2. got.bytes \in Seq(Nat) /\ got.items \in Seq(Parsed)
    BY <2>1, ParseIs
  <2> QED  BY <2>2
<1> QED  BY <1>1, <1>2, <1>4, <1>5, <1>6, <1>7, <1>8, <1>9, <1>10, <1>11

LEMMA OnwardIs ==
  ASSUME Base, NEW t, NEW lost, Spot(t, lost)
  PROVE  Onward \in Seq(Nat)
<1> DEFINE F == FlagOf(Reads.code)
           M == Reads.items
           k == Len(got.items)
<1>1. Held /\ <<>> \in Seq(Nat)
  BY EmptySeq DEF Spot, UpAt
<1>2. ASSUME got.part \in {"item", "data"}
      PROVE  PartAhead(F, M, k)
  <2>1. Reads \in Messages /\ k \in Nat
    BY <1>2, Upward
  <2>2. F \in Nat /\ M \in Seq(Items)
    BY <2>1, MessageOf
  <2>3. k < Len(M)
    BY <1>1, <1>2 DEF Held, Partway
  <2> HIDE DEF F, M, k
  <2> QED  BY <2>1, <2>2, <2>3, PartRest
<1>3. got.part = "item" => Onward = Rest(F, M)[k]
  BY DEF Onward, Remains
<1>4. got.part = "data" => Onward = M[k + 1].data ++ Rest(F, M)[k + 1]
  BY DEF Onward, Remains
<1>5. got.part \notin {"item", "data"} => Onward = <<>>
  BY DEF Onward, Remains
<1> HIDE DEF F, M, k
<1> QED  BY <1>1, <1>2, <1>3, <1>4, <1>5 DEF PartAhead

(* Steps that leave it where it is, and the bytes in their order. *)
LEMMA UpOn ==
  ASSUME NEW t, NEW lost, NEW left \in Seq(Nat), Spot(t, lost), UNCHANGED <<got, heard, said>>,
         (up' ++ (mout' ++ tout')) ++ left = Coming(lost),
         left = <<>> \/ wpc' \in {"close", "closed"}
  PROVE  UpInv'
<1>1. Held' /\ Onward' = Onward /\ Begun' = Begun /\ Coming(left)' = Coming(lost)
  BY DEF Spot, UpAt, Held, Onward, Reads, Begun, Coming
<1>2. UpAt(t, left)'
  BY <1>1 DEF Spot, UpAt
<1>3. Splits(t, Len(said), Spoken)'
  BY DEF Spot, Splits, Spoken
<1> QED  BY <1>2, <1>3 DEF UpInv

LEMMA UpFrame ==
  ASSUME NEW t, NEW lost, Spot(t, lost), UNCHANGED <<got, heard, said, up, mout, tout>>,
         wpc \in {"close", "closed"} => wpc' \in {"close", "closed"}
  PROVE  UpInv'
<1>1. lost \in Seq(Nat) /\ (lost = <<>> \/ wpc \in {"close", "closed"})
  BY DEF Spot, UpAt
<1>2. (up' ++ (mout' ++ tout')) ++ lost = Coming(lost)
  BY DEF Coming
<1> QED  BY <1>1, <1>2, UpOn

(* The threads of the worker write one after the other. *)
LEMMA UpEvent ==
  ASSUME Base, NEW t, NEW lost, Spot(t, lost), EventSome, ~torn
  PROVE  UpInv'
<1>1. UNCHANGED <<got, heard, said, mout, wpc>> /\ tpc = "sending"
  BY DEF EventSome, service, worker
<1>2. mout = <<>>
  BY <1>1 DEF Base
<1>3. up' \in Seq(Nat) /\ tout' \in Seq(Nat) /\ up' ++ tout' = up ++ tout /\ tout \in Seq(Nat)
  BY EventSomeIs DEF Base
<1>4. up' ++ (mout' ++ tout') = up ++ (mout ++ tout)
  <2>1. <<>> ++ tout' = tout' /\ <<>> ++ tout = tout
    BY <1>3, JoinNone
  <2> QED  BY <1>1, <1>2, <1>3, <2>1
<1>5. (up' ++ (mout' ++ tout')) ++ lost = Coming(lost)
  BY <1>4 DEF Coming
<1>6. lost \in Seq(Nat) /\ (lost = <<>> \/ wpc' \in {"close", "closed"})
  BY <1>1 DEF Spot, UpAt
<1> QED  BY <1>1, <1>5, <1>6, UpOn

LEMMA UpReply ==
  ASSUME Base, NEW t, NEW lost, Spot(t, lost), ReplySome \/ ReplyFails, ~torn
  PROVE  UpInv'
<1>1. UNCHANGED <<got, heard, said, tout, tpc>> /\ wpc = "send"
  BY DEF ReplySome, ReplyFails, service
<1>2. tout = <<>> /\ up \in Seq(Nat) /\ mout \in Seq(Nat)
  BY <1>1 DEF Base
<1>3. lost = <<>>
  BY <1>1 DEF Spot, UpAt
<1>4. <<>> \in Seq(Nat) /\ mout ++ tout = mout
  BY <1>2, JoinNone, EmptySeq
<1>5. CASE ReplySome
  <2>1. up' \in Seq(Nat) /\ mout' \in Seq(Nat) /\ up' ++ mout' = up ++ mout
    BY <1>5, ReplySomeIs
  <2>2. mout' ++ tout' = mout'
    BY <1>1, <1>2, <2>1, JoinNone
  <2>3. (up' ++ (mout' ++ tout')) ++ <<>> = Coming(lost)
    BY <1>3, <1>4, <2>1, <2>2 DEF Coming
  <2> QED  BY <1>1, <1>4, <2>3, UpOn
<1>6. CASE ReplyFails
  <2>1. up' = up /\ mout' = <<>> /\ wpc' = "close"
    BY <1>6 DEF ReplyFails, Goto
  <2>2. up' ++ (mout' ++ tout') = up
    <3>1. <<>> ++ <<>> = <<>> /\ up ++ <<>> = up
      BY <1>2, <1>4, JoinNone
    <3> QED  BY <1>1, <1>2, <2>1, <3>1
  <2>3. up ++ mout \in Seq(Nat) /\ (up ++ mout) ++ <<>> = up ++ mout
    <3>1. up ++ mout \in Seq(Nat)
      BY <1>2, JoinType
    <3> DEFINE z == up ++ mout
    <3> HIDE DEF z
    <3>2. z ++ <<>> = z
      BY <3>1, JoinNone DEF z
    <3> QED  BY <3>1, <3>2 DEF z
  <2>4. (up' ++ (mout' ++ tout')) ++ mout = Coming(lost)
    BY <1>3, <1>4, <2>2, <2>3 DEF Coming
  <2>5. PICK left : left = mout
    OBVIOUS
  <2> QED  BY <1>1, <1>2, <2>1, <2>4, <2>5, UpOn
<1> QED  BY <1>5, <1>6

(* A message more is begun when the ones before it are written. *)
Begins(flag, items) ==
  /\ Len(items) <= 65535
  /\ mout = <<>> /\ tout = <<>> /\ wpc \notin {"close", "closed"}
  /\ got' = got /\ heard' = heard /\ up' = up
  /\ mout' ++ tout' = Message(flag, items)
  /\ said' = Append(said, [code |-> CodeOf(flag), items |-> items])

LEMMA UpMore ==
  ASSUME Base, NEW t, NEW lost, Spot(t, lost), NEW flag \in {1, 8, STREAM_EVENT},
         NEW items \in Seq(Items), Begins(flag, items)
  PROVE  UpInv'
<1>0. got' = got /\ heard' = heard /\ up' = up
  BY DEF Begins
<1> PICK N : N = Len(said)
  OBVIOUS
<1> PICK m : m = [code |-> CodeOf(flag), items |-> items]
  OBVIOUS
<1> PICK q : q = Message(flag, items)
  OBVIOUS
<1>1. N = Len(said) /\ m = [code |-> CodeOf(flag), items |-> items] /\ q = Message(flag, items)
  OBVIOUS
<1>2. m \in Messages
  BY <1>1, SaidMore DEF Begins
<1>3. /\ said \in Seq(Messages) /\ N \in Nat /\ Splits(t, N, Spoken) /\ Held /\ lost = <<>>
      /\ Len(heard) \in Nat /\ Len(heard) <= N
  BY <1>1, Upward DEF Spot, UpAt, Begins
<1>4. Len(said') = N + 1 /\ said'[N + 1] = m /\ \A i \in 1 .. N : said'[i] = said[i]
  <2>1. said' = Append(said, m)
    BY <1>1 DEF Begins
  <2> QED  BY <1>1, <1>2, <1>3, <2>1, AppendProperties
<1>5. PICK p, r : p = Spoken /\ r = Spoken'
  OBVIOUS
<1>6. \A i \in 1 .. N : r[i] = p[i] /\ p[i] \in Seq(Nat)
  <2> SUFFICES ASSUME NEW i \in 1 .. N PROVE r[i] = p[i] /\ p[i] \in Seq(Nat)
    OBVIOUS
  <2>1. i \in 1 .. N + 1
    BY <1>3
  <2>2. p[i] = Message(FlagOf(said[i].code), said[i].items)
    BY <1>1, <1>5 DEF Spoken
  <2>3. r[i] = Message(FlagOf(said'[i].code), said'[i].items)
    BY <1>4, <1>5, <2>1 DEF Spoken
  <2> QED  BY <1>1, <1>3, <1>4, <1>5, <2>2, <2>3, SpokenAre
<1>7. r[N + 1] = q /\ q \in Seq(Nat)
  <2>1. N + 1 \in 1 .. N + 1
    BY <1>3
  <2>2. r[N + 1] = Message(FlagOf(said'[N + 1].code), said'[N + 1].items)
    BY <1>4, <1>5, <2>1 DEF Spoken
  <2>3. FlagOf(m.code) = flag /\ m.items = items
    BY <1>1, FlagsAre
  <2>4. Message(flag, items) \in Seq(Nat)
    <3>1. FlagOf(m.code) \in Nat /\ FlagOf(m.code) <= 65535
      BY <1>2, MessageOf
    <3>2. flag \in Nat /\ flag <= 65535
      BY <2>3, <3>1
    <3> QED  BY <3>2, StartRest DEF Begins
  <2> QED  BY <1>1, <1>4, <2>2, <2>3, <2>4
<1>8. PICK u : u = Longer(t, N, q)
  OBVIOUS
<1>9. Splits(u, N + 1, r)
  BY <1>3, <1>5, <1>6, <1>7, <1>8, SplitsMore
<1>10. Splits(u, Len(said), Spoken)'
  <2>1. Splits(u, Len(said'), Spoken')
    BY <1>4, <1>5, <1>9
  <2> QED  BY <2>1, SMT DEF Splits
<1>11. Begun \in 0 .. N /\ Begun' = Begun /\ u[Begun] = t[Begun] ++ q
  <2>1. Begun \in 0 .. N
    BY <1>1, Upward
  <2>2. u[Begun] = t[Begun] ++ q
    <3> DEFINE B == Begun
    <3>1. B \in 0 .. N
      BY <2>1
    <3> HIDE DEF B
    <3>2. B \in 0 .. N + 1 /\ B # N + 1
      BY <1>3, <3>1
    <3>3. u[B] = t[B] ++ q
      BY <1>8, <3>2 DEF Longer
    <3> QED  BY <3>3 DEF B
  <2> QED  BY <1>0, <2>1, <2>2 DEF Begun
<1>12. got.part # "head" => Reads' = Reads
  <2>1. ASSUME got.part # "head" PROVE said'[Len(heard) + 1] = said[Len(heard) + 1]
    BY <1>1, <1>4, <2>1, Upward
  <2> QED  BY <1>0, <2>1 DEF Reads
<1>13. Held'
  <2>1. Len(heard) < Len(said) => Len(heard') < Len(said')
    BY <1>0, <1>1, <1>3, <1>4
  <2> QED  BY <1>0, <1>3, <1>12, <2>1 DEF Held
<1>14. Onward' = Onward
  <2>1. got.part = "head" => Onward' = Onward
    BY <1>0 DEF Onward, Remains
  <2> QED  BY <1>0, <1>12, <2>1 DEF Onward
<1>15. got'.bytes ++ Coming(<<>>)' = Onward' ++ u[Begun']
  <2>1. /\ up \in Seq(Nat) /\ got.bytes \in Seq(Nat) /\ t[Begun] \in Seq(Nat)
        /\ Onward \in Seq(Nat) /\ got.bytes ++ Coming(lost) = Onward ++ t[Begun]
    BY Upward, OnwardIs
  <2> DEFINE b == got.bytes
             T == t[Begun]
             w == Onward
             y == up
  <2>2. b \in Seq(Nat) /\ T \in Seq(Nat) /\ w \in Seq(Nat) /\ y \in Seq(Nat)
        /\ b ++ ((y ++ (<<>> ++ <<>>)) ++ <<>>) = w ++ T
    BY <1>3, <2>1 DEF Coming, Begins
  <2>3. (up' ++ (mout' ++ tout')) ++ <<>> = (y ++ q) ++ <<>>
    BY <1>1 DEF Begins
  <2> HIDE DEF b, T, w, y
  <2>4. <<>> \in Seq(Nat) /\ <<>> ++ <<>> = <<>> /\ y ++ <<>> = y
    <3>1. <<>> \in Seq(Nat)
      BY EmptySeq
    <3>2. PICK e : e = <<>>
      OBVIOUS
    <3>3. e \in Seq(Nat)
      BY <3>1, <3>2
    <3>4. e ++ <<>> = e
      BY <3>3, JoinNone
    <3>5. y ++ <<>> = y
      BY <2>2, JoinNone
    <3> QED  BY <3>1, <3>2, <3>4, <3>5
  <2>5. y ++ q \in Seq(Nat)
    BY <1>7, <2>2, JoinType
  <2>6. (y ++ q) ++ <<>> = y ++ q
    <3> DEFINE z == y ++ q
    <3>1. z \in Seq(Nat)
      BY <2>5
    <3> HIDE DEF z
    <3>2. z ++ <<>> = z
      BY <3>1, JoinNone
    <3> QED  BY <3>2 DEF z
  <2>7. b ++ (y ++ q) = (b ++ y) ++ q /\ w ++ (T ++ q) = (w ++ T) ++ q
    BY <1>7, <2>2, Joined
  <2>8. b ++ (y ++ q) = w ++ (T ++ q)
    BY <2>2, <2>4, <2>7
  <2>9. Coming(<<>>)' = y ++ q
    BY <2>3, <2>6 DEF Coming, y
  <2>10. got'.bytes = b /\ Onward' = w /\ u[Begun'] = T ++ q
    BY <1>0, <1>11, <1>14 DEF b, w, T
  <2> QED  BY <2>8, <2>9, <2>10, Zenon
<1>18. PICK e : e = <<>>
  OBVIOUS
<1>16. e = <<>> /\ e \in Seq(Nat)
  BY <1>18, EmptySeq
<1>17. UpAt(u, e)'
  <2>1. Len(heard') <= Len(said')
    BY <1>0, <1>1, <1>3, <1>4
  <2>2. got'.bytes ++ Coming(e)' = Onward' ++ u[Begun']
    BY <1>15, <1>16
  <2> QED  BY <1>13, <1>16, <2>1, <2>2 DEF UpAt
<1> QED  BY <1>10, <1>16, <1>17 DEF UpInv

(* read_exact goes on in a part. *)
LEMMA UpRead ==
  ASSUME Base, NEW t, NEW lost, Spot(t, lost), ReadSome
  PROVE  UpInv'
<1>1. UNCHANGED <<heard, said, mout, tout, wpc>>
  BY DEF ReadSome, worker, sends
<1>2. got.part # "end"
  <2>1. SUFFICES ASSUME got.part = "end" PROVE FALSE
    OBVIOUS
  <2>2. got.bytes = <<>> /\ got.want = 0 /\ Len(<<>>) = 0
    BY <2>1, EmptySeq DEF Spot, UpAt, Held, Partway
  <2>3. Least(Len(up), 0) > 0
    <3>1. Least(Len(up), 0 - 0) > 0 /\ 0 - 0 = 0
      BY <2>2 DEF ReadSome
    <3> QED  BY <3>1
  <2>4. Len(up) \in Int /\ 0 \in Int
    BY DEF Base
  <2>5. Least(Len(up), 0) \in Int /\ Least(Len(up), 0) <= 0
    BY <2>4, LeastIs
  <2> QED  BY <2>3, <2>5
<1>3. /\ got'.part = got.part /\ got'.want = got.want /\ got'.item = got.item
      /\ got'.items = got.items /\ got'.flag = got.flag /\ got'.left = got.left
  <2>1. PICK b : got' = [got EXCEPT !.bytes = b] /\ got'.bytes = b
    BY ReadIs
  <2>2. got \in Parse
    BY DEF Base, Reading
  <2> QED  BY <2>1, <2>2 DEF Parse
<1>4. Held' /\ Onward' = Onward /\ Begun' = Begun
  BY <1>1, <1>2, <1>3 DEF Spot, UpAt, Held, Onward, Reads, Partway, Remains, Begun
<1>5. got'.bytes ++ Coming(lost)' = got.bytes ++ Coming(lost)
  <2>1. /\ up \in Seq(Nat) /\ got.bytes \in Seq(Nat) /\ mout ++ tout \in Seq(Nat) /\ lost \in Seq(Nat)
        /\ up' \in Seq(Nat) /\ got'.bytes \in Seq(Nat) /\ got'.bytes ++ up' = got.bytes ++ up
    BY Upward, ReadIs
  <2> DEFINE a == got.bytes
             b == up
             c == mout ++ tout
             x == got'.bytes
             y == up'
  <2>2. Coming(lost)' = (y ++ c) ++ lost /\ Coming(lost) = (b ++ c) ++ lost
    BY <1>1 DEF Coming
  <2>3. /\ a \in Seq(Nat) /\ b \in Seq(Nat) /\ c \in Seq(Nat) /\ x \in Seq(Nat) /\ y \in Seq(Nat)
        /\ x ++ y = a ++ b
    BY <2>1
  <2> HIDE DEF a, b, c, x, y
  <2>4. a ++ ((b ++ c) ++ lost) = (a ++ b) ++ (c ++ lost)
    BY <2>1, <2>3, Slide
  <2>5. x ++ ((y ++ c) ++ lost) = (x ++ y) ++ (c ++ lost)
    BY <2>1, <2>3, Slide
  <2>6. x ++ ((y ++ c) ++ lost) = a ++ ((b ++ c) ++ lost)
    BY <2>3, <2>4, <2>5
  <2> QED  BY <2>2, <2>6 DEF a, b, c, x, y
<1>6. UpAt(t, lost)'
  BY <1>1, <1>4, <1>5 DEF Spot, UpAt
<1>7. Splits(t, Len(said), Spoken)' /\ lost \in Seq(Nat)
  BY <1>1 DEF Spot, Splits, Spoken
<1> QED  BY <1>6, <1>7 DEF UpInv

(* A part of a message is complete. *)
LEMMA UpPart ==
  ASSUME Base, Base', NEW t, NEW lost, Spot(t, lost), ReadPart,
         Len(heard) < Len(said), Partway(got', Reads), got'.part # "head", got'.bytes = <<>>,
         Coming(lost) = Remains(got', Reads) ++ t[Len(heard) + 1]
  PROVE  UpInv'
<1>1. UNCHANGED <<heard, said, mout, tout, wpc, up>>
  BY DEF ReadPart, worker, sends
<1>2. Reads' = Reads /\ Coming(lost)' = Coming(lost)
  BY <1>1 DEF Reads, Coming
<1>3. Held' /\ Onward' = Remains(got', Reads) /\ Begun' = Len(heard) + 1
  BY <1>1, <1>2 DEF Held, Onward, Begun
<1>4. <<>> ++ Coming(lost) = Coming(lost)
  <2>1. Coming(lost) \in Seq(Nat)
    BY Upward
  <2> DEFINE z == Coming(lost)
  <2> HIDE DEF z
  <2>2. <<>> ++ z = z
    BY <2>1, JoinNone DEF z
  <2> QED  BY <2>2 DEF z
<1>5. UpAt(t, lost)'
  <2>1. got'.bytes ++ Coming(lost)' = Onward' ++ t[Begun']
    BY <1>2, <1>3, <1>4
  <2>2. Len(heard') <= Len(said') /\ (lost = <<>> \/ wpc' \in {"close", "closed"})
    BY <1>1 DEF Spot, UpAt
  <2> QED  BY <1>3, <2>1, <2>2 DEF UpAt
<1>6. Splits(t, Len(said), Spoken)' /\ lost \in Seq(Nat)
  BY <1>1 DEF Spot, Splits, Spoken
<1> QED  BY <1>5, <1>6 DEF UpInv

(* The header of a message. *)
LEMMA UpHead ==
  ASSUME Base, Base', NEW t, NEW lost, Spot(t, lost), ReadPart, got.part = "head"
  PROVE  UpInv'
<1> DEFINE h == Len(heard)
           T == t[h + 1]
           X == Coming(lost)
           b == got.bytes
<1>1. /\ h \in Nat /\ Len(said) \in Nat /\ h \in 0 .. Len(said) /\ t[h] \in Seq(Nat)
      /\ X \in Seq(Nat) /\ b \in Seq(Nat) /\ b ++ X = <<>> ++ t[h]
  BY Upward
<1>2. got' \in Parse /\ AtNext(got') /\ Len(b) = 4
      /\ got'.flag = Number(Take(b, 2)) /\ got'.left = Number(Drop(b, 2))
      /\ got'.items = <<>>
  BY ReadHead DEF Base, Reading
<1> HIDE DEF b, X
<1>3. b ++ X = t[h]
  BY <1>1, JoinNone
<1>4. h # Len(said)
  <2>1. SUFFICES ASSUME h = Len(said) PROVE FALSE
    OBVIOUS
  <2>2. t[h] = <<>>
    BY <2>1 DEF Spot, Splits, h
  <2>3. Len(b ++ X) = Len(b) + Len(X) /\ Len(X) \in Nat
    <3>1. b \in Seq(Nat) /\ X \in Seq(Nat)
      BY <1>1
    <3> QED  BY <3>1, JoinType
  <2>4. Len(b ++ X) = 0
    BY <1>3, <2>2, EmptySeq
  <2>5. Len(b) = 4
    BY <1>2
  <2>6. \A y \in Nat : 4 + y # 0
    OBVIOUS
  <2> QED  BY <2>3, <2>4, <2>5, <2>6, Zenon
<1>5. /\ h + 1 \in 1 .. Len(said) /\ T \in Seq(Nat) /\ t[h] = Spoken[h + 1] ++ T
      /\ said \in Seq(Messages)
  <2>1. Splits(t, Len(said), Spoken) /\ said \in Seq(Messages)
    BY DEF Spot
  <2> HIDE DEF h
  <2>2. h \in 0 .. Len(said) /\ Len(said) \in Nat
    BY <1>1
  <2> QED  BY <1>4, <2>1, <2>2, SplitAt
<1> DEFINE m == Reads
           F == FlagOf(m.code)
           M == m.items
<1>6. m \in Messages /\ Spoken[h + 1] = Message(F, M)
  BY <1>5, SpokenAre DEF Reads, h
<1>7. /\ M \in Seq(Items) /\ Len(M) \in Nat /\ F \in Nat
  BY <1>6, MessageOf
<1> HIDE DEF h, T, m, F, M
<1> DEFINE f == Digits(F, 2)
           n == Digits(Len(M), 2)
           r == Rest(F, M)[0]
<1>8. /\ f \in Seq(Nat) /\ n \in Seq(Nat) /\ Len(f) = 2 /\ Len(n) = 2
      /\ Number(f) = F /\ Number(n) = Len(M) /\ r \in Seq(Nat) /\ f ++ n \in Seq(Nat)
      /\ Rest(F, M)[Len(M)] = <<>>
      /\ Message(F, M) = (f ++ n) ++ r
  <2>1. Fits(F, M)
    BY <1>6, MessageFits DEF F, M
  <2>2. /\ f \in Seq(Nat) /\ n \in Seq(Nat) /\ Len(f) = 2 /\ Len(n) = 2
        /\ Number(f) = F /\ Number(n) = Len(M)
    BY <2>1, FitsFields
  <2>3. /\ r \in Seq(Nat) /\ Rest(F, M)[Len(M)] = <<>> /\ f ++ n \in Seq(Nat)
        /\ Message(F, M) = (f ++ n) ++ r
    BY <2>1, FitsBody
  <2> QED  BY <2>2, <2>3
<1> HIDE DEF f, n, r
<1>9. b = f ++ n /\ X = r ++ T
  <2> DEFINE c == f ++ n
  <2>1. c \in Seq(Nat) /\ Len(c) = 4
    <3>1. Len(f ++ n) = Len(f) + Len(n)
      BY <1>8, JoinType
    <3> QED  BY <1>8, <3>1
  <2>2. b ++ X = (c ++ r) ++ T
    BY <1>3, <1>5, <1>6, <1>8
  <2> HIDE DEF c
  <2>3. (c ++ r) ++ T = c ++ (r ++ T) /\ r ++ T \in Seq(Nat)
    <3>1. c \in Seq(Nat) /\ r \in Seq(Nat) /\ T \in Seq(Nat)
      BY <1>5, <1>8, <2>1
    <3> QED  BY <3>1, Joined, JoinType
  <2> DEFINE d == r ++ T
  <2>4. b ++ X = c ++ d /\ d \in Seq(Nat) /\ Len(b) = Len(c)
    BY <1>2, <2>1, <2>2, <2>3
  <2> HIDE DEF d
  <2>5. b = c /\ X = d
    BY <1>1, <2>1, <2>4, SameCut
  <2> QED  BY <2>5 DEF c, d
<1>10. got'.flag = F /\ got'.left = Len(M)
  <2>1. Take(b, 2) = f /\ Drop(b, 2) = n
    BY <1>8, <1>9, Halves
  <2> QED  BY <1>2, <1>8, <2>1
<1>11. got'.part = IF Len(M) = 0 THEN "end" ELSE "item"
  BY <1>2, <1>10 DEF AtNext
<1>12. /\ got'.bytes = <<>> /\ (Len(M) = 0 => got'.want = 0) /\ <<>> \in Seq(Items) /\ Len(<<>>) = 0
  BY <1>2, <1>10, EmptySeq DEF AtNext
<1>13. Partway(got', Reads)
  <2>1. 0 <= Len(M) /\ Len(M) = Len(M) - 0 /\ (Len(M) # 0 => 0 < Len(M)) /\ \A j \in 1 .. 0 : FALSE
    BY <1>7
  <2> QED  BY <1>2, <1>10, <1>11, <1>12, <2>1 DEF Partway, F, M, m
<1>14. Remains(got', Reads) = r
  BY <1>2, <1>8, <1>11, <1>12 DEF Remains, r, F, M, m
<1>15. Len(heard) < Len(said)
  BY <1>1, <1>4 DEF h
<1>16. Coming(lost) = Remains(got', Reads) ++ t[Len(heard) + 1]
  BY <1>9, <1>14 DEF X, T, h
<1>17. got'.part # "head"
  BY <1>11
<1> QED  BY <1>12, <1>13, <1>15, <1>16, <1>17, UpPart

(* The header of an item. *)
LEMMA HeadingIs ==
  ASSUME NEW i \in Seq(Nat), NEW s \in Seq(Nat), NEW n \in Seq(Nat),
         Len(i) = 4, Len(s) = 2, Len(n) = 4
  PROVE  LET H == i ++ (s ++ n)
         IN /\ H \in Seq(Nat) /\ Len(H) = 10
            /\ Take(H, 4) = i /\ SubSeq(H, 5, 6) = s /\ Drop(H, 6) = n
<1>1. s ++ n \in Seq(Nat) /\ Len(s ++ n) = 6 /\ i ++ s \in Seq(Nat) /\ Len(i ++ s) = 6
  <2>1. /\ s ++ n \in Seq(Nat) /\ Len(s ++ n) = Len(s) + Len(n)
        /\ i ++ s \in Seq(Nat) /\ Len(i ++ s) = Len(i) + Len(s)
    BY JoinType
  <2> QED  BY <2>1
<1> PICK x : x = s ++ n
  OBVIOUS
<1> PICK y : y = i ++ s
  OBVIOUS
<1> PICK H : H = i ++ x
  OBVIOUS
<1>2. x \in Seq(Nat) /\ Len(x) = 6 /\ y \in Seq(Nat) /\ Len(y) = 6 /\ H = y ++ n
  BY <1>1, Joined
<1>3. H \in Seq(Nat) /\ Len(H) = 10
  <2>1. H \in Seq(Nat) /\ Len(H) = Len(i) + Len(x)
    BY <1>2, JoinType
  <2> QED  BY <1>2, <2>1
<1>4. Take(H, 4) = i
  <2>1. Take(i ++ x, Len(i)) = i
    BY <1>2, Halves
  <2> QED  BY <2>1
<1>5. Drop(H, 6) = n
  <2>1. Drop(y ++ n, Len(y)) = n
    BY <1>2, Halves
  <2> QED  BY <1>2, <2>1
<1>6. SubSeq(H, 5, 6) = s
  <2>1. \A j \in 5 .. 6 : H[j] \in Nat
    <3>1. \A j \in 5 .. 6 : j \in 1 .. Len(H)
      BY <1>3
    <3> QED  BY <1>3, <3>1, ElementOfSeq
  <2>2. /\ SubSeq(H, 5, 6) \in Seq(Nat)
        /\ Len(SubSeq(H, 5, 6)) = IF 5 <= 6 THEN 6 - 5 + 1 ELSE 0
        /\ \A j \in 1 .. 6 - 5 + 1 : SubSeq(H, 5, 6)[j] = H[5 + j - 1]
    <3>1. 5 \in Int /\ 6 \in Int
      OBVIOUS
    <3> QED  BY <2>1, <3>1, SubSeqProperties
  <2>3. H[5] = x[1] /\ H[6] = x[2]
    <3>1. \A j \in 1 .. Len(i) + Len(x) : (i ++ x)[j] = IF j <= Len(i) THEN i[j] ELSE x[j - Len(i)]
      BY <1>2, JoinIs
    <3> QED  BY <1>2, <3>1
  <2>4. x[1] = s[1] /\ x[2] = s[2]
    <3>1. \A j \in 1 .. Len(s) + Len(n) : (s ++ n)[j] = IF j <= Len(s) THEN s[j] ELSE n[j - Len(s)]
      BY JoinIs
    <3> QED  BY <3>1
  <2> PICK z : z = SubSeq(H, 5, 6)
    OBVIOUS
  <2>5. z \in Seq(Nat) /\ Len(z) = 2 /\ z[1] = s[1] /\ z[2] = s[2]
    BY <2>2, <2>3, <2>4
  <2>6. \A j \in 1 .. 2 : z[j] = s[j]
    <3>1. \A j \in 1 .. 2 : j = 1 \/ j = 2
      OBVIOUS
    <3> QED  BY <2>5, <3>1
  <2>7. z = s
    BY <2>5, <2>6, SeqEqual
  <2> QED  BY <2>7
<1> QED  BY <1>3, <1>4, <1>5, <1>6

LEMMA Cut ==
  ASSUME NEW b \in Seq(Nat), NEW X \in Seq(Nat), NEW c \in Seq(Nat), NEW r \in Seq(Nat),
         NEW T \in Seq(Nat), b ++ X = (c ++ r) ++ T, Len(b) = Len(c)
  PROVE  b = c /\ X = r ++ T
<1>1. (c ++ r) ++ T = c ++ (r ++ T) /\ r ++ T \in Seq(Nat)
  BY Joined, JoinType
<1> DEFINE d == r ++ T
<1>2. b ++ X = c ++ d /\ d \in Seq(Nat)
  BY <1>1
<1> HIDE DEF d
<1>3. b = c /\ X = d
  BY <1>2, SameCut
<1> QED  BY <1>3 DEF d

LEMMA Regroup ==
  ASSUME NEW i \in Seq(Nat), NEW s \in Seq(Nat), NEW n \in Seq(Nat), NEW z \in Seq(Nat)
  PROVE  i ++ (s ++ (n ++ z)) = (i ++ (s ++ n)) ++ z
<1>1. s ++ n \in Seq(Nat) /\ s ++ (n ++ z) = (s ++ n) ++ z
  BY Joined, JoinType
<1> DEFINE y == s ++ n
<1>2. y \in Seq(Nat) /\ s ++ (n ++ z) = y ++ z
  BY <1>1
<1> HIDE DEF y
<1>3. i ++ (y ++ z) = (i ++ y) ++ z
  BY <1>2, Joined
<1> QED  BY <1>2, <1>3 DEF y

LEMMA Prefixed ==
  ASSUME NEW M \in Seq(Items), NEW I \in Seq(Items), NEW J, Len(I) < Len(M),
         \A j \in 1 .. Len(I) : I[j] = M[j], J = Append(I, M[Len(I) + 1])
  PROVE  /\ J \in Seq(Items) /\ Len(J) = Len(I) + 1
         /\ \A j \in 1 .. Len(I) + 1 : J[j] = M[j]
<1> DEFINE k == Len(I)
           it == M[k + 1]
<1>1. k \in Nat /\ Len(M) \in Nat /\ it \in Items
  <2>1. k \in Nat /\ Len(M) \in Nat
    OBVIOUS
  <2>2. k + 1 \in 1 .. Len(M)
    BY <2>1
  <2> QED  BY <2>1, <2>2, ElementOfSeq
<1>2. J = Append(I, it)
  OBVIOUS
<1> HIDE DEF it
<1>3. J \in Seq(Items) /\ Len(J) = Len(I) + 1 /\ J[Len(I) + 1] = it
      /\ \A j \in 1 .. Len(I) : J[j] = I[j]
  BY <1>1, <1>2, AppendProperties
<1>4. ASSUME NEW j \in 1 .. k + 1 PROVE J[j] = M[j]
  <2>1. CASE j = k + 1
    BY <1>3, <2>1 DEF it
  <2>2. CASE j # k + 1
    <3>1. j \in 1 .. k
      BY <1>1, <2>2
    <3> QED  BY <1>3, <3>1
  <2> QED  BY <2>1, <2>2
<1> QED  BY <1>3, <1>4

(* What the service has of an item, and what follows. *)
LEMMA UpWithin ==
  ASSUME Base, NEW t, NEW lost, Spot(t, lost), got.part \in {"item", "data"}
  PROVE  /\ Len(heard) < Len(said) /\ Reads \in Messages /\ Partway(got, Reads)
         /\ PartAhead(FlagOf(Reads.code), Reads.items, Len(got.items))
         /\ Reads.items \in Seq(Items) /\ Len(got.items) \in Nat /\ Len(Reads.items) \in Nat
         /\ Len(got.items) < Len(Reads.items)
         /\ got.bytes \in Seq(Nat) /\ Coming(lost) \in Seq(Nat)
         /\ t[Len(heard) + 1] \in Seq(Nat)
         /\ got.bytes ++ Coming(lost) = Onward ++ t[Len(heard) + 1]
<1>1. /\ got.bytes \in Seq(Nat) /\ Coming(lost) \in Seq(Nat)
      /\ Len(got.items) \in Nat /\ Reads \in Messages /\ Begun = Len(heard) + 1
      /\ t[Begun] \in Seq(Nat) /\ got.bytes ++ Coming(lost) = Onward ++ t[Begun]
  BY Upward
<1>2. Len(heard) < Len(said) /\ Partway(got, Reads)
  BY DEF Spot, UpAt, Held
<1> DEFINE F == FlagOf(Reads.code)
           M == Reads.items
           k == Len(got.items)
<1>3. F \in Nat /\ M \in Seq(Items) /\ Len(M) \in Nat
  BY <1>1, MessageOf
<1>4. k < Len(M)
  BY <1>2 DEF Partway
<1>5. PartAhead(F, M, k)
  <2> HIDE DEF F, M, k
  <2>1. k \in Nat
    BY <1>1 DEF k
  <2> QED  BY <1>3, <1>4, <2>1, PartRest
<1> QED  BY <1>1, <1>2, <1>3, <1>4, <1>5

LEMMA UpItem ==
  ASSUME Base, Base', NEW t, NEW lost, Spot(t, lost), ReadPart, got.part = "item"
  PROVE  UpInv'
<1> DEFINE T == t[Len(heard) + 1]
           X == Coming(lost)
           b == got.bytes
           F == FlagOf(Reads.code)
           M == Reads.items
           k == Len(got.items)
           it == M[k + 1]
           s == Digits(it.state, 2)
           n == Digits(Len(it.data), 4)
           z == it.data ++ Rest(F, M)[k + 1]
           i == it.id
<1>1. /\ Len(heard) < Len(said) /\ PartAhead(F, M, k) /\ Partway(got, Reads) /\ k < Len(M)
      /\ b \in Seq(Nat) /\ X \in Seq(Nat) /\ T \in Seq(Nat) /\ b ++ X = Onward ++ T
  BY UpWithin
<1>2. /\ got'.part = "data" /\ got'.bytes = <<>> /\ Len(b) = 10
      /\ got'.want = Number(Drop(b, 6)) /\ got'.item = b
      /\ got'.flag = got.flag /\ got'.left = got.left /\ got'.items = got.items
  BY ReadItem
<1>3. /\ i \in Seq(Nat) /\ s \in Seq(Nat) /\ n \in Seq(Nat) /\ z \in Seq(Nat)
      /\ Len(i) = 4 /\ Len(s) = 2 /\ Len(n) = 4 /\ Number(n) = Len(it.data)
      /\ Rest(F, M)[k] = i ++ (s ++ (n ++ z))
  BY <1>1 DEF PartAhead
<1>4. Onward = Rest(F, M)[k]
  BY DEF Onward, Remains
<1>5. Heading(it) = i ++ (s ++ n)
  BY DEF Heading
<1> HIDE DEF T, X, b, s, n, z, i, F, M, k, it
<1> DEFINE H == i ++ (s ++ n)
<1>6. H \in Seq(Nat) /\ Len(H) = 10 /\ Drop(H, 6) = n
  BY <1>3, HeadingIs
<1>7. i ++ (s ++ (n ++ z)) = H ++ z
  BY <1>3, Regroup
<1> HIDE DEF H
<1>8. b = H /\ X = z ++ T
  <2>1. b ++ X = (H ++ z) ++ T
    BY <1>1, <1>3, <1>4, <1>7
  <2>2. Len(b) = Len(H)
    BY <1>2, <1>6
  <2>3. /\ b \in Seq(Nat) /\ X \in Seq(Nat) /\ H \in Seq(Nat) /\ z \in Seq(Nat) /\ T \in Seq(Nat)
    BY <1>1, <1>3, <1>6
  <2> QED  BY <2>1, <2>2, <2>3, Cut
<1>9. got'.want = Len(it.data) /\ got'.item = Heading(it)
  BY <1>2, <1>3, <1>5, <1>6, <1>8 DEF H
<1>10. Partway(got', Reads)
  BY <1>1, <1>2, <1>9 DEF Partway, it, M, k
<1>11. Remains(got', Reads) = z
  BY <1>2 DEF Remains, z, it, F, M, k
<1>12. Coming(lost) = Remains(got', Reads) ++ t[Len(heard) + 1]
  BY <1>8, <1>11 DEF X, T
<1>13. got'.part # "head"
  BY <1>2
<1> QED  BY <1>1, <1>2, <1>10, <1>12, <1>13, UpPart

LEMMA UpData ==
  ASSUME Base, Base', NEW t, NEW lost, Spot(t, lost), ReadPart, got.part = "data"
  PROVE  UpInv'
<1> DEFINE T == t[Len(heard) + 1]
           X == Coming(lost)
           b == got.bytes
           F == FlagOf(Reads.code)
           M == Reads.items
           k == Len(got.items)
           it == M[k + 1]
           d == it.data
           r == Rest(F, M)[k + 1]
           J == got'.items
<1>1. /\ Len(heard) < Len(said) /\ PartAhead(F, M, k) /\ Partway(got, Reads) /\ k < Len(M)
      /\ b \in Seq(Nat) /\ X \in Seq(Nat) /\ T \in Seq(Nat) /\ b ++ X = Onward ++ T
      /\ M \in Seq(Items) /\ k \in Nat /\ Len(M) \in Nat /\ Reads \in Messages
  BY UpWithin
<1>2. /\ AtNext(got') /\ Len(b) = got.want /\ got'.left = got.left - 1 /\ got'.flag = got.flag
      /\ J = Append(got.items, [id |-> Take(got.item, 4), state |-> Number(SubSeq(got.item, 5, 6)),
                                data |-> b])
  BY ReadData
<1>3. /\ d \in Seq(Nat) /\ r \in Seq(Nat) /\ it \in Items
  BY <1>1 DEF PartAhead
<1>4. Onward = d ++ r
  BY DEF Onward, Remains
<1>5. /\ got.want = Len(d) /\ got.item = Heading(it) /\ got.left = Len(M) - k
      /\ got.flag = F /\ got.items \in Seq(Items) /\ \A j \in 1 .. k : got.items[j] = M[j]
  BY <1>1 DEF Partway
<1>6. Take(got.item, 4) = it.id /\ Number(SubSeq(got.item, 5, 6)) = it.state
  <2> DEFINE i == it.id
             s == Digits(it.state, 2)
             n == Digits(Len(it.data), 4)
  <2>1. /\ i \in Seq(Nat) /\ s \in Seq(Nat) /\ n \in Seq(Nat)
        /\ Len(i) = 4 /\ Len(s) = 2 /\ Len(n) = 4 /\ Number(s) = it.state
    BY <1>1 DEF PartAhead
  <2>2. got.item = i ++ (s ++ n)
    BY <1>5 DEF Heading
  <2> HIDE DEF i, s, n
  <2>3. Take(got.item, 4) = i /\ SubSeq(got.item, 5, 6) = s
    BY <2>1, <2>2, HeadingIs
  <2> QED  BY <2>1, <2>3 DEF i
<1> HIDE DEF T, X, b, F, M, k, it, d, r, J
<1>7. b = d /\ X = r ++ T
  <2>1. b ++ X = (d ++ r) ++ T /\ Len(b) = Len(d)
    BY <1>1, <1>2, <1>4, <1>5
  <2>2. /\ b \in Seq(Nat) /\ X \in Seq(Nat) /\ d \in Seq(Nat) /\ r \in Seq(Nat) /\ T \in Seq(Nat)
    BY <1>1, <1>3
  <2> QED  BY <2>1, <2>2, Cut
<1>8. J = Append(got.items, it)
  <2>1. it = [id |-> it.id, state |-> it.state, data |-> it.data]
    BY <1>3, ItemsAre, RecordIs
  <2> QED  BY <1>2, <1>6, <1>7, <2>1 DEF d
<1>9. J \in Seq(Items) /\ Len(J) = k + 1 /\ \A j \in 1 .. k + 1 : J[j] = M[j]
  <2>1. got.items \in Seq(Items) /\ \A j \in 1 .. Len(got.items) : got.items[j] = M[j]
    BY <1>5 DEF k
  <2>2. J = Append(got.items, M[Len(got.items) + 1]) /\ Len(got.items) < Len(M)
    BY <1>1, <1>8 DEF k, it
  <2>3. M \in Seq(Items)
    BY <1>1
  <2> QED  BY <2>1, <2>2, <2>3, Prefixed DEF k
<1>10. got'.left = Len(M) - (k + 1) /\ k + 1 <= Len(M) /\ (got'.left # 0 => k + 1 < Len(M))
       /\ (got'.left = 0 => k + 1 = Len(M))
  <2>1. k \in Nat /\ Len(M) \in Nat /\ k < Len(M) /\ got'.left = (Len(M) - k) - 1
    BY <1>1, <1>2, <1>5
  <2> QED  BY <2>1
<1>11. /\ got'.part = IF got'.left = 0 THEN "end" ELSE "item"
       /\ got'.left = 0 => got'.want = 0
       /\ got'.bytes = <<>>
  BY <1>2 DEF AtNext
<1>12. Partway(got', Reads)
  <2>1. /\ got'.flag = F /\ Len(got'.items) = k + 1 /\ got'.items \in Seq(Items)
        /\ \A j \in 1 .. k + 1 : got'.items[j] = M[j]
    BY <1>2, <1>5, <1>9 DEF J
  <2> QED  BY <1>10, <1>11, <2>1 DEF Partway, F, M
<1>13. Remains(got', Reads) = r
  <2>1. Len(got'.items) = k + 1
    BY <1>9 DEF J
  <2>2. got'.part = "item" => Remains(got', Reads) = r
    BY <2>1 DEF Remains, r, F, M
  <2>3. got'.part = "end" => Remains(got', Reads) = <<>>
    BY DEF Remains
  <2>4. got'.part = "end" => r = <<>>
    <3>1. Rest(F, M)[Len(M)] = <<>>
      <4>1. F \in Nat /\ M \in Seq(Record)
        BY <1>1, MessageOf, ItemsAre DEF F
      <4> QED  BY <4>1, RestIs
    <3>2. got'.part = "end" => k + 1 = Len(M)
      BY <1>10, <1>11
    <3> QED  BY <3>1, <3>2 DEF r
  <2> QED  BY <1>11, <2>2, <2>3, <2>4
<1>14. Coming(lost) = Remains(got', Reads) ++ t[Len(heard) + 1]
  BY <1>7, <1>13 DEF X, T
<1>15. got'.part # "head"
  BY <1>11
<1> QED  BY <1>1, <1>11, <1>12, <1>14, <1>15, UpPart

(* A message is complete: it is the next of those that are said. *)
LEMMA MessageRead ==
  ASSUME Base, NEW t, NEW lost, Spot(t, lost), ReadMessage
  PROVE  /\ heard' = Append(heard, Reads) /\ Reads \in Messages
         /\ Len(heard) + 1 \in 1 .. Len(said)
         /\ got.bytes = <<>> /\ Onward = <<>> /\ Begun = Len(heard) + 1
<1>1. got.part = "end" /\ heard' = Append(heard, [code |-> CodeOf(got.flag), items |-> got.items])
  BY DEF ReadMessage
<1>2. Reads \in Messages /\ Len(heard) + 1 \in 1 .. Len(said) /\ Begun = Len(heard) + 1
  BY <1>1, Upward
<1>3. Partway(got, Reads)
  BY <1>1 DEF Spot, UpAt, Held
<1> DEFINE m == Reads
<1>4. /\ got.flag = FlagOf(m.code) /\ got.items \in Seq(Items) /\ Len(got.items) = Len(m.items)
      /\ got.bytes = <<>> /\ \A j \in 1 .. Len(got.items) : got.items[j] = m.items[j]
  BY <1>1, <1>3 DEF Partway
<1> HIDE DEF m
<1>5. m.items \in Seq(Items) /\ CodeOf(FlagOf(m.code)) = m.code /\ m = [code |-> m.code, items |-> m.items]
  BY <1>2, MessageOf DEF m
<1>6. got.items = m.items
  BY <1>4, <1>5, SeqEqual
<1>7. heard' = Append(heard, m)
  BY <1>1, <1>4, <1>5, <1>6
<1>8. Onward = <<>>
  BY <1>1 DEF Onward, Remains
<1> QED  BY <1>2, <1>4, <1>7, <1>8 DEF m

LEMMA UpMessage ==
  ASSUME Base, NEW t, NEW lost, Spot(t, lost), ReadMessage
  PROVE  UpInv'
<1>1. /\ heard' = Append(heard, Reads) /\ Reads \in Messages /\ Len(heard) + 1 \in 1 .. Len(said)
      /\ got.bytes = <<>> /\ Onward = <<>> /\ Begun = Len(heard) + 1
  BY MessageRead
<1>2. UNCHANGED <<up, mout, tout, said, wpc>> /\ got' = NoMessage
  BY DEF ReadMessage, worker, sends
<1>3. heard \in Seq(Messages) /\ Len(heard) \in Nat /\ Len(said) \in Nat
  BY DEF Spot
<1>4. Len(heard') = Len(heard) + 1 /\ Len(heard') <= Len(said')
  <2>1. Len(heard') = Len(heard) + 1
    BY <1>1, <1>3, AppendProperties
  <2> QED  BY <1>1, <1>2, <1>3, <2>1
<1>5. got'.part = "head" /\ got'.bytes = <<>>
  BY <1>2, NoMessageIs
<1>6. Held' /\ Onward' = <<>> /\ Begun' = Begun
  BY <1>1, <1>4, <1>5 DEF Held, Onward, Remains, Begun
<1>7. Coming(lost)' = Coming(lost)
  BY <1>2 DEF Coming
<1>8. got'.bytes ++ Coming(lost)' = Onward' ++ t[Begun']
  <2>1. got.bytes ++ Coming(lost) = Onward ++ t[Begun]
    BY Upward
  <2> QED  BY <1>1, <1>5, <1>6, <1>7, <2>1
<1>9. lost \in Seq(Nat) /\ (lost = <<>> \/ wpc' \in {"close", "closed"})
  BY <1>2 DEF Spot, UpAt
<1>10. UpAt(t, lost)'
  BY <1>4, <1>6, <1>8, <1>9 DEF UpAt
<1>11. Splits(t, Len(said), Spoken)'
  BY <1>2 DEF Spot, Splits, Spoken
<1> QED  BY <1>9, <1>10, <1>11 DEF UpInv

(* What keeps the two ends together never comes back once it is gone. *)
LEMMA LevelBefore ==
  ASSUME Base, [WNext]_wVars, Level'
  PROVE  Level
<1>1. CASE SendMessage \/ WriteSome \/ ReadSome \/ ReadPart \/ ReadMessage \/ Delivered
  <2>1. UNCHANGED <<open, torn, short, wpc>> /\ (wpc = "closed" => ~WriteSome)
    BY <1>1
       DEF SendMessage, WriteSome, ReadSome, ReadPart, ReadMessage, Delivered, worker, sends, faults
  <2>2. wpc = "closed" => sv' \in {"reading", "delivering"}
    BY <2>1 DEF Level
  <2>3. wpc = "closed" => sv \in {"reading", "delivering"}
    BY <1>1, <2>1, <2>2 DEF SendMessage, ReadSome, ReadPart, ReadMessage, Delivered
  <2> QED  BY <2>1, <2>3 DEF Level
<1>2. CASE SocketError
  <2>1. wpc' = "closed"
    BY <1>2 DEF SocketError, worker
  <2>2. sv' \in {"gone", "idle"}
    <3>1. sv' = "gone" \/ sv' = (IF AfterEvent THEN "idle" ELSE "gone")
      BY <1>2 DEF SocketError
    <3>2. AfterEvent \/ ~AfterEvent
      OBVIOUS
    <3> QED  BY <3>1, <3>2
  <2> QED  BY <2>1, <2>2 DEF Level
<1>3. CASE \E field \in DOMAIN Header : Recv(field)
  <2>1. PICK field \in DOMAIN Header : Recv(field)
    BY <1>3
  <2>2. wpc # "closed"
    BY <2>1 DEF Recv, Header
  <2>3. UNCHANGED <<open, torn>>
    BY <2>1 DEF Recv, sends
  <2>4. short' = (short \/ (open /\ Len(down) < Header[field]))
    BY <2>1 DEF Recv
  <2>5. short => short'
    BY <2>4, Zenon
  <2> QED  BY <2>2, <2>3, <2>5 DEF Level
<1>4. CASE LoopHead \/ Close \/ RecvPayload \/ KeepItem \/ ReceiveTimeout
  <2>1. UNCHANGED <<open, short, torn, sv>>
    BY <1>4 DEF LoopHead, Close, RecvPayload, KeepItem, ReceiveTimeout, service, sends, faults
  <2>2. wpc # "closed"
    BY <1>4 DEF LoopHead, Close, RecvPayload, KeepItem, ReceiveTimeout, Receiving
  <2> QED  BY <2>1, <2>2 DEF Level
<1>5. CASE Reply \/ ReplySome \/ ReplyFails \/ Emit \/ EventSome \/ EventFails
  <2>1. UNCHANGED <<open, sv, short>>
    BY <1>5 DEF Reply, ReplySome, ReplyFails, Emit, EventSome, EventFails, service, faults
  <2>3. Reply => (torn' = (torn \/ tpc = "sending"))
    BY DEF Reply
  <2>4. Reply => (torn => torn')
    BY <2>3, Zenon
  <2>5. torn => torn'
    BY <1>5, <2>4 DEF ReplySome, ReplyFails, Emit, EventSome, EventFails
  <2>2. wpc = "closed" => wpc' = "closed"
    BY <1>5 DEF Reply, ReplySome, ReplyFails, Emit, EventSome, EventFails, worker
  <2> QED  BY <2>1, <2>2, <2>5 DEF Level
<1>6. CASE Break \/ Shutdown \/ UNCHANGED wVars
  <2>1. CASE Break
    BY <2>1 DEF Break, Level
  <2>2. CASE Shutdown
    BY <2>2 DEF Shutdown, Level, service, worker, sends, faults
  <2>3. CASE UNCHANGED wVars
    BY <2>3 DEF wVars, Level, service, worker, sends, faults
  <2> QED  BY <1>6, <2>1, <2>2, <2>3
<1>7. RecvFlag \/ RecvBatch \/ RecvId \/ RecvState \/ RecvLength =>
        \E field \in DOMAIN Header : Recv(field)
  BY DEF RecvFlag, RecvBatch, RecvId, RecvState, RecvLength, Header
<1> QED
  BY <1>1, <1>2, <1>3, <1>4, <1>5, <1>6, <1>7
     DEF WNext, ConnectionTask, MainThread, StreamingThread

LEMMA SpotNow ==
  ASSUME KeptWell, Heard, UpInv, Level
  PROVE  \E t, lost : Spot(t, lost)
<1>1. said \in Seq(Messages) /\ heard \in Seq(Messages)
  BY DEF KeptWell, Heard, Level
<1>2. PICK t : Splits(t, Len(said), Spoken) /\ \E lost \in Seq(Nat) : UpAt(t, lost)
  BY DEF UpInv
<1>3. PICK lost \in Seq(Nat) : UpAt(t, lost)
  BY <1>2
<1> QED  BY <1>1, <1>2, <1>3 DEF Spot

(* A reply, or an event, is begun. *)
LEMMA UpBegin ==
  ASSUME Base, NEW t, NEW lost, Spot(t, lost), KeptWell, ~short, Emit \/ (Reply /\ tpc # "sending")
  PROVE  UpInv'
<1>1. wpc = "forward" /\ mout = <<>> /\ tout = <<>> /\ wpc \notin {"close", "closed"}
  BY DEF Emit, Reply, Base
<1>2. UNCHANGED <<got, heard, up>>
  BY DEF Emit, Reply, service
<1>3. \E flag \in {1, 8, STREAM_EVENT} : \E items \in Seq(Items) : Begins(flag, items)
  <2>1. CASE Emit
    <3>1. /\ tout' = Message(STREAM_EVENT, Event) /\ tout' \in Seq(Nat)
          /\ said' = Append(said, [code |-> CodeOf(STREAM_EVENT), items |-> Event])
      BY <2>1, EmitIs
    <3>2. Event \in Seq(Items) /\ Len(Event) = 1
      BY <2>1, EventItem
    <3>3. Len(Event) <= 65535
      BY <3>2
    <3>4. mout' = <<>>
      BY <1>1, <2>1 DEF Emit
    <3>5. mout' ++ tout' = Message(STREAM_EVENT, Event)
      BY <3>1, <3>4, JoinNone
    <3>6. Begins(STREAM_EVENT, Event)
      BY <1>1, <1>2, <3>1, <3>3, <3>5 DEF Begins
    <3> QED  BY <3>2, <3>6
  <2>2. CASE Reply
    <3>1. PICK flag \in {1, 8} :
            /\ mout' = Message(flag, rcv.items) /\ mout' \in Seq(Nat)
            /\ said' = Append(said, [code |-> CodeOf(flag), items |-> rcv.items])
      BY <2>2, ReplyIs
    <3>2. rcv.items \in Seq(Items) /\ Len(rcv.items) <= 65535
      BY <1>1 DEF KeptWell, Kept
    <3>3. tout' = <<>>
      BY <1>1, <2>2 DEF Reply
    <3>4. mout' ++ tout' = Message(flag, rcv.items)
      BY <3>1, <3>3, JoinNone
    <3>5. Begins(flag, rcv.items)
      BY <1>1, <1>2, <3>1, <3>2, <3>4 DEF Begins
    <3> QED  BY <3>2, <3>5
  <2> QED  BY <2>1, <2>2
<1>4. PICK flag \in {1, 8, STREAM_EVENT} : \E items \in Seq(Items) : Begins(flag, items)
  BY <1>3
<1>5. PICK items \in Seq(Items) : Begins(flag, items)
  BY <1>4
<1> QED  BY <1>5, UpMore

LEMMA UpStep ==
  ASSUME Base, Base', KeptWell, Heard, UpInv, [WNext]_wVars
  PROVE  UpInv'
<1> SUFFICES ASSUME Level' PROVE UpInv'
  BY DEF UpInv
<1>1. Level /\ open /\ ~short /\ ~torn
  BY LevelBefore DEF Level
<1>2. PICK t, lost : Spot(t, lost)
  BY <1>1, SpotNow
<1>3. open' /\ ~torn' /\ (wpc' = "closed" => sv' \in {"reading", "delivering"})
  BY DEF Level
<1>4. CASE SendMessage \/ WriteSome \/ Delivered
  BY <1>2, <1>4, UpFrame DEF SendMessage, WriteSome, Delivered, worker, sends
<1>5. CASE ReadSome
  BY <1>1, <1>2, <1>5, UpRead
<1>6. CASE ReadPart
  <2>1. got.part \in {"head", "item", "data"}
    BY <1>6, ParseIs DEF ReadPart, Base, Reading
  <2> QED  BY <1>2, <1>6, <2>1, UpHead, UpItem, UpData
<1>7. CASE ReadMessage
  BY <1>2, <1>7, UpMessage
<1>8. CASE SocketError \/ Break \/ EventFails
  <2>1. ~SocketError
    <3>1. SocketError => wpc' = "closed" /\ sv' \in {"gone", "idle"}
      <4>1. SocketError => wpc' = "closed"
        BY DEF SocketError, worker
      <4>2. SocketError => sv' = "gone" \/ sv' = (IF AfterEvent THEN "idle" ELSE "gone")
        BY DEF SocketError
      <4>3. AfterEvent \/ ~AfterEvent
        OBVIOUS
      <4> QED  BY <4>1, <4>2, <4>3
    <3> QED  BY <1>3, <3>1
  <2> QED  BY <1>3, <1>8, <2>1 DEF Break, EventFails
<1>9. CASE \E field \in DOMAIN Header : Recv(field)
  <2>1. PICK field \in DOMAIN Header : Recv(field)
    BY <1>9
  <2>2. wpc \notin {"close", "closed"} /\ UNCHANGED <<got, heard, said, up, mout, tout>>
    BY <2>1 DEF Recv, Header, service, sends
  <2> QED  BY <1>2, <2>2, UpFrame
<1>10. CASE LoopHead \/ Close \/ RecvPayload \/ KeepItem \/ ReceiveTimeout
  <2>1. UNCHANGED <<got, heard, said, up, mout, tout>>
    BY <1>10 DEF LoopHead, Close, RecvPayload, KeepItem, ReceiveTimeout, service, sends
  <2>2. wpc \in {"close", "closed"} => wpc' = "closed"
    BY <1>10 DEF LoopHead, Close, RecvPayload, KeepItem, ReceiveTimeout, Goto, Receiving
  <2> QED  BY <1>2, <2>1, <2>2, UpFrame
<1>11. CASE Reply
  <2>1. torn' = (torn \/ tpc = "sending")
    BY <1>11 DEF Reply
  <2>2. tpc # "sending"
    BY <1>3, <2>1, Zenon
  <2> QED  BY <1>1, <1>2, <1>11, <2>2, UpBegin
<1>12. CASE Emit
  BY <1>1, <1>2, <1>12, UpBegin
<1>13. CASE ReplySome \/ ReplyFails
  BY <1>1, <1>2, <1>13, UpReply
<1>14. CASE EventSome
  BY <1>1, <1>2, <1>14, UpEvent
<1>15. CASE Shutdown
  BY <1>2, <1>15, UpFrame DEF Shutdown, service, worker, sends
<1>16. CASE UNCHANGED wVars
  BY <1>2, <1>16, UpFrame DEF wVars, service, worker, sends
<1>17. RecvFlag \/ RecvBatch \/ RecvId \/ RecvState \/ RecvLength =>
        \E field \in DOMAIN Header : Recv(field)
  BY DEF RecvFlag, RecvBatch, RecvId, RecvState, RecvLength, Header
<1> QED
  BY <1>4, <1>5, <1>6, <1>7, <1>8, <1>9, <1>10, <1>11, <1>12, <1>13, <1>14, <1>15, <1>16, <1>17
     DEF WNext, ConnectionTask, MainThread, StreamingThread

(* What the two sides have heard and said only grows. *)
LEMMA Told ==
  ASSUME [WNext]_wVars
  PROVE  \/ UNCHANGED <<heard, said>>
         \/ ReadMessage /\ UNCHANGED said
         \/ (Reply \/ Emit) /\ UNCHANGED heard
<1>1. CASE SendMessage \/ WriteSome \/ ReadSome \/ ReadPart \/ Delivered \/ SocketError \/ Break
  BY <1>1 DEF SendMessage, WriteSome, ReadSome, ReadPart, Delivered, SocketError, Break, sends
<1>2. CASE \E field \in DOMAIN Header : Recv(field)
  BY <1>2 DEF Recv, service, sends
<1>3. CASE LoopHead \/ Close \/ RecvPayload \/ KeepItem \/ ReceiveTimeout
  BY <1>3 DEF LoopHead, Close, RecvPayload, KeepItem, ReceiveTimeout, service, sends
<1>4. CASE ReplySome \/ ReplyFails \/ EventSome \/ EventFails
  BY <1>4 DEF ReplySome, ReplyFails, EventSome, EventFails, service
<1>5. CASE Shutdown \/ UNCHANGED wVars
  BY <1>5 DEF Shutdown, wVars, service, sends
<1>6. CASE ReadMessage
  BY <1>6 DEF ReadMessage, sends
<1>7. CASE Reply \/ Emit
  BY <1>7 DEF Reply, Emit, service
<1>8. RecvFlag \/ RecvBatch \/ RecvId \/ RecvState \/ RecvLength =>
        \E field \in DOMAIN Header : Recv(field)
  BY DEF RecvFlag, RecvBatch, RecvId, RecvState, RecvLength, Header
<1> QED
  BY <1>1, <1>2, <1>3, <1>4, <1>5, <1>6, <1>7, <1>8
     DEF WNext, ConnectionTask, MainThread, StreamingThread

LEMMA FaultsStay ==
  ASSUME [WNext]_wVars, ~short', ~torn'
  PROVE  ~short /\ ~torn
<1>1. CASE ConnectionTask \/ Break
  <2>1. UNCHANGED <<sends, faults>>
    BY <1>1 DEF ConnectionTask, SendMessage, WriteSome, ReadSome, ReadPart, ReadMessage, Delivered,
                SocketError, Break
  <2>2. UNCHANGED <<short, torn>>
    BY <2>1 DEF sends, faults
  <2> QED  BY <2>2
<1>2. CASE \E field \in DOMAIN Header : Recv(field)
  <2>1. PICK field \in DOMAIN Header : Recv(field)
    BY <1>2
  <2>2. UNCHANGED torn /\ (short' = (short \/ (open /\ Len(down) < Header[field])))
    BY <2>1 DEF Recv, sends
  <2> QED  BY <2>2, Zenon
<1>3. CASE LoopHead \/ Close \/ RecvPayload \/ KeepItem \/ ReceiveTimeout
  <2>1. UNCHANGED <<short, torn>>
    BY <1>3 DEF LoopHead, Close, RecvPayload, KeepItem, ReceiveTimeout, sends, faults
  <2> QED  BY <2>1
<1>4. CASE ReplySome \/ ReplyFails \/ Emit \/ EventSome \/ EventFails
  BY <1>4 DEF ReplySome, ReplyFails, Emit, EventSome, EventFails, faults
<1>5. CASE Reply
  <2>1. UNCHANGED short /\ (torn' = (torn \/ tpc = "sending"))
    BY <1>5 DEF Reply, faults
  <2> QED  BY <2>1, Zenon
<1>6. CASE Shutdown \/ UNCHANGED wVars
  BY <1>6 DEF Shutdown, wVars, sends, faults
<1>7. RecvFlag \/ RecvBatch \/ RecvId \/ RecvState \/ RecvLength =>
        \E field \in DOMAIN Header : Recv(field)
  BY DEF RecvFlag, RecvBatch, RecvId, RecvState, RecvLength, Header
<1> QED
  BY <1>1, <1>2, <1>3, <1>4, <1>5, <1>6, <1>7 DEF WNext, MainThread, StreamingThread

LEMMA HeardStep ==
  ASSUME Base, KeptWell, Heard, UpInv, [WNext]_wVars
  PROVE  Heard'
<1> SUFFICES ASSUME ~short', ~torn' PROVE Heard'
  BY DEF Heard
<1>1. ~short /\ ~torn
  BY FaultsStay
<1>2. /\ Len(heard) <= Len(said) /\ heard \in Seq(Messages) /\ said \in Seq(Messages)
      /\ Len(heard) \in Nat /\ Len(said) \in Nat
      /\ \A i \in 1 .. Len(heard) : heard[i] = said[i]
  BY <1>1 DEF Heard, KeptWell
<1>3. CASE UNCHANGED <<heard, said>>
  BY <1>2, <1>3 DEF Heard
<1>4. CASE ReadMessage /\ UNCHANGED said
  <2>1. Level
    BY <1>1, <1>4 DEF Level, ReadMessage, Base
  <2>2. PICK t, lost : Spot(t, lost)
    BY <2>1, SpotNow
  <2>3. heard' = Append(heard, Reads) /\ Reads \in Messages /\ Len(heard) + 1 \in 1 .. Len(said)
    BY <1>4, <2>2, MessageRead
  <2>4. /\ heard' \in Seq(Messages) /\ Len(heard') = Len(heard) + 1 /\ heard'[Len(heard) + 1] = Reads
        /\ \A i \in 1 .. Len(heard) : heard'[i] = heard[i]
    BY <1>2, <2>3, AppendProperties
  <2>5. Reads = said[Len(heard) + 1]
    BY DEF Reads
  <2>6. \A i \in 1 .. Len(heard) + 1 : i \in 1 .. Len(heard) \/ i = Len(heard) + 1
    BY <1>2
  <2>7. \A i \in 1 .. Len(heard') : heard'[i] = said'[i]
    BY <1>2, <1>4, <2>4, <2>5, <2>6
  <2>8. Len(heard') <= Len(said')
    BY <1>2, <1>4, <2>3, <2>4
  <2> QED  BY <2>4, <2>7, <2>8 DEF Heard
<1>5. CASE (Reply \/ Emit) /\ UNCHANGED heard
  <2>1. \E m : said' = Append(said, m)
    BY <1>5, ReplyIs, EmitIs
  <2>2. PICK m : said' = Append(said, m)
    BY <2>1
  <2>3. Len(said') = Len(said) + 1 /\ \A i \in 1 .. Len(said) : said'[i] = said[i]
    <3>1. said \in Seq(Messages \cup {m}) /\ m \in Messages \cup {m}
      BY <1>2, SeqMonotonic
    <3> QED  BY <2>2, <3>1, AppendProperties
  <2>4. \A i \in 1 .. Len(heard) : i \in 1 .. Len(said)
    BY <1>2
  <2> QED  BY <1>2, <1>5, <2>3, <2>4 DEF Heard
<1> QED  BY <1>3, <1>4, <1>5, Told

(* read_message takes what send of the two threads wrote one message after *)
(* the other, part by part, until an event is torn, a header field was     *)
(* read short or the connection ends.                                      *)
THEOREM UpHolds == WSpec => [](Heard /\ UpInv)
<1>1. WInit => Heard /\ UpInv
  <2> SUFFICES ASSUME WInit PROVE Heard /\ UpInv
    OBVIOUS
  <2>1. /\ <<>> \in Seq(Nat) /\ <<>> \in Seq(Messages) /\ Len(<<>>) = 0
    BY EmptySeq
  <2>2. /\ heard = <<>> /\ said = <<>> /\ up = <<>> /\ mout = <<>> /\ tout = <<>> /\ got = NoMessage
    BY DEF WInit
  <2>3. Heard
    BY <2>1, <2>2 DEF Heard
  <2>4. PICK t : t = [k \in 0 .. 0 |-> <<>>]
    OBVIOUS
  <2>5. t[0] = <<>>
    BY <2>4
  <2>6. Splits(t, Len(said), Spoken)
    BY <2>1, <2>2, <2>4, <2>5 DEF Splits
  <2>7. got.part = "head" /\ got.bytes = <<>>
    BY <2>2, NoMessageIs
  <2>8. Held /\ Onward = <<>> /\ Begun = 0
    BY <2>1, <2>2, <2>7 DEF Held, Onward, Remains, Begun
  <2>9. <<>> ++ <<>> = <<>>
    BY <2>1, JoinNone
  <2>10. UpAt(t, <<>>)
    BY <2>1, <2>2, <2>5, <2>7, <2>8, <2>9 DEF UpAt, Coming
  <2> QED  BY <2>1, <2>3, <2>6, <2>10 DEF UpInv
<1>2. Base /\ Base' /\ KeptWell /\ (Heard /\ UpInv) /\ [WNext]_wVars => (Heard /\ UpInv)'
  BY HeardStep, UpStep
<1> QED  BY <1>1, <1>2, BaseHolds, KeptHolds, PTL DEF WSpec

(* The service hears what the worker said, in that order, with the codes,  *)
(* ids and payloads it said, however the socket cuts it: unless a field of *)
(* a header was read short, or the worker's two threads cut or overlap     *)
(* each other's messages.                                                  *)
THEOREM RightRepliesHold == WSpec => []RightReplies
<1>1. Heard /\ Base /\ KeptWell => RightReplies
  <2> SUFFICES ASSUME Heard, KeptWell, ~short, ~torn PROVE IsPrefix(heard, said)
    BY DEF RightReplies
  <2>1. /\ Len(heard) <= Len(said) /\ heard \in Seq(Messages) /\ said \in Seq(Messages)
        /\ \A i \in 1 .. Len(heard) : heard[i] = said[i]
    BY DEF Heard, KeptWell
  <2>2. Len(heard) \in Nat /\ Len(said) \in Nat
    BY <2>1
  <2>3. \A i \in 1 .. Len(heard) : i \in 1 .. Len(said)
    BY <2>1, <2>2
  <2>4. SubSeq(said, 1, Len(heard)) = SubSeq(heard, 1, Len(heard))
    <3>1. SubSeq(said, 1, Len(heard)) = [i \in 1 .. Len(heard) |-> said[i]]
      OBVIOUS
    <3>2. SubSeq(heard, 1, Len(heard)) = [i \in 1 .. Len(heard) |-> heard[i]]
      OBVIOUS
    <3> QED  BY <2>1, <3>1, <3>2
  <2> QED  BY <2>1, <2>4 DEF IsPrefix
<1> QED  BY <1>1, UpHolds, BaseHolds, KeptHolds, PTL

-----------------------------------------------------------------------------
(* The batch the service waits for. *)
LEMMA CodeIs ==
  ASSUME NEW flag
  PROVE  CodeOf(flag) \in Codes
<1> DEFINE P(b) == Bit(flag, b)
<1>1. CodeOf(flag) = IF P(1) THEN "Normal"
                     ELSE IF P(2) THEN "BadRequestError"
                     ELSE IF P(4) THEN "ValidationError"
                     ELSE IF P(16) THEN "TimeoutError"
                     ELSE IF P(STREAM_EVENT) THEN "StreamEvent"
                     ELSE "InternalError"
  BY DEF CodeOf
<1> HIDE DEF P
<1> QED  BY <1>1, Zenon DEF Codes

LEMMA AskedStep ==
  ASSUME Base, Asked, [WNext]_wVars
  PROVE  Asked'
<1> DEFINE R == [code : Codes, items : Seq(Parsed)]
           C == Cardinality(Replies(heard))
<1>1. heard \in Seq(R) /\ sent \in Nat
  <2>1. Len(Work) \in Nat
    BY WireAssumption DEF WorkAssumption
  <2> QED  BY <2>1 DEF Asked, Base
<1>2. C \in Nat
  <2> HIDE DEF R
  <2> QED  BY <1>1, RepliesMore
<1>3. ASSUME UNCHANGED <<heard, sent>>, sv' = "idle" => sv = "idle",
             wpc = "closed" => wpc' = "closed"
      PROVE  Asked'
  <2>1. Cardinality(Replies(heard))' = C
    BY <1>3
  <2>2. wpc' # "closed" => sent <= C + (IF sv = "idle" THEN 0 ELSE 1)
    BY <1>3 DEF Asked
  <2>3. wpc' # "closed" => sent' <= C + (IF sv' = "idle" THEN 0 ELSE 1)
    <3> HIDE DEF C
    <3> QED  BY <1>1, <1>2, <1>3, <2>2
  <2> QED  BY <1>1, <1>3, <2>1, <2>3 DEF Asked
<1>4. CASE SendMessage
  <2>1. /\ UNCHANGED <<heard, wpc>> /\ sent' = sent + 1 /\ sv = "idle" /\ sv' = "writing"
    BY <1>4 DEF SendMessage, worker
  <2>2. Cardinality(Replies(heard))' = C
    BY <2>1
  <2>3. wpc # "closed" => sent <= C + 0
    BY <2>1 DEF Asked
  <2>4. wpc' # "closed" => sent' <= C + 1
    <3> HIDE DEF C
    <3> QED  BY <1>1, <1>2, <2>1, <2>3
  <2> QED  BY <1>1, <2>1, <2>2, <2>4 DEF Asked
<1>5. CASE ReadMessage
  <2> DEFINE m == [code |-> CodeOf(got.flag), items |-> got.items]
  <2>1. /\ UNCHANGED <<sent, wpc>> /\ heard' = Append(heard, m) /\ sv = "reading"
        /\ sv' = IF CodeOf(got.flag) = "StreamEvent" THEN "delivering" ELSE "idle"
    BY <1>5 DEF ReadMessage, worker
  <2>2. m \in R /\ m.code = CodeOf(got.flag)
    <3>1. CodeOf(got.flag) \in Codes
      BY CodeIs
    <3>2. got.items \in Seq(Parsed)
      BY ParseIs DEF Base, Reading
    <3> QED  BY <3>1, <3>2
  <2> HIDE DEF m, R
  <2>3. heard' \in Seq(R)
    BY <1>1, <2>1, <2>2
  <2>4. wpc # "closed" => sent <= C + 1
    BY <2>1 DEF Asked
  <2>5. /\ m.code = "StreamEvent" => Cardinality(Replies(heard))' = C
        /\ m.code # "StreamEvent" => Cardinality(Replies(heard))' = C + 1
    BY <1>1, <2>1, RepliesMore
  <2> DEFINE D == Cardinality(Replies(heard))'
  <2>6. wpc' # "closed" => sent' <= D + (IF sv' = "idle" THEN 0 ELSE 1)
    <3>1. m.code = "StreamEvent" => D = C /\ sv' = "delivering"
      BY <2>1, <2>2, <2>5
    <3>2. m.code # "StreamEvent" => D = C + 1 /\ sv' = "idle"
      BY <2>1, <2>2, <2>5
    <3> HIDE DEF C, D
    <3> QED  BY <1>1, <1>2, <2>1, <2>4, <3>1, <3>2
  <2> QED  BY <2>3, <2>6 DEF Asked, R
<1>6. CASE WriteSome \/ ReadSome \/ ReadPart \/ Delivered \/ Break
  BY <1>3, <1>6 DEF WriteSome, ReadSome, ReadPart, Delivered, Break, worker
<1>7. CASE SocketError
  <2>1. UNCHANGED <<sent, heard>> /\ wpc' = "closed"
    BY <1>7 DEF SocketError, worker
  <2> QED  BY <1>1, <2>1 DEF Asked
<1>8. CASE \E field \in DOMAIN Header : Recv(field)
  <2>1. PICK field \in DOMAIN Header : Recv(field)
    BY <1>8
  <2>2. UNCHANGED <<heard, sent, sv>> /\ wpc # "closed"
    BY <2>1 DEF Recv, Header, service
  <2> QED  BY <1>3, <2>2
<1>9. CASE LoopHead \/ Close \/ RecvPayload \/ KeepItem \/ ReceiveTimeout
  <2>1. UNCHANGED <<heard, sent, sv>>
    BY <1>9 DEF LoopHead, Close, RecvPayload, KeepItem, ReceiveTimeout, service
  <2>2. wpc # "closed"
    BY <1>9 DEF LoopHead, Close, RecvPayload, KeepItem, ReceiveTimeout, Receiving
  <2> QED  BY <1>3, <2>1, <2>2
<1>10. CASE Reply \/ ReplySome \/ ReplyFails \/ Emit \/ EventSome \/ EventFails
  <2>1. UNCHANGED <<heard, sent, sv>>
    BY <1>10 DEF Reply, ReplySome, ReplyFails, Emit, EventSome, EventFails, service
  <2>2. wpc = "closed" => wpc' = "closed"
    BY <1>10 DEF Reply, ReplySome, ReplyFails, Emit, EventSome, EventFails, worker
  <2> QED  BY <1>3, <2>1, <2>2
<1>11. CASE Shutdown \/ UNCHANGED wVars
  BY <1>3, <1>11 DEF Shutdown, wVars, service, worker
<1>12. RecvFlag \/ RecvBatch \/ RecvId \/ RecvState \/ RecvLength =>
        \E field \in DOMAIN Header : Recv(field)
  BY DEF RecvFlag, RecvBatch, RecvId, RecvState, RecvLength, Header
<1> QED
  BY <1>4, <1>5, <1>6, <1>7, <1>8, <1>9, <1>10, <1>11, <1>12
     DEF WNext, ConnectionTask, MainThread, StreamingThread

(* communicate sends a batch only after a reply, which is no stream event, *)
(* to each of the batches before it.                                       *)
THEOREM AskedHolds == WSpec => []Asked
<1>1. WInit => Asked
  <2> SUFFICES ASSUME WInit PROVE Asked
    OBVIOUS
  <2>1. heard = <<>> /\ sent = 0 /\ sv = "idle" /\ Len(<<>>) = 0
    BY DEF WInit
  <2>2. heard \in Seq([code : Codes, items : Seq(Parsed)])
    BY <2>1, EmptySeq
  <2>3. Replies(heard) = {}
    BY <2>1 DEF Replies
  <2> QED  BY <2>1, <2>2, <2>3, FS_EmptySet DEF Asked
<1>2. Base /\ Asked /\ [WNext]_wVars => Asked'
  BY AskedStep
<1> QED  BY <1>1, <1>2, BaseHolds, PTL DEF WSpec

(* What the main thread hands to forward is a batch the service wrote,     *)
(* item by item, in whatever pieces the socket delivered it, and the batch *)
(* the service waits for: with the exceptions WholeBatches names.          *)
THEOREM WholeBatchesHold == WSpec => []WholeBatches
<1>1. Base /\ KeptWell /\ DownInv /\ Heard /\ Asked => WholeBatches
  <2> SUFFICES ASSUME Base, KeptWell, DownInv, Heard, Asked, wpc = "forward", ~short, ~stalled
               PROVE  \E i \in 1 .. sent : rcv.items = Batch(i) /\ (torn \/ i = sent)
    BY DEF WholeBatches
  <2>1. PICK t : \E b \in 0 .. sent : DownAt(b, t)
    BY DEF DownInv
  <2>2. PICK b \in 0 .. sent : DownAt(b, t)
    BY <2>1
  <2>3. Cardinality(Replies(said)) = b - 1 /\ b >= 1 /\ rcv.items = Batch(b)
    BY <2>2 DEF DownAt, Known, Inside
  <2>4. sent \in Nat
    <3>1. Len(Work) \in Nat
      BY WireAssumption DEF WorkAssumption
    <3> QED  BY <3>1 DEF Base
  <2>5. b \in 1 .. sent
    BY <2>2, <2>3, <2>4
  <2>6. ASSUME ~torn PROVE b = sent
    <3>1. /\ Len(heard) <= Len(said) /\ heard \in Seq(Messages) /\ said \in Seq(Messages)
          /\ \A i \in 1 .. Len(heard) : heard[i] = said[i]
      BY <2>6 DEF Heard, KeptWell
    <3>2. Replies(heard) \subseteq Replies(said)
      <4>1. Len(heard) \in Nat /\ Len(said) \in Nat
        BY <3>1
      <4>2. \A i \in 1 .. Len(heard) : i \in 1 .. Len(said)
        BY <3>1, <4>1
      <4> QED  BY <3>1, <4>2 DEF Replies
    <3>3. IsFiniteSet(Replies(said))
      BY <3>1, RepliesMore
    <3>4. /\ Cardinality(Replies(heard)) <= Cardinality(Replies(said))
          /\ Cardinality(Replies(heard)) \in Nat
      BY <3>1, <3>2, <3>3, FS_Subset, RepliesMore
    <3>5. sent <= Cardinality(Replies(heard)) + (IF sv = "idle" THEN 0 ELSE 1)
      BY DEF Asked
    <3> DEFINE c == Cardinality(Replies(heard))
    <3>6. c \in Nat /\ c <= b - 1 /\ sent <= c + (IF sv = "idle" THEN 0 ELSE 1)
      BY <2>3, <3>4, <3>5
    <3> HIDE DEF c
    <3> QED  BY <2>4, <2>5, <3>6
  <2> QED  BY <2>3, <2>5, <2>6
<1> QED  BY <1>1, BaseHolds, KeptHolds, DownHolds, UpHolds, AskedHolds, PTL
=============================================================================
