----------------------------- MODULE DataProofs -----------------------------
(***************************************************************************)
(* Facts about the data, for the proofs about the parts that use it:       *)
(* induction over the numbers and loops, buffers of bytes, and the compact *)
(* ASN.1 encoding.                                                         *)
(*                                                                         *)
(* The induction theorems of the library take a predicate as a parameter,  *)
(* which no prover at hand can instantiate; here the numbers that have a   *)
(* property are a set.  The set of the numbers that do not have it would   *)
(* have a least element, because strict inclusion of finite sets is well   *)
(* founded.                                                                *)
(***************************************************************************)
EXTENDS ASN1Codec, FiniteSetTheorems, SequenceTheorems, TLAPS

(* The least number principle, for sets: of the finite sets 0..n with n in *)
(* T one has no other one inside.                                          *)
LEMMA LeastNumber ==
    ASSUME NEW T \in SUBSET Nat, T # {}
    PROVE  \E n \in T : \A m \in T : n <= m
<1> DEFINE Intervals == {0..n : n \in T}
<1>1. Intervals \subseteq FiniteSubsetsOf(Nat)
  <2>1. \A n \in T : 0..n \in SUBSET Nat /\ IsFiniteSet(0..n)
    BY FS_Interval
  <2> QED BY <2>1 DEF FiniteSubsetsOf
<1>2. Intervals # {}
  OBVIOUS
<1>3. IsWellFoundedOn(StrictSubsetOrdering(Nat), FiniteSubsetsOf(Nat))
  BY FS_StrictSubsetOrderingWellFounded
<1>4. PICK least \in Intervals :
         \A other \in Intervals : <<other, least>> \notin StrictSubsetOrdering(Nat)
  <2> HIDE DEF Intervals
  <2> QED BY <1>1, <1>2, <1>3, WFMin, Zenon
<1>5. PICK n \in T : least = 0..n
  OBVIOUS
<1>6. ASSUME NEW m \in T, m < n PROVE FALSE
  <2>1. 0..m \in SUBSET 0..n /\ 0..m # 0..n
    BY <1>6
  <2>2. 0..m \in SUBSET Nat /\ 0..n \in SUBSET Nat
    OBVIOUS
  <2>3. <<0..m, 0..n>> \notin StrictSubsetOrdering(Nat)
    BY <1>4, <1>5
  <2> QED BY <2>1, <2>2, <2>3 DEF StrictSubsetOrdering
<1> QED BY <1>6

(* A set of numbers that has 0 and the successors of its elements up to n  *)
(* has them all.                                                           *)
LEMMA Induction ==
    ASSUME NEW n \in Nat, NEW T, 0 \in T,
           \A i \in 0..(n - 1) : i \in T => i + 1 \in T
    PROVE  0..n \subseteq T
<1> DEFINE Missing == {i \in 0..n : i \notin T}
<1> SUFFICES ASSUME Missing # {} PROVE FALSE
  OBVIOUS
<1>1. PICK i \in Missing : \A j \in Missing : i <= j
  <2>1. Missing \in SUBSET Nat
    OBVIOUS
  <2> HIDE DEF Missing
  <2> QED BY <2>1, LeastNumber
<1>2. i # 0 /\ i - 1 \in 0..(n - 1)
  OBVIOUS
<1>3. i - 1 \in T
  BY <1>1, <1>2
<1>4. (i - 1) + 1 \in T
  BY <1>2, <1>3
<1> QED BY <1>4

(* A set of numbers up to n that is not empty has a greatest one.          *)
LEMMA GreatestNumber ==
    ASSUME NEW n \in Nat, NEW T \in SUBSET (1..n), T # {}
    PROVE  \E i \in T : \A j \in T : j <= i
<1> DEFINE Below == {n - i : i \in T}
<1>1. Below \in SUBSET Nat /\ Below # {}
  <2>1. \A i \in T : n - i \in Nat
    OBVIOUS
  <2> QED BY <2>1
<1>2. PICK b \in Below : \A c \in Below : b <= c
  <2> HIDE DEF Below
  <2> QED BY <1>1, LeastNumber
<1>3. PICK i \in T : b = n - i
  OBVIOUS
<1>4. ASSUME NEW j \in T PROVE j <= i
  <2>1. b <= n - j
    BY <1>2
  <2> QED BY <1>3, <2>1
<1> QED BY <1>4

(* A loop runs to its end: a first value and n steps determine the values  *)
(* after each of the steps.                                                *)
LEMMA Iteration ==
    ASSUME NEW S, NEW first \in S, NEW n \in Nat, NEW step \in [1..n -> [S -> S]]
    PROVE  \E f \in [0..n -> S] :
              /\ f[0] = first
              /\ \A i \in 1..n : f[i] = step[i][f[i - 1]]
<1> DEFINE Good(i, f) == /\ f[0] = first
                         /\ \A j \in 1..i : f[j] = step[j][f[j - 1]]
           T == {i \in 0..n : \E f \in [0..i -> S] : Good(i, f)}
<1>1. 0 \in T
  <2>1. [j \in 0..0 |-> first] \in [0..0 -> S] /\ Good(0, [j \in 0..0 |-> first])
    OBVIOUS
  <2>2. \E f \in [0..0 -> S] : Good(0, f)
    <3> HIDE DEF Good
    <3> QED BY <2>1
  <2> QED BY <2>2
<1>2. ASSUME NEW i \in 0..(n - 1), i \in T PROVE i + 1 \in T
  <2>1. PICK f \in [0..i -> S] : Good(i, f)
    BY <1>2
  <2> DEFINE g == [j \in 0..(i + 1) |-> IF j = i + 1 THEN step[j][f[i]] ELSE f[j]]
  <2>2. g \in [0..(i + 1) -> S]
    <3>1. f[i] \in S /\ i + 1 \in 1..n
      OBVIOUS
    <3>2. step[i + 1][f[i]] \in S
      BY <3>1
    <3> QED BY <3>2
  <2>3. Good(i + 1, g)
    <3>1. g[0] = first
      BY <2>1
    <3>2. ASSUME NEW j \in 1..(i + 1) PROVE g[j] = step[j][g[j - 1]]
      <4>1. g[j - 1] = f[j - 1]
        OBVIOUS
      <4>2. CASE j = i + 1
        BY <4>1, <4>2
      <4>3. CASE j \in 1..i
        BY <2>1, <4>1, <4>3
      <4> QED BY <4>2, <4>3
    <3> QED BY <3>1, <3>2
  <2>4. \E h \in [0..(i + 1) -> S] : Good(i + 1, h)
    <3> HIDE DEF g
    <3> QED BY <2>2, <2>3
  <2> QED BY <2>4
<1>3. n \in T
  <2> HIDE DEF T
  <2>1. 0..n \subseteq T
    BY <1>1, <1>2, Induction
  <2> QED BY <2>1
<1> QED BY <1>3

(* The values of a loop that starts with first.                            *)
IterationOf(f, S, first, n, step) ==
    /\ f \in [0..n -> S]
    /\ f[0] = first
    /\ \A i \in 1..n : f[i] = step[i][f[i - 1]]

(* Every loop has its values.                                              *)
LEMMA IterationExists ==
    ASSUME NEW S, NEW first \in S, NEW n \in Nat, NEW step \in [1..n -> [S -> S]]
    PROVE  \E f : IterationOf(f, S, first, n, step)
BY Iteration DEF IterationOf

-----------------------------------------------------------------------------
(* What a buffer can hold.                                                 *)
Bytes == Seq(Int)

(* Two buffers behind one another.                                         *)
LEMMA Joined ==
    ASSUME NEW s \in Bytes, NEW t \in Bytes
    PROVE  /\ s \o t \in Bytes /\ Len(s) \in Nat /\ Len(t) \in Nat
           /\ Len(s \o t) = Len(s) + Len(t)
           /\ \A i \in 1..Len(s) : (s \o t)[i] = s[i]
           /\ \A i \in 1..Len(t) : (s \o t)[Len(s) + i] = t[i]
BY DEF Bytes

(* A part of a buffer.                                                     *)
LEMMA Part ==
    ASSUME NEW w \in Bytes, NEW m \in Nat, NEW n \in Nat,
           1 <= m, m <= n + 1, n <= Len(w)
    PROVE  /\ SubSeq(w, m, n) \in Bytes /\ Len(SubSeq(w, m, n)) = n + 1 - m
           /\ \A i \in 1..(n + 1 - m) : SubSeq(w, m, n)[i] = w[m + i - 1]
BY DEF Bytes

(* Buffers with the same bytes are the same.                               *)
LEMMA SameBytes ==
    ASSUME NEW w \in Bytes, NEW v \in Bytes, Len(w) = Len(v),
           \A i \in 1..Len(w) : w[i] = v[i]
    PROVE  w = v
BY SeqEqual DEF Bytes

(* Two buffers behind one another are taken apart again.                   *)
LEMMA Prefixed ==
    ASSUME NEW s \in Bytes, NEW t \in Bytes
    PROVE  /\ SubSeq(s \o t, 1, Len(s)) = s
           /\ SubSeq(s \o t, Len(s) + 1, Len(s \o t)) = t
BY SubSeqOfConcat1, SubSeqOfConcat2, SubSeqFull DEF Bytes

(* A tag, the bytes behind it and what follows.                            *)
Frame(tag, body, rest) == (<<tag>> \o body) \o rest

(* Where the parts of a frame are found.                                   *)
LEMMA FrameProperties ==
    ASSUME NEW tag \in Int, NEW body \in Bytes, NEW rest \in Bytes
    PROVE  /\ Frame(tag, body, rest) \in Bytes /\ Frame(tag, body, rest) # <<>>
           /\ Head(Frame(tag, body, rest)) = tag
           /\ Len(body) \in Nat /\ Len(rest) \in Nat
           /\ Len(Frame(tag, body, rest)) = 1 + Len(body) + Len(rest)
           /\ \A i \in 1..Len(body) : Frame(tag, body, rest)[i + 1] = body[i]
           /\ SubSeq(Frame(tag, body, rest), Len(body) + 2,
                     Len(Frame(tag, body, rest))) = rest
<1>1. <<tag>> \o body \in Bytes
  BY DEF Bytes
<1>2. PICK head \in Bytes : head = <<tag>> \o body
  BY <1>1
<1>3. PICK raw : raw = Frame(tag, body, rest)
  OBVIOUS
<1>4. raw = head \o rest
  BY <1>2, <1>3 DEF Frame
<1>5. /\ Len(head) = 1 + Len(body) /\ Len(body) \in Nat /\ Len(rest) \in Nat
      /\ head[1] = tag
      /\ \A i \in 1..Len(body) : head[1 + i] = body[i]
  BY <1>2 DEF Bytes
<1>6. /\ raw \in Bytes /\ Len(raw) = Len(head) + Len(rest)
      /\ \A i \in 1..Len(head) : raw[i] = head[i]
  BY <1>4, Joined
<1>7. SubSeq(raw, Len(head) + 1, Len(raw)) = rest
  BY <1>4, Prefixed
<1>8. raw # <<>> /\ Head(raw) = tag
  BY <1>5, <1>6 DEF Bytes
<1>9. Len(head) + 1 = Len(body) + 2
  BY <1>5
<1>10. /\ raw \in Bytes /\ raw # <<>> /\ Head(raw) = tag
       /\ Len(body) \in Nat /\ Len(rest) \in Nat
       /\ Len(raw) = 1 + Len(body) + Len(rest)
       /\ \A i \in 1..Len(body) : raw[i + 1] = body[i]
       /\ SubSeq(raw, Len(body) + 2, Len(raw)) = rest
  BY <1>5, <1>6, <1>7, <1>8, <1>9
<1> QED BY <1>3, <1>10, Zenon

(* The bytes of a number stand for it.                                     *)
LEMMA NumberOfBytes ==
    ASSUME NEW n \in Int32,
           NEW a, NEW b, NEW c, NEW d,
           a = (n \div 16777216) % 256, b = (n \div 65536) % 256,
           c = (n \div 256) % 256, d = n % 256
    PROVE  /\ a \in 0..255 /\ b \in 0..255 /\ c \in 0..255 /\ d \in 0..255
           /\ (IF a < 128 THEN a ELSE a - 256) * 16777216 + b * 65536 + c * 256 + d = n
<1>1. n \in Int
  BY SMT DEF Int32
<1>2. PICK x \in Int : x = n \div 256
  BY <1>1, SMT
<1>3. PICK y \in Int : y = n \div 65536
  BY <1>1, SMT
<1>4. PICK z \in Int : z = n \div 16777216
  BY <1>1, SMT
<1>5. d \in 0..255 /\ n = 256 * x + d
  BY <1>1, <1>2, SMT
<1>6. y = x \div 256 /\ z = y \div 256
  BY <1>1, <1>2, <1>3, <1>4, SMT
<1>7. c \in 0..255 /\ x = 256 * y + c
  BY <1>2, <1>6, SMT
<1>8. b \in 0..255 /\ y = 256 * z + b
  BY <1>3, <1>6, SMT
<1>9. z \in -128..127
  BY <1>4, SMT DEF Int32
<1>10. a \in 0..255 /\ z = IF a < 128 THEN a ELSE a - 256
  BY <1>4, <1>9, SMT
<1> QED BY <1>5, <1>7, <1>8, <1>10, SMT

(* big_to_native() finds the number again.                                 *)
LEMMA NativeAgain ==
    ASSUME NEW n \in Int32, NEW raw, NEW last \in Int,
           raw[last - 3] = bigEndian32(n)[1], raw[last - 2] = bigEndian32(n)[2],
           raw[last - 1] = bigEndian32(n)[3], raw[last] = bigEndian32(n)[4]
    PROVE  bigToNative(raw, last) = n
<1> DEFINE a == (n \div 16777216) % 256
           b == (n \div 65536) % 256
           c == (n \div 256) % 256
           d == n % 256
<1>1. /\ a \in 0..255 /\ b \in 0..255 /\ c \in 0..255 /\ d \in 0..255
      /\ (IF a < 128 THEN a ELSE a - 256) * 16777216 + b * 65536 + c * 256 + d = n
  BY NumberOfBytes, SMT
<1>2. bigEndian32(n) = <<a, b, c, d>>
  BY SMT DEF bigEndian32
<1> HIDE DEF a, b, c, d
<1>3. raw[last - 3] = a /\ raw[last - 2] = b /\ raw[last - 1] = c /\ raw[last] = d
  BY <1>2, SMT
<1> QED BY <1>1, <1>3, SMT DEF bigToNative

(* What a number's bytes are.                                              *)
LEMMA NumberBytes ==
    ASSUME NEW n \in Int32
    PROVE  /\ bigEndian32(n) \in Bytes /\ Len(bigEndian32(n)) = 4
           /\ bigEndian64(n) \in Bytes /\ Len(bigEndian64(n)) = 8
           /\ \A i \in 1..4 : bigEndian64(n)[4 + i] = bigEndian32(n)[i]
<1>1. bigEndian32(n) \in Bytes /\ Len(bigEndian32(n)) = 4
  <2>1. /\ (n \div 16777216) % 256 \in Int /\ (n \div 65536) % 256 \in Int
        /\ (n \div 256) % 256 \in Int /\ n % 256 \in Int
    BY NumberOfBytes, SMT
  <2> QED BY <2>1, SMT DEF bigEndian32, Bytes
<1>2. PICK low \in Bytes : low = bigEndian32(n)
  BY <1>1
<1>3. PICK fill \in Int : bigEndian64(n) = <<fill, fill, fill, fill>> \o low
  BY <1>2, SMT DEF bigEndian64
<1>4. <<fill, fill, fill, fill>> \in Bytes /\ Len(<<fill, fill, fill, fill>>) = 4
  BY DEF Bytes
<1>5. PICK high \in Bytes : high = <<fill, fill, fill, fill>>
  BY <1>4
<1>6. Len(high) = 4
  BY <1>4, <1>5
<1>7. /\ high \o low \in Bytes /\ Len(high \o low) = 8
      /\ \A i \in 1..4 : (high \o low)[4 + i] = low[i]
  <2>1. /\ high \o low \in Bytes /\ Len(high \o low) = Len(high) + Len(low)
        /\ \A i \in 1..Len(low) : (high \o low)[Len(high) + i] = low[i]
    BY Joined
  <2>2. Len(low) = 4
    BY <1>1, <1>2
  <2> QED BY <1>6, <2>1, <2>2
<1> QED BY <1>1, <1>2, <1>3, <1>5, <1>7

(* A string is cut to what its length field can tell.                      *)
LEMMA Cut ==
    ASSUME NEW n \in Nat, NEW r \in Nat \ {0}, NEW q, NEW e, NEW m,
           m = n % (r * r), q = m \div r, e = m % r
    PROVE  /\ m \in 0..n
           /\ q \in Nat /\ e \in Nat
           /\ q * r + e = m
<1>1. r * r \in Nat \ {0}
  OBVIOUS
<1>2. PICK s \in Nat \ {0} : s = r * r
  BY <1>1
<1>3. m \in 0..(s-1) /\ m = n - s * (n \div s)
  BY <1>2
<1>4. n \div s \in Nat
  OBVIOUS
<1>5. m <= n
  BY <1>3, <1>4
<1>6. m \in Nat
  BY <1>3
<1>7. q \in Nat /\ e \in Nat
  BY <1>6
<1>8. e = m - r * q
  BY <1>6
<1> QED BY <1>5, <1>6, <1>7, <1>8

(* The four bytes of a number at the end of the body.                      *)
LEMMA NumberRead ==
    ASSUME NEW n \in Int32, NEW tag \in Int, NEW body \in Bytes, NEW rest \in Bytes,
           Len(body) >= 4,
           \A i \in 1..4 : body[Len(body) - 4 + i] = bigEndian32(n)[i]
    PROVE  bigToNative(Frame(tag, body, rest), Len(body) + 1) = n
<1>1. PICK last \in Int : last = Len(body) + 1
  BY DEF Bytes
<1>2. PICK raw : raw = Frame(tag, body, rest)
  OBVIOUS
<1>3. Len(body) \in Nat /\ \A i \in 1..Len(body) : raw[i + 1] = body[i]
  BY <1>2, FrameProperties, Zenon
<1>4. /\ Len(body) - 4 + 1 \in 1..Len(body) /\ Len(body) - 4 + 2 \in 1..Len(body)
      /\ Len(body) - 4 + 3 \in 1..Len(body) /\ Len(body) - 4 + 4 \in 1..Len(body)
  BY <1>3
<1>5. /\ raw[(Len(body) - 4 + 1) + 1] = bigEndian32(n)[1]
      /\ raw[(Len(body) - 4 + 2) + 1] = bigEndian32(n)[2]
      /\ raw[(Len(body) - 4 + 3) + 1] = bigEndian32(n)[3]
      /\ raw[(Len(body) - 4 + 4) + 1] = bigEndian32(n)[4]
  BY <1>3, <1>4
<1>6. /\ last - 3 = (Len(body) - 4 + 1) + 1 /\ last - 2 = (Len(body) - 4 + 2) + 1
      /\ last - 1 = (Len(body) - 4 + 3) + 1 /\ last = (Len(body) - 4 + 4) + 1
  BY <1>1, <1>3
<1>7. /\ raw[last - 3] = bigEndian32(n)[1] /\ raw[last - 2] = bigEndian32(n)[2]
      /\ raw[last - 1] = bigEndian32(n)[3] /\ raw[last] = bigEndian32(n)[4]
  BY <1>5, <1>6
<1>8. bigToNative(raw, last) = n
  BY <1>7, NativeAgain
<1> QED BY <1>1, <1>2, <1>8

(* A number that was written in a body of four or eight bytes is read.     *)
LEMMA NumberInBody ==
    ASSUME NEW n \in Int32, NEW tag \in Int, NEW body \in Bytes, NEW rest \in Bytes,
           Len(body) >= 4,
           \A i \in 1..4 : body[Len(body) - 4 + i] = bigEndian32(n)[i]
    PROVE  /\ ~(Len(Frame(tag, body, rest)) < Len(body) + 1)
           /\ bigToNative(Frame(tag, body, rest), Len(body) + 1) = n
           /\ SubSeq(Frame(tag, body, rest), Len(body) + 2,
                     Len(Frame(tag, body, rest))) = rest
<1>1. PICK raw : raw = Frame(tag, body, rest)
  OBVIOUS
<1>2. /\ Len(rest) \in Nat /\ Len(body) \in Nat
      /\ Len(raw) = 1 + Len(body) + Len(rest)
      /\ SubSeq(raw, Len(body) + 2, Len(raw)) = rest
  BY <1>1, FrameProperties, Zenon
<1>3. bigToNative(raw, Len(body) + 1) = n
  BY <1>1, NumberRead, Zenon
<1>4. ~(Len(raw) < Len(body) + 1)
  BY <1>2
<1> QED BY <1>1, <1>2, <1>3, <1>4

(* A number that was written with eight bytes.                             *)
LEMMA LREALRead ==
    ASSUME NEW n \in Int32, NEW tag \in Int, NEW rest \in Bytes
    PROVE  readXREALVariable(Frame(tag, bigEndian64(n), rest), 8, 1)
                = Parsed("Ok", Value("Real", <<n>>), rest)
<1>1. PICK body \in Bytes : body = bigEndian64(n)
  BY NumberBytes
<1>2. Len(body) = 8 /\ \A i \in 1..4 : body[4 + i] = bigEndian32(n)[i]
  BY <1>1, NumberBytes
<1>3. \A i \in 1..4 : body[Len(body) - 4 + i] = bigEndian32(n)[i]
  BY <1>2
<1>4. PICK raw : raw = Frame(tag, body, rest)
  OBVIOUS
<1>5. PICK size \in Nat : size = 8
  OBVIOUS
<1>6. /\ ~(Len(raw) < size + 1) /\ bigToNative(raw, size + 1) = n
      /\ SubSeq(raw, size + 2, Len(raw)) = rest
  <2>1. Len(body) >= 4
    BY <1>2
  <2>2. /\ ~(Len(raw) < Len(body) + 1) /\ bigToNative(raw, Len(body) + 1) = n
        /\ SubSeq(raw, Len(body) + 2, Len(raw)) = rest
    BY <1>3, <1>4, <2>1, NumberInBody, Zenon
  <2> QED BY <1>2, <1>5, <2>2
<1>7. 1 * n = n
  BY SMT DEF Int32
<1>8. readXREALVariable(raw, size, 1) = Parsed("Ok", Value("Real", <<n>>), rest)
  BY <1>6, <1>7 DEF readXREALVariable, Consume
<1> QED BY <1>1, <1>4, <1>5, <1>8

(* A number that was written with four bytes.                              *)
LEMMA REALRead ==
    ASSUME NEW n \in Int32, NEW tag \in Int, NEW rest \in Bytes
    PROVE  /\ readXREALVariable(Frame(tag, bigEndian32(n), rest), 4, 2)
                = Parsed("Ok", Value("Real", <<2 * n>>), rest)
           /\ readXINTVariable(Frame(tag, bigEndian32(n), rest), 4)
                = Parsed("Ok", Value("Integer", <<n>>), rest)
<1>1. PICK body \in Bytes : body = bigEndian32(n)
  BY NumberBytes
<1>2. Len(body) = 4
  BY <1>1, NumberBytes
<1>3. \A i \in 1..4 : body[Len(body) - 4 + i] = bigEndian32(n)[i]
  BY <1>1, <1>2
<1>4. PICK raw : raw = Frame(tag, body, rest)
  OBVIOUS
<1>5. PICK size \in Nat : size = 4
  OBVIOUS
<1>6. /\ ~(Len(raw) < size + 1) /\ bigToNative(raw, size + 1) = n
      /\ SubSeq(raw, size + 2, Len(raw)) = rest
  <2>1. Len(body) >= 4
    BY <1>2
  <2>2. /\ ~(Len(raw) < Len(body) + 1) /\ bigToNative(raw, Len(body) + 1) = n
        /\ SubSeq(raw, Len(body) + 2, Len(raw)) = rest
    BY <1>3, <1>4, <2>1, NumberInBody, Zenon
  <2> QED BY <1>2, <1>5, <2>2
<1>7. readXREALVariable(raw, size, 2) = Parsed("Ok", Value("Real", <<2 * n>>), rest)
  BY <1>6 DEF readXREALVariable, Consume
<1>8. readXINTVariable(raw, size) = Parsed("Ok", Value("Integer", <<n>>), rest)
  BY <1>6 DEF readXINTVariable, Consume
<1> QED BY <1>1, <1>4, <1>5, <1>7, <1>8

(* A string that was written is read as far as it was written.             *)
LEMMA STRINGRead ==
    ASSUME NEW text \in Bytes, NEW tag \in Int, NEW rest \in Bytes,
           NEW q \in Nat, NEW e \in Nat, q * LengthRadix + e = Len(text)
    PROVE  readSTRINGVariable(Frame(tag, <<q, e>> \o text, rest))
                = Parsed("Ok", Value("String", text), rest)
<1>1. <<q, e>> \o text \in Bytes
  BY DEF Bytes
<1>2. PICK body \in Bytes : body = <<q, e>> \o text
  BY <1>1
<1>3. /\ Len(text) \in Nat /\ Len(body) = 2 + Len(text) /\ body[1] = q /\ body[2] = e
      /\ \A i \in 1..Len(text) : body[2 + i] = text[i]
  BY <1>2 DEF Bytes
<1>4. PICK raw : raw = Frame(tag, body, rest)
  OBVIOUS
<1>5. /\ raw \in Bytes
      /\ Len(rest) \in Nat /\ Len(raw) = 1 + Len(body) + Len(rest)
      /\ \A i \in 1..Len(body) : raw[i + 1] = body[i]
      /\ SubSeq(raw, Len(body) + 2, Len(raw)) = rest
  BY <1>4, FrameProperties, Zenon
<1>6. raw[2] = q /\ raw[3] = e
  <2>1. raw[1 + 1] = q /\ raw[2 + 1] = e
    BY <1>3, <1>5
  <2> QED BY <2>1
<1>7. PICK length \in Nat : length = Len(text)
  BY <1>3
<1>8. raw[2] * LengthRadix + raw[3] = length
  BY <1>6, <1>7
<1>9. ~(Len(raw) < 3) /\ ~(Len(raw) < 3 + length)
  BY <1>3, <1>5, <1>7
<1>10. SubSeq(raw, 4, 3 + length) = text
  <2>1. PICK part : part = SubSeq(raw, 4, 3 + length)
    OBVIOUS
  <2>2. /\ part \in Bytes /\ Len(part) = length
        /\ \A i \in 1..length : part[i] = raw[4 + i - 1]
    <3>1. PICK m \in Nat : m = 4
      OBVIOUS
    <3>2. PICK last \in Nat : last = 3 + length
      OBVIOUS
    <3>3. 1 <= m /\ m <= last + 1 /\ last <= Len(raw) /\ last + 1 - m = length
      BY <1>3, <1>5, <1>7, <3>1, <3>2
    <3>4. /\ SubSeq(raw, m, last) \in Bytes /\ Len(SubSeq(raw, m, last)) = last + 1 - m
          /\ \A i \in 1..(last + 1 - m) : SubSeq(raw, m, last)[i] = raw[m + i - 1]
      BY <1>5, <3>3 DEF Bytes
    <3> QED BY <2>1, <3>1, <3>2, <3>3, <3>4
  <2>3. ASSUME NEW i \in 1..length PROVE part[i] = text[i]
    <3>1. /\ 4 + i - 1 = (2 + i) + 1 /\ 2 + i \in 1..Len(body)
      BY <1>3, <1>7
    <3> QED BY <1>3, <1>5, <1>7, <2>2, <3>1
  <2>4. part = text
    BY <1>7, <2>2, <2>3, SameBytes
  <2> QED BY <2>1, <2>4
<1>11. (2 + length) + 2 = Len(body) + 2
  BY <1>3, <1>7
<1>12. SubSeq(raw, (2 + length) + 2, Len(raw)) = rest
  BY <1>5, <1>11
<1>13. readSTRINGVariable(raw) = Parsed("Ok", Value("String", text), rest)
  BY <1>8, <1>9, <1>10, <1>12 DEF readSTRINGVariable, Consume
<1> QED BY <1>2, <1>4, <1>13

(* A truth value is its tag.                                               *)
LEMMA BOOLRead ==
    ASSUME NEW tag \in Int, NEW rest \in Bytes
    PROVE  /\ readBOOL0Variable(Frame(tag, <<>>, rest))
                = Parsed("Ok", Value("Boolean", <<0>>), rest)
           /\ readBOOL1Variable(Frame(tag, <<>>, rest))
                = Parsed("Ok", Value("Boolean", <<1>>), rest)
<1>1. <<>> \in Bytes /\ Len(<<>>) = 0
  BY DEF Bytes
<1>2. PICK body \in Bytes : body = <<>>
  BY <1>1
<1>3. PICK raw : raw = Frame(tag, body, rest)
  OBVIOUS
<1>4. SubSeq(raw, Len(body) + 2, Len(raw)) = rest
  BY <1>3, FrameProperties, Zenon
<1>5. SubSeq(raw, 0 + 2, Len(raw)) = rest
  BY <1>2, <1>4
<1> QED BY <1>2, <1>3, <1>5 DEF readBOOL0Variable, readBOOL1Variable, Consume

(* A number is a value with one part.                                      *)
LEMMA NumberValue ==
    ASSUME NEW type \in {"Real", "Integer"}, NEW v, IsValue(type, v)
    PROVE  \E n \in Int32 : v = Value(type, <<n>>) /\ v.val = <<n>>
<1>1. v = Value(type, v.val) /\ Len(v.val) = 1 /\ v.val \in Seq(Int32)
  BY DEF IsValue
<1>2. v.val[1] \in Int32 /\ v.val = <<v.val[1]>>
  BY <1>1
<1> QED BY <1>1, <1>2

(* Half of a number is one, too.                                           *)
LEMMA HalfNumber ==
    ASSUME NEW n \in Int32
    PROVE  n \div 2 \in Int32
BY SMT DEF Int32

(* What the readers are to find in a buffer that begins with the encoding  *)
(* of a value.                                                             *)
RoundTrip(asnType, v, dest, rest) ==
    /\ encodeValue(asnType, v) \in Bytes /\ encodeValue(asnType, v) # <<>>
    /\ readNextVariable(dest, encodeValue(asnType, v) \o rest)
          = readAndConvertVariable(dest, Parsed("Ok", Carried(asnType, v), rest))

(* A tag and the bytes behind it are a buffer.                             *)
LEMMA TagAndBody ==
    ASSUME NEW tag \in Int, NEW body \in Bytes
    PROVE  <<tag>> \o body \in Bytes /\ <<tag>> \o body # <<>>
BY DEF Bytes

(* No two types share a tag.                                               *)
LEMMA TagsDiffer ==
    /\ LREAL_TAG # REAL_TAG
    /\ STRING_TAG \notin {LREAL_TAG, REAL_TAG}
    /\ BOOL0_TAG \notin {LREAL_TAG, REAL_TAG, STRING_TAG}
    /\ BOOL1_TAG \notin {LREAL_TAG, REAL_TAG, STRING_TAG, BOOL0_TAG}
    /\ DINT_TAG \notin {LREAL_TAG, REAL_TAG, STRING_TAG, BOOL0_TAG, BOOL1_TAG}
BY SMT DEF LREAL_TAG, REAL_TAG, STRING_TAG, BOOL0_TAG, BOOL1_TAG, DINT_TAG

(* The tag decides on the reader.                                          *)
LEMMA Readers ==
    ASSUME NEW dest, NEW raw
    PROVE  LET next == readNextVariable(dest, raw)
               converted(read) == readAndConvertVariable(dest, read)
           IN  /\ Head(raw) = LREAL_TAG => next = converted(readXREALVariable(raw, 8, 1))
               /\ Head(raw) = REAL_TAG => next = converted(readXREALVariable(raw, 4, 2))
               /\ Head(raw) = STRING_TAG => next = converted(readSTRINGVariable(raw))
               /\ Head(raw) = BOOL0_TAG => next = converted(readBOOL0Variable(raw))
               /\ Head(raw) = BOOL1_TAG => next = converted(readBOOL1Variable(raw))
               /\ Head(raw) = DINT_TAG => next = converted(readXINTVariable(raw, 4))
BY TagsDiffer, Zenon DEF readNextVariable

(* A Real written as LREAL is read unchanged.                              *)
LEMMA LREALRoundTrip ==
    ASSUME NEW v, Encodable("LREAL", v), NEW dest, NEW rest \in Bytes
    PROVE  RoundTrip("LREAL", v, dest, rest)
<1>1. IsValue("Real", v)
  BY DEF Encodable
<1>2. PICK n \in Int32 : v = Value("Real", <<n>>) /\ v.val = <<n>>
  BY <1>1, NumberValue
<1>3. PICK tag \in Int : tag = LREAL_TAG
  BY DEF LREAL_TAG
<1>4. PICK body \in Bytes : body = bigEndian64(n)
  BY NumberBytes
<1>5. encodeValue("LREAL", v) = <<tag>> \o body
  BY <1>2, <1>3, <1>4 DEF encodeValue, encodeLREALValue
<1>6. PICK raw : raw = Frame(tag, body, rest)
  OBVIOUS
<1>7. encodeValue("LREAL", v) \o rest = raw
  BY <1>5, <1>6 DEF Frame
<1>8. Head(raw) = tag
  BY <1>6, FrameProperties, Zenon
<1>9. readXREALVariable(raw, 8, 1) = Parsed("Ok", v, rest)
  BY <1>2, <1>4, <1>6, LREALRead
<1>10. Carried("LREAL", v) = v
  BY DEF Carried
<1>11. readNextVariable(dest, raw) = readAndConvertVariable(dest, Parsed("Ok", v, rest))
  BY <1>3, <1>8, <1>9, Readers
<1>12. <<tag>> \o body \in Bytes /\ <<tag>> \o body # <<>>
  BY TagAndBody
<1> QED BY <1>5, <1>7, <1>10, <1>11, <1>12 DEF RoundTrip

(* A Real written as REAL loses its last part, and is read without it.     *)
LEMMA REALRoundTrip ==
    ASSUME NEW v, Encodable("REAL", v), NEW dest, NEW rest \in Bytes
    PROVE  RoundTrip("REAL", v, dest, rest)
<1>1. IsValue("Real", v)
  BY DEF Encodable
<1>2. PICK n \in Int32 : v = Value("Real", <<n>>) /\ v.val = <<n>>
  BY <1>1, NumberValue
<1>3. PICK whole \in Int32 : whole = n \div 2
  BY HalfNumber
<1>4. PICK tag \in Int : tag = REAL_TAG
  BY DEF REAL_TAG
<1>5. PICK body \in Bytes : body = bigEndian32(whole)
  BY NumberBytes
<1>6. encodeValue("REAL", v) = <<tag>> \o body
  BY <1>2, <1>3, <1>4, <1>5 DEF encodeValue, encodeREALValue
<1>7. PICK raw : raw = Frame(tag, body, rest)
  OBVIOUS
<1>8. encodeValue("REAL", v) \o rest = raw
  BY <1>6, <1>7 DEF Frame
<1>9. Head(raw) = tag
  BY <1>7, FrameProperties, Zenon
<1>10. readXREALVariable(raw, 4, 2) = Parsed("Ok", Value("Real", <<2 * whole>>), rest)
  BY <1>5, <1>7, REALRead
<1>11. Carried("REAL", v) = Value("Real", <<2 * whole>>)
  BY <1>2, <1>3 DEF Carried
<1>12. readNextVariable(dest, raw)
          = readAndConvertVariable(dest, Parsed("Ok", Value("Real", <<2 * whole>>), rest))
  BY <1>4, <1>9, <1>10, Readers
<1>13. <<tag>> \o body \in Bytes /\ <<tag>> \o body # <<>>
  BY TagAndBody
<1> QED BY <1>6, <1>8, <1>11, <1>12, <1>13 DEF RoundTrip

(* An Integer written as DINT is read unchanged.                           *)
LEMMA DINTRoundTrip ==
    ASSUME NEW v, Encodable("DINT", v), NEW dest, NEW rest \in Bytes
    PROVE  RoundTrip("DINT", v, dest, rest)
<1>1. IsValue("Integer", v)
  BY DEF Encodable
<1>2. PICK n \in Int32 : v = Value("Integer", <<n>>) /\ v.val = <<n>>
  BY <1>1, NumberValue
<1>3. PICK tag \in Int : tag = DINT_TAG
  BY DEF DINT_TAG
<1>4. PICK body \in Bytes : body = bigEndian32(n)
  BY NumberBytes
<1>5. encodeValue("DINT", v) = <<tag>> \o body
  BY <1>2, <1>3, <1>4 DEF encodeValue, encodeDINTValue
<1>6. PICK raw : raw = Frame(tag, body, rest)
  OBVIOUS
<1>7. encodeValue("DINT", v) \o rest = raw
  BY <1>5, <1>6 DEF Frame
<1>8. Head(raw) = tag
  BY <1>6, FrameProperties, Zenon
<1>9. readXINTVariable(raw, 4) = Parsed("Ok", v, rest)
  BY <1>2, <1>4, <1>6, REALRead
<1>10. Carried("DINT", v) = v
  BY DEF Carried
<1>11. readNextVariable(dest, raw) = readAndConvertVariable(dest, Parsed("Ok", v, rest))
  BY <1>3, <1>8, <1>9, Readers
<1>12. <<tag>> \o body \in Bytes /\ <<tag>> \o body # <<>>
  BY TagAndBody
<1> QED BY <1>5, <1>7, <1>10, <1>11, <1>12 DEF RoundTrip

(* A Boolean is read from its tag.                                         *)
LEMMA BOOLRoundTrip ==
    ASSUME NEW v, Encodable("BOOL", v), NEW dest, NEW rest \in Bytes
    PROVE  RoundTrip("BOOL", v, dest, rest)
<1>1. IsValue("Boolean", v)
  BY DEF Encodable
<1>2. v = Value("Boolean", v.val) /\ v.val \in {<<0>>, <<1>>}
  BY <1>1 DEF IsValue
<1>3. PICK tag \in Int : tag = IF v.val = <<0>> THEN BOOL0_TAG ELSE BOOL1_TAG
  BY DEF BOOL0_TAG, BOOL1_TAG
<1>4. <<>> \in Bytes /\ <<tag>> \o <<>> = <<tag>>
  BY DEF Bytes
<1>5. PICK body \in Bytes : body = <<>>
  BY <1>4
<1>6. encodeValue("BOOL", v) = <<tag>> \o body
  BY <1>3, <1>4, <1>5 DEF encodeValue, encodeBOOLValue
<1>7. PICK raw : raw = Frame(tag, body, rest)
  OBVIOUS
<1>8. encodeValue("BOOL", v) \o rest = raw
  BY <1>6, <1>7 DEF Frame
<1>9. Head(raw) = tag
  BY <1>7, FrameProperties, Zenon
<1>10. /\ readBOOL0Variable(raw) = Parsed("Ok", Value("Boolean", <<0>>), rest)
       /\ readBOOL1Variable(raw) = Parsed("Ok", Value("Boolean", <<1>>), rest)
  BY <1>5, <1>7, BOOLRead
<1>11. Carried("BOOL", v) = v
  BY DEF Carried
<1>12. readNextVariable(dest, raw) = readAndConvertVariable(dest, Parsed("Ok", v, rest))
  <2>1. CASE v.val = <<0>>
    BY <1>2, <1>3, <1>9, <1>10, <2>1, Readers
  <2>2. CASE v.val = <<1>>
    <3>1. tag = BOOL1_TAG
      BY <1>3, <2>2
    <3> QED BY <1>2, <1>9, <1>10, <2>2, <3>1, Readers
  <2> QED BY <1>2, <2>1, <2>2
<1>13. <<tag>> \o body \in Bytes /\ <<tag>> \o body # <<>>
  BY TagAndBody
<1> QED BY <1>6, <1>8, <1>11, <1>12, <1>13 DEF RoundTrip

(* A String is read up to the length that its length field could tell.     *)
LEMMA STRINGRoundTrip ==
    ASSUME NEW v, Encodable("STRING", v), NEW dest, NEW rest \in Bytes
    PROVE  RoundTrip("STRING", v, dest, rest)
<1>1. IsValue("String", v)
  BY DEF Encodable
<1>2. v = Value("String", v.val) /\ v.val \in Seq(0..255)
  BY <1>1 DEF IsValue
<1>3. v.val \in Bytes /\ Len(v.val) \in Nat
  <2>1. 0..255 \subseteq Int
    OBVIOUS
  <2>2. Seq(0..255) \subseteq Seq(Int)
    BY <2>1, SeqMonotonic
  <2> QED BY <1>2, <2>2 DEF Bytes
<1>4. PICK size : size = Len(v.val) % (LengthRadix * LengthRadix)
  OBVIOUS
<1>5. PICK q : q = size \div LengthRadix
  OBVIOUS
<1>6. PICK e : e = size % LengthRadix
  OBVIOUS
<1>7. size \in 0..Len(v.val) /\ q \in Nat /\ e \in Nat /\ q * LengthRadix + e = size
  BY <1>3, <1>4, <1>5, <1>6, Cut, LengthRadixAssumption
<1>8. PICK text : text = SubSeq(v.val, 1, size)
  OBVIOUS
<1>9. text \in Bytes /\ Len(text) = size
  BY <1>3, <1>7, <1>8 DEF Bytes
<1>10. PICK tag \in Int : tag = STRING_TAG
  BY DEF STRING_TAG
<1>11. <<q, e>> \o text \in Bytes /\ <<tag, q, e>> \o text = <<tag>> \o (<<q, e>> \o text)
  BY <1>7, <1>9 DEF Bytes
<1>12. PICK body \in Bytes : body = <<q, e>> \o text
  BY <1>11
<1>13. encodeValue("STRING", v) = <<tag, q, e>> \o text
  BY <1>4, <1>5, <1>6, <1>8, <1>10 DEF encodeValue, encodeSTRINGValue
<1>14. encodeValue("STRING", v) = <<tag>> \o body
  BY <1>11, <1>12, <1>13
<1>15. PICK raw : raw = Frame(tag, body, rest)
  OBVIOUS
<1>16. encodeValue("STRING", v) \o rest = raw
  BY <1>14, <1>15 DEF Frame
<1>17. Head(raw) = tag
  BY <1>15, FrameProperties, Zenon
<1>18. readSTRINGVariable(raw) = Parsed("Ok", Value("String", text), rest)
  BY <1>7, <1>9, <1>12, <1>15, STRINGRead
<1>19. Carried("STRING", v) = Value("String", text)
  BY <1>4, <1>8 DEF Carried
<1>20. readNextVariable(dest, raw)
          = readAndConvertVariable(dest, Parsed("Ok", Value("String", text), rest))
  BY <1>10, <1>17, <1>18, Readers
<1>21. <<tag>> \o body \in Bytes /\ <<tag>> \o body # <<>>
  BY TagAndBody
<1> QED BY <1>14, <1>16, <1>19, <1>20, <1>21 DEF RoundTrip

(* A subscriber reads what a publisher has written: readNextVariable() of  *)
(* CompactASN1Subscriber finds in the output of encodeASN1OutputVariables()*)
(* of CompactASN1Publisher the value as its type can carry it, and leaves  *)
(* exactly the bytes that follow it.                                       *)
THEOREM CodecRoundTrip ==
    ASSUME NEW asnType, NEW v, Encodable(asnType, v), NEW dest, NEW rest \in Bytes
    PROVE  RoundTrip(asnType, v, dest, rest)
<1>1. asnType \in {"LREAL", "REAL", "DINT", "BOOL", "STRING"}
  BY DEF Encodable
<1> QED BY <1>1, LREALRoundTrip, REALRoundTrip, DINTRoundTrip, BOOLRoundTrip,
           STRINGRoundTrip

(* Encodings that are put behind one another.                              *)
LEMMA Appended ==
    ASSUME NEW n \in Nat, NEW enc \in [1..n -> Bytes], NEW first \in Bytes
    PROVE  \E f \in [0..n -> Bytes] :
              f[0] = first /\ \A i \in 1..n : f[i] = f[i - 1] \o enc[i]
<1> DEFINE step == [i \in 1..n |-> [bytes \in Bytes |-> bytes \o enc[i]]]
<1>1. step \in [1..n -> [Bytes -> Bytes]]
  <2>1. ASSUME NEW i \in 1..n, NEW bytes \in Bytes PROVE bytes \o enc[i] \in Bytes
    <3>1. enc[i] \in Bytes
      OBVIOUS
    <3> QED BY <3>1, Joined
  <2> QED BY <2>1
<1>2. PICK f \in [0..n -> Bytes] :
         f[0] = first /\ \A i \in 1..n : f[i] = step[i][f[i - 1]]
  <2> HIDE DEF step
  <2> QED BY <1>1, Iteration
<1>3. ASSUME NEW i \in 1..n PROVE f[i] = f[i - 1] \o enc[i]
  <2>1. f[i - 1] \in Bytes
    OBVIOUS
  <2> QED BY <1>2, <2>1
<1> HIDE DEF step
<1> QED BY <1>2, <1>3

(* The buffer of a message holds the encodings behind one another.         *)
LEMMA BufferSteps ==
    ASSUME NEW types, NEW values, Len(values) \in Nat,
           \A i \in 1..Len(values) : encodeValue(types[i], values[i]) \in Bytes
    PROVE  /\ bufferAfter(types, values) \in [0..Len(values) -> Bytes]
           /\ bufferAfter(types, values)[0] = <<>>
           /\ \A i \in 1..Len(values) :
                 bufferAfter(types, values)[i]
                   = bufferAfter(types, values)[i - 1] \o encodeValue(types[i], values[i])
<1>1. PICK n \in Nat : n = Len(values)
  OBVIOUS
<1>2. PICK enc : enc = [i \in 1..n |-> encodeValue(types[i], values[i])]
  OBVIOUS
<1>3. /\ enc \in [1..n -> Bytes]
      /\ \A i \in 1..n : encodeValue(types[i], values[i]) = enc[i]
  BY <1>1, <1>2
<1> DEFINE buffer == bufferAfter(types, values)
<1>4. <<>> \in Bytes
  BY DEF Bytes
<1>5. PICK first \in Bytes : first = <<>>
  BY <1>4
<1> DEFINE Body(f) == [i \in 0..n |->
                         IF i = 0 THEN first
                         ELSE f[i - 1] \o encodeValue(types[i], values[i])]
<1>6. PICK f \in [0..n -> Bytes] :
         f[0] = first /\ \A i \in 1..n : f[i] = f[i - 1] \o enc[i]
  <2>1. enc \in [1..n -> Bytes]
    BY <1>3
  <2> QED BY <2>1, Appended, Zenon
<1>7. ASSUME NEW i \in 1..n PROVE f[i] = f[i - 1] \o encodeValue(types[i], values[i])
  BY <1>6, <1>3
<1>8. f = Body(f)
  <2>1. f[0] = first
    BY <1>6
  <2>2. \A i \in 0..n : f[i] = Body(f)[i]
    BY <1>7, <2>1
  <2>3. f = [i \in 0..n |-> f[i]] /\ Body(f) = [i \in 0..n |-> Body(f)[i]]
    BY SMT
  <2> HIDE DEF Body
  <2> QED BY <2>2, <2>3
<1>9. buffer = CHOOSE g : g = Body(g)
  BY <1>5, <1>1 DEF bufferAfter
<1> HIDE DEF buffer
<1>10. buffer = Body(buffer)
  <2> HIDE DEF Body
  <2> QED BY <1>8, <1>9
<1>11. buffer[0] = first
  BY <1>10
<1>12. ASSUME NEW i \in 1..n PROVE buffer[i] = buffer[i - 1] \o enc[i]
  <2>1. buffer[i] = Body(buffer)[i]
    BY <1>10
  <2> QED BY <1>3, <2>1
<1>13. buffer \in [0..n -> Bytes]
  <2> DEFINE T == {i \in 0..n : buffer[i] \in Bytes}
  <2>1. 0 \in T
    BY <1>11
  <2>2. ASSUME NEW i \in 0..(n - 1), i \in T PROVE i + 1 \in T
    <3>1. i + 1 \in 1..n /\ (i + 1) - 1 = i
      OBVIOUS
    <3>2. buffer[i + 1] = buffer[i] \o enc[i + 1]
      BY <1>12, <3>1
    <3>3. buffer[i] \in Bytes /\ enc[i + 1] \in Bytes
      BY <1>3, <2>2, <3>1
    <3>4. buffer[i + 1] \in Bytes
      BY <3>2, <3>3, Joined
    <3> QED BY <3>1, <3>4
  <2>3. 0..n \subseteq T
    <3> HIDE DEF T
    <3> QED BY <2>1, <2>2, Induction
  <2>4. buffer = [i \in 0..n |-> buffer[i]]
    BY <1>10
  <2> QED BY <2>3, <2>4
<1> QED BY <1>5, <1>11, <1>12, <1>13, <1>1, <1>3 DEF buffer

(* Bytes are left if the first ones are.                                   *)
LEMMA NonEmpty ==
    ASSUME NEW s \in Bytes, NEW t \in Bytes, s # <<>>
    PROVE  s \o t # <<>>
BY DEF Bytes

(* It does not matter which two of three buffers are joined first.         *)
LEMMA Associative ==
    ASSUME NEW s \in Bytes, NEW t \in Bytes, NEW u \in Bytes
    PROVE  (s \o t) \o u = s \o (t \o u)
BY ConcatAssociative DEF Bytes

(* The bytes that end a message, put behind the encodings from the last to *)
(* the first.                                                              *)
LEMMA Stacked ==
    ASSUME NEW n \in Nat, NEW enc \in [1..n -> Bytes], NEW junk \in Bytes
    PROVE  \E f \in [0..n -> Bytes] :
              /\ f[0] = junk
              /\ \A k \in 1..n : f[k] = enc[(n + 1) - k] \o f[k - 1]
<1> DEFINE step == [k \in 1..n |-> [bytes \in Bytes |-> enc[(n + 1) - k] \o bytes]]
<1>1. step \in [1..n -> [Bytes -> Bytes]]
  <2>1. ASSUME NEW k \in 1..n, NEW bytes \in Bytes
        PROVE  enc[(n + 1) - k] \o bytes \in Bytes
    <3>1. (n + 1) - k \in 1..n
      OBVIOUS
    <3>2. enc[(n + 1) - k] \in Bytes
      BY <3>1
    <3> QED BY <3>2, Joined
  <2> QED BY <2>1
<1>2. PICK f \in [0..n -> Bytes] :
         f[0] = junk /\ \A i \in 1..n : f[i] = step[i][f[i - 1]]
  <2> HIDE DEF step
  <2> QED BY <1>1, Iteration
<1>3. ASSUME NEW k \in 1..n PROVE f[k] = enc[(n + 1) - k] \o f[k - 1]
  <2>1. f[k - 1] \in Bytes
    OBVIOUS
  <2> QED BY <1>2, <2>1
<1> HIDE DEF step
<1> QED BY <1>2, <1>3

(* What is left of a message behind each of its encodings.                 *)
LEMMA Remainders ==
    ASSUME NEW n \in Nat, NEW enc \in [1..n -> Bytes],
           NEW buffer \in [0..n -> Bytes], buffer[0] = <<>>,
           \A i \in 1..n : buffer[i] = buffer[i - 1] \o enc[i],
           NEW junk \in Bytes
    PROVE  \E rest \in [0..n -> Bytes] :
              /\ rest[0] = buffer[n] \o junk
              /\ rest[n] = junk
              /\ \A i \in 1..n : rest[i - 1] = enc[i] \o rest[i]
<1>1. PICK f \in [0..n -> Bytes] :
         f[0] = junk /\ \A k \in 1..n : f[k] = enc[(n + 1) - k] \o f[k - 1]
  BY Stacked
<1> DEFINE rest == [i \in 0..n |-> f[n - i]]
<1>2. rest \in [0..n -> Bytes]
  <2>1. \A i \in 0..n : n - i \in 0..n
    OBVIOUS
  <2> QED BY <2>1
<1>3. ASSUME NEW i \in 1..n PROVE rest[i - 1] = enc[i] \o rest[i]
  <2>1. PICK k \in 1..n : k = (n + 1) - i
    OBVIOUS
  <2>2. /\ n - (i - 1) = k /\ n - i = k - 1 /\ (n + 1) - k = i
        /\ i - 1 \in 0..n /\ i \in 0..n /\ k - 1 \in 0..n
    BY <2>1
  <2>3. f[k] = enc[(n + 1) - k] \o f[k - 1]
    BY <1>1
  <2>4. f[k] = enc[i] \o f[k - 1]
    BY <2>2, <2>3
  <2> QED BY <2>2, <2>4
<1>4. rest[n] = junk
  <2>1. n - n = 0 /\ n \in 0..n
    OBVIOUS
  <2> QED BY <1>1, <2>1
<1>5. rest[0] = buffer[n] \o junk
  <2> DEFINE T == {i \in 0..n : buffer[i] \o rest[i] = rest[0]}
  <2> HIDE DEF rest
  <2>1. 0 \in T
    <3>1. rest[0] \in Bytes
      BY <1>2
    <3>2. <<>> \o rest[0] = rest[0]
      BY <3>1, ConcatEmptySeq DEF Bytes
    <3>3. buffer[0] \o rest[0] = rest[0] /\ 0 \in 0..n
      BY <3>2
    <3> QED BY <3>3, Zenon
  <2>2. ASSUME NEW i \in 0..(n - 1), i \in T PROVE i + 1 \in T
    <3>1. PICK j \in 1..n : j = i + 1 /\ j - 1 = i
      OBVIOUS
    <3>2. buffer[j - 1] \in Bytes /\ enc[j] \in Bytes /\ rest[j] \in Bytes
      BY <1>2
    <3>3. (buffer[j - 1] \o enc[j]) \o rest[j] = buffer[j - 1] \o (enc[j] \o rest[j])
      BY <3>2, Associative
    <3>4. buffer[j] \o rest[j] = buffer[j - 1] \o rest[j - 1]
      BY <1>3, <3>3
    <3>5. i \in 0..n /\ i + 1 \in 0..n
      OBVIOUS
    <3>6. buffer[i] \o rest[i] = rest[0]
      BY <2>2, Zenon
    <3>7. buffer[i + 1] \o rest[i + 1] = rest[0]
      BY <3>1, <3>4, <3>6, Zenon
    <3> QED BY <3>5, <3>7, Zenon
  <2>3. 0..n \subseteq T
    <3> HIDE DEF T
    <3> QED BY <2>1, <2>2, Induction
  <2>4. n \in 0..n
    OBVIOUS
  <2> QED BY <1>4, <2>3, <2>4
<1> HIDE DEF rest
<1> QED BY <1>2, <1>3, <1>4, <1>5

=============================================================================
