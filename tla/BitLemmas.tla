----------------------------- MODULE BitLemmas -----------------------------
(***************************************************************************)
(* What the bitwise operators of the codec do, for all octets: `|` adds    *)
(* where no bit is common, and the exclusive or of all octets, the         *)
(* checksum, changes with every octet.                                     *)
(***************************************************************************)
EXTENDS Bits, FiniteSetTheorems, FunctionTheorems, SequenceTheorems,
        WellFoundedInduction, TLAPS

-----------------------------------------------------------------------------
(* Octets and their bits *)

(* The range of an octet, where the definition is not wanted. *)
LEMMA OctetRange == \A n : n \in Octet <=> n \in Nat /\ n <= 255
  BY DEF Octet

(* A bit is 0 or 1. *)
LEMMA BitType == \A n \in Nat : \A w \in Weights : Bit(n, w) \in {0, 1}
  BY DEF Weights, Bit

(* Eight bits make an octet. *)
LEMMA OfBitsType ==
  ASSUME NEW b \in [Weights -> {0, 1}]
  PROVE  OfBits(b) \in Octet
<1>1. \A w \in Weights : b[w] \in 0 .. 1
  OBVIOUS
<1>2. /\ b[1] \in 0 .. 1 /\ b[2] \in 0 .. 1 /\ b[4] \in 0 .. 1 /\ b[8] \in 0 .. 1
      /\ b[16] \in 0 .. 1 /\ b[32] \in 0 .. 1 /\ b[64] \in 0 .. 1 /\ b[128] \in 0 .. 1
  BY <1>1 DEF Weights
<1> QED
  BY <1>2 DEF OfBits, Octet

(* They are its bits. *)
LEMMA BitOfOfBits ==
  ASSUME NEW b \in [Weights -> {0, 1}], NEW w \in Weights
  PROVE  Bit(OfBits(b), w) = b[w]
<1>1. /\ b[1] \in 0 .. 1 /\ b[2] \in 0 .. 1 /\ b[4] \in 0 .. 1 /\ b[8] \in 0 .. 1
      /\ b[16] \in 0 .. 1 /\ b[32] \in 0 .. 1 /\ b[64] \in 0 .. 1 /\ b[128] \in 0 .. 1
  BY DEF Weights
<1>2. /\ OfBits(b) % 2 = b[1]
      /\ (OfBits(b) \div 2) % 2 = b[2]
      /\ (OfBits(b) \div 4) % 2 = b[4]
      /\ (OfBits(b) \div 8) % 2 = b[8]
  BY <1>1 DEF OfBits
<1>3. /\ (OfBits(b) \div 16) % 2 = b[16]
      /\ (OfBits(b) \div 32) % 2 = b[32]
      /\ (OfBits(b) \div 64) % 2 = b[64]
      /\ (OfBits(b) \div 128) % 2 = b[128]
  BY <1>1 DEF OfBits
<1>4. OfBits(b) \in Nat /\ OfBits(b) \div 1 = OfBits(b)
  BY <1>1 DEF OfBits
<1> QED
  BY <1>2, <1>3, <1>4 DEF Weights, Bit

(* An octet is made of its bits. *)
LEMMA OctetOfBits ==
  ASSUME NEW n \in Octet
  PROVE  n = OfBits([w \in Weights |-> Bit(n, w)])
  BY DEF Octet, OfBits, Weights, Bit

(* Two octets with the same bits are the same. *)
LEMMA SameBits ==
  ASSUME NEW m \in Octet, NEW n \in Octet, \A w \in Weights : Bit(m, w) = Bit(n, w)
  PROVE  m = n
<1>1. [w \in Weights |-> Bit(m, w)] = [w \in Weights |-> Bit(n, w)]
  OBVIOUS
<1> QED
  BY <1>1, OctetOfBits

(* 255 - n, which Rust writes !n, turns every bit over. *)
LEMMA Complement ==
  ASSUME NEW n \in Octet, NEW w \in Weights
  PROVE  255 - n \in Octet /\ Bit(255 - n, w) = 1 - Bit(n, w)
<1>1. 255 - n \in Octet
  BY DEF Octet
<1>2. CASE w \in {1, 2, 4, 8}
  BY <1>2 DEF Octet, Bit
<1>3. CASE w \in {16, 32, 64, 128}
  BY <1>3 DEF Octet, Bit
<1> QED
  BY <1>1, <1>2, <1>3 DEF Weights
-----------------------------------------------------------------------------
(* And, or, exclusive or *)

(* And, written out.                                                       *)
LEMMA AndIs ==
  ASSUME NEW m, NEW n
  PROVE  And(m, n) = One(Bit(m, 1) = 1 /\ Bit(n, 1) = 1)
                     + 2 * One(Bit(m, 2) = 1 /\ Bit(n, 2) = 1)
                     + 4 * One(Bit(m, 4) = 1 /\ Bit(n, 4) = 1)
                     + 8 * One(Bit(m, 8) = 1 /\ Bit(n, 8) = 1)
                     + 16 * One(Bit(m, 16) = 1 /\ Bit(n, 16) = 1)
                     + 32 * One(Bit(m, 32) = 1 /\ Bit(n, 32) = 1)
                     + 64 * One(Bit(m, 64) = 1 /\ Bit(n, 64) = 1)
                     + 128 * One(Bit(m, 128) = 1 /\ Bit(n, 128) = 1)
  BY DEF And, OfBits, Weights

(* Bit by bit, the result is an octet whatever the arguments are.          *)
LEMMA OrFacts ==
  ASSUME NEW m, NEW n
  PROVE  /\ Or(m, n) \in Octet
         /\ \A w \in Weights : Bit(Or(m, n), w) = One(Bit(m, w) = 1 \/ Bit(n, w) = 1)
<1> DEFINE b == [w \in Weights |-> One(Bit(m, w) = 1 \/ Bit(n, w) = 1)]
<1>1. b \in [Weights -> {0, 1}]
  BY DEF One
<1>2. Or(m, n) = OfBits(b)
  BY DEF Or
<1>3. \A w \in Weights : b[w] = One(Bit(m, w) = 1 \/ Bit(n, w) = 1)
  OBVIOUS
<1> HIDE DEF b
<1> QED
  BY <1>1, <1>2, <1>3, OfBitsType, BitOfOfBits

(* Sums of bits, one weight after the other.                               *)
LEMMA OfBitsAdds ==
  ASSUME NEW a \in [Weights -> 0 .. 1], NEW b \in [Weights -> 0 .. 1], NEW c,
         \A w \in Weights : c[w] = a[w] + b[w]
  PROVE  OfBits(c) = OfBits(a) + OfBits(b)
<1> DEFINE w1(x) == x[1] + 2 * x[2]
           w2(x) == w1(x) + 4 * x[4] 
           w3(x) == w2(x) + 8 * x[8]
           w4(x) == w3(x) + 16 * x[16]
           w5(x) == w4(x) + 32 * x[32]
           w6(x) == w5(x) + 64 * x[64]
           w7(x) == w6(x) + 128 * x[128]
<1> USE DEF Weights
<1>1. w1(c) = w1(a) + w1(b) /\ w1(a) \in Nat /\ w1(b) \in Nat
  OBVIOUS
<1> HIDE DEF w1
<1>2. w2(c) = w2(a) + w2(b) /\ w2(a) \in Nat /\ w2(b) \in Nat
  BY <1>1
<1> HIDE DEF w2
<1>3. w3(c) = w3(a) + w3(b) /\ w3(a) \in Nat /\ w3(b) \in Nat
  BY <1>2
<1> HIDE DEF w3
<1>4. w4(c) = w4(a) + w4(b) /\ w4(a) \in Nat /\ w4(b) \in Nat
  BY <1>3
<1> HIDE DEF w4
<1>5. w5(c) = w5(a) + w5(b) /\ w5(a) \in Nat /\ w5(b) \in Nat
  BY <1>4
<1> HIDE DEF w5
<1>6. w6(c) = w6(a) + w6(b) /\ w6(a) \in Nat /\ w6(b) \in Nat
  BY <1>5
<1> HIDE DEF w6
<1>7. w7(c) = w7(a) + w7(b)
  BY <1>6
<1>8. \A x : OfBits(x) = w7(x)
  BY DEF OfBits, w1, w2, w3, w4, w5, w6
<1> QED
  BY <1>7, <1>8

(* Where no bit is common it is the sum.                                   *)
LEMMA OrAdds ==
  ASSUME NEW m \in Octet, NEW n \in Octet,
         \A w \in Weights : Bit(m, w) = 0 \/ Bit(n, w) = 0
  PROVE  Or(m, n) = m + n
<1> DEFINE a == [w \in Weights |-> Bit(m, w)]
           b == [w \in Weights |-> Bit(n, w)]
           c == [w \in Weights |-> One(Bit(m, w) = 1 \/ Bit(n, w) = 1)]
<1>1. m = OfBits(a) /\ n = OfBits(b) /\ Or(m, n) = OfBits(c)
  BY OctetOfBits DEF Or
<1>2. a \in [Weights -> 0 .. 1] /\ b \in [Weights -> 0 .. 1]
  BY BitType DEF Octet
<1>3. \A w \in Weights : c[w] = a[w] + b[w]
  BY BitType DEF Octet, One
<1> HIDE DEF a, b, c
<1> QED
  BY <1>1, <1>2, <1>3, OfBitsAdds

(* Nothing is added to an octet by a zero, or to a zero by an octet.       *)
LEMMA OrZero ==
  ASSUME NEW n \in Octet
  PROVE  Or(n, 0) = n /\ Or(0, n) = n
<1>1. \A w \in Weights : Bit(0, w) = 0
  BY DEF Weights, Bit
<1>2. 0 \in Octet
  BY DEF Octet
<1>3. Or(n, 0) = n + 0 /\ Or(0, n) = 0 + n
  BY <1>1, <1>2, OrAdds
<1> QED
  BY <1>3 DEF Octet

(* The lower half of an octet adds nothing to it.                          *)
LEMMA OrLowerHalf ==
  ASSUME NEW n \in Octet
  PROVE  Or(n, n % 16) = n
<1>1. \A w \in Weights : Bit(n, w) \in {0, 1} /\ Bit(n % 16, w) \in {0, 1}
  BY BitType DEF Octet
<1>2. \A w \in {1, 2, 4, 8} : Bit(n % 16, w) = Bit(n, w)
  BY DEF Octet, Bit
<1>3. \A w \in {16, 32, 64, 128} : Bit(n % 16, w) = 0
  BY DEF Octet, Bit
<1>4. \A w \in Weights : Bit(Or(n, n % 16), w) = Bit(n, w)
  BY <1>1, <1>2, <1>3, OrFacts DEF Weights, One
<1> QED
  BY <1>4, OrFacts, SameBits

(* An octet changes if any of its bits does.                               *)
LEMMA XorChanges ==
  ASSUME NEW m \in Octet, NEW k \in Octet \ {0}
  PROVE  Xor(m, k) \in Octet /\ Xor(m, k) # m
<1> DEFINE b == [w \in Weights |-> One(Bit(m, w) # Bit(k, w))]
<1>1. b \in [Weights -> {0, 1}] /\ Xor(m, k) = OfBits(b)
  BY DEF One, Xor
<1>2. \A w \in Weights : b[w] = One(Bit(m, w) # Bit(k, w))
  OBVIOUS
<1> HIDE DEF b
<1>3. Xor(m, k) \in Octet /\ \A w \in Weights : Bit(Xor(m, k), w) = One(Bit(m, w) # Bit(k, w))
  BY <1>1, <1>2, OfBitsType, BitOfOfBits
<1>4. PICK w \in Weights : Bit(k, w) # 0
  <2>1. 0 \in Octet /\ \A w \in Weights : Bit(0, w) = 0
    BY DEF Octet, Weights, Bit
  <2> QED
    BY <2>1, SameBits
<1>5. Bit(m, w) \in {0, 1} /\ Bit(k, w) = 1
  BY <1>4, BitType DEF Octet
<1> QED
  BY <1>3, <1>5 DEF One

-----------------------------------------------------------------------------
(* The exclusive or of many octets *)

(* The places where a bit is set.                                          *)
Ones(d, w) == {i \in DOMAIN d : Bit(d[i], w) = 1}

(* What a bit of the exclusive or is.                                      *)
LEMMA ParityFacts ==
  ASSUME NEW d, IsFiniteSet(DOMAIN d)
  PROVE  /\ Parity(d) \in Octet
         /\ \A w \in Weights :
               /\ IsFiniteSet(Ones(d, w)) /\ Cardinality(Ones(d, w)) \in Nat
               /\ Bit(Parity(d), w) = Cardinality(Ones(d, w)) % 2
<1> DEFINE b == [w \in Weights |-> Cardinality(Ones(d, w)) % 2]
<1>1. ASSUME NEW w \in Weights
      PROVE  IsFiniteSet(Ones(d, w)) /\ Cardinality(Ones(d, w)) \in Nat
  BY FS_Subset, FS_CardinalityType DEF Ones
<1>2. b \in [Weights -> {0, 1}]
  BY <1>1
<1>3. Parity(d) = OfBits(b)
  BY DEF Parity, Ones
<1>4. \A w \in Weights : b[w] = Cardinality(Ones(d, w)) % 2
  OBVIOUS
<1> HIDE DEF b
<1> QED
  BY <1>1, <1>2, <1>3, <1>4, OfBitsType, BitOfOfBits

(* The checksum finds every change of one octet, wherever it is, and in a  *)
(* frame of any length.                                                    *)
THEOREM OneOctetAltered ==
  ASSUME NEW D, IsFiniteSet(D), NEW d \in [D -> Octet],
         NEW i \in D, NEW v \in Octet, v # d[i]
  PROVE  Parity([d EXCEPT ![i] = v]) # Parity(d)
<1> DEFINE e == [d EXCEPT ![i] = v]
<1>1. d[i] \in Octet /\ d[i] \in Nat /\ v \in Nat
  BY DEF Octet
<1>2. PICK w \in Weights : Bit(v, w) # Bit(d[i], w)
  BY <1>1, SameBits
<1>3. Bit(v, w) \in {0, 1} /\ Bit(d[i], w) \in {0, 1}
  BY <1>1, BitType
<1>4. DOMAIN d = D /\ DOMAIN e = D /\ e[i] = v /\ \A j \in D : j # i => e[j] = d[j]
  OBVIOUS
<1> HIDE DEF e
<1>5. /\ IsFiniteSet(Ones(d, w)) /\ Cardinality(Ones(d, w)) \in Nat
      /\ IsFiniteSet(Ones(e, w)) /\ Cardinality(Ones(e, w)) \in Nat
      /\ Bit(Parity(d), w) = Cardinality(Ones(d, w)) % 2
      /\ Bit(Parity(e), w) = Cardinality(Ones(e, w)) % 2
  BY <1>4, ParityFacts
<1>6. CASE Bit(v, w) = 1
  <2>1. Ones(e, w) = Ones(d, w) \cup {i} /\ i \notin Ones(d, w)
    BY <1>2, <1>4, <1>6 DEF Ones
  <2>2. Cardinality(Ones(e, w)) = Cardinality(Ones(d, w)) + 1
    BY <1>5, <2>1, FS_AddElement
  <2> QED
    BY <1>5, <2>2 DEF e
<1>7. CASE Bit(v, w) = 0
  <2>1. Ones(d, w) = Ones(e, w) \cup {i} /\ i \notin Ones(e, w)
    BY <1>2, <1>3, <1>4, <1>7 DEF Ones
  <2>2. Cardinality(Ones(d, w)) = Cardinality(Ones(e, w)) + 1
    BY <1>5, <2>1, FS_AddElement
  <2> QED
    BY <1>5, <2>2 DEF e
<1> QED
  BY <1>3, <1>6, <1>7

(* One octet more at the end.                                              *)
LEMMA ParityAppend ==
  ASSUME NEW s \in Seq(Octet), NEW v \in Octet, NEW w \in Weights
  PROVE  Bit(Parity(Append(s, v)), w) = (Bit(Parity(s), w) + Bit(v, w)) % 2
<1> DEFINE t == Append(s, v)
           n == Len(s) + 1
<1>1. Len(s) \in Nat /\ DOMAIN s = 1 .. Len(s)
  BY LenProperties
<1>2. DOMAIN t = 1 .. n /\ (\A i \in DOMAIN s : t[i] = s[i]) /\ t[n] = v
  BY <1>1, AppendProperties, LenProperties
<1>3. IsFiniteSet(DOMAIN s) /\ IsFiniteSet(DOMAIN t) /\ n \notin DOMAIN s
  BY <1>1, <1>2, FS_Interval
<1>4. DOMAIN t = DOMAIN s \cup {n}
  BY <1>1, <1>2
<1> HIDE DEF t, n
<1>5. Bit(v, w) \in {0, 1}
  BY BitType DEF Octet
<1>6. /\ IsFiniteSet(Ones(s, w)) /\ Cardinality(Ones(s, w)) \in Nat
      /\ Bit(Parity(s), w) = Cardinality(Ones(s, w)) % 2
      /\ Bit(Parity(t), w) = Cardinality(Ones(t, w)) % 2
  BY <1>3, ParityFacts
<1>7. Cardinality(Ones(t, w)) = Cardinality(Ones(s, w)) + Bit(v, w)
  <2>1. CASE Bit(v, w) = 1
    <3>1. Ones(t, w) = Ones(s, w) \cup {n} /\ n \notin Ones(s, w)
      BY <1>2, <1>3, <1>4, <2>1 DEF Ones
    <3> QED
      BY <1>6, <2>1, <3>1, FS_AddElement
  <2>2. CASE Bit(v, w) = 0
    <3>1. \A i \in DOMAIN t : Bit(t[i], w) = 1 => i \in DOMAIN s
      BY <1>2, <1>4, <2>2
    <3>2. Ones(t, w) = Ones(s, w)
      BY <1>2, <1>4, <3>1 DEF Ones
    <3> QED
      BY <1>6, <2>2, <3>2
  <2> QED
    BY <1>5, <2>1, <2>2
<1> QED
  BY <1>5, <1>6, <1>7 DEF t

(* One octet fewer at the front.                                           *)
LEMMA ParityTail ==
  ASSUME NEW s \in Seq(Octet), s # <<>>, NEW w \in Weights
  PROVE  /\ Tail(s) \in Seq(Octet)
         /\ Bit(Parity(s), w) = (Bit(s[1], w) + Bit(Parity(Tail(s)), w)) % 2
<1> DEFINE t == Tail(s)
           n == Len(s)
           F == [i \in Ones(t, w) |-> i + 1]
           U == Ones(s, w) \ {1}
<1>1. n \in Nat \ {0} /\ DOMAIN s = 1 .. n /\ s[1] \in Octet
  BY LenProperties, EmptySeq
<1>2. t \in Seq(Octet) /\ Len(t) = n - 1 /\ \A i \in 1 .. n - 1 : t[i] = s[i + 1]
  BY HeadTailProperties
<1>3. DOMAIN t = 1 .. n - 1
  BY <1>2, LenProperties
<1> HIDE DEF t, n
<1>4. IsFiniteSet(DOMAIN s) /\ IsFiniteSet(DOMAIN t)
  BY <1>1, <1>3, FS_Interval
<1>5. Bit(s[1], w) \in {0, 1}
  <2>1. s[1] \in Nat
    BY <1>1, OctetRange
  <2> QED
    BY <2>1, BitType
<1>6. /\ IsFiniteSet(Ones(s, w)) /\ Cardinality(Ones(s, w)) \in Nat
      /\ IsFiniteSet(Ones(t, w)) /\ Cardinality(Ones(t, w)) \in Nat
      /\ Bit(Parity(s), w) = Cardinality(Ones(s, w)) % 2
      /\ Bit(Parity(t), w) = Cardinality(Ones(t, w)) % 2
  BY <1>4, ParityFacts
<1>7. IsFiniteSet(U) /\ Cardinality(U) = Cardinality(Ones(t, w))
  <2>1. Ones(t, w) = {i \in 1 .. n - 1 : Bit(s[i + 1], w) = 1}
    BY <1>2, <1>3 DEF Ones
  <2>2. U = {i \in 2 .. n : Bit(s[i], w) = 1}
    BY <1>1 DEF Ones
  <2>3. F \in [Ones(t, w) -> U] /\ \A i, j \in Ones(t, w) : F[i] = F[j] => i = j
    BY <1>1, <2>1, <2>2
  <2>4. \A k \in U : k - 1 \in Ones(t, w) /\ F[k - 1] = k
    <3> SUFFICES ASSUME NEW k \in U
                 PROVE  k - 1 \in Ones(t, w) /\ F[k - 1] = k
      OBVIOUS
    <3>1. k \in 2 .. n /\ Bit(s[k], w) = 1 /\ (k - 1) + 1 = k
      BY <1>1, <2>2
    <3>2. k - 1 \in Ones(t, w)
      BY <1>1, <2>1, <3>1
    <3> QED
      BY <3>1, <3>2
  <2>5. \A k \in U : \E i \in Ones(t, w) : F[i] = k
    BY <2>4
  <2>6. ExistsBijection(Ones(t, w), U)
    BY <2>3, <2>5, Fun_IsBij, Fun_ExistsBij
  <2> QED
    BY <1>6, <2>6, FS_Bijection, FS_Subset
<1> HIDE DEF F
<1>8. Cardinality(Ones(s, w)) = Cardinality(Ones(t, w)) + Bit(s[1], w)
  <2>1. CASE Bit(s[1], w) = 1
    <3>1. Ones(s, w) = U \cup {1} /\ 1 \notin U
      BY <1>1, <2>1 DEF Ones
    <3> HIDE DEF U
    <3> QED
      BY <1>7, <2>1, <3>1, FS_AddElement
  <2>2. CASE Bit(s[1], w) = 0
    <3>1. Ones(s, w) = U
      BY <1>1, <2>2 DEF Ones
    <3> HIDE DEF U
    <3> QED
      BY <1>6, <1>7, <2>2, <3>1
  <2> QED
    BY <1>5, <2>1, <2>2
<1> QED
  BY <1>2, <1>5, <1>6, <1>8 DEF t

(* What is before a place and what is from there on.                       *)
SplitAt(s, k, p, t) == p = SubSeq(s, 1, k - 1) /\ t = SubSeq(s, k, Len(s))

(* They share the bits of the whole.                                       *)
LEMMA ParitySplit ==
  ASSUME NEW s \in Seq(Octet), NEW k \in 2 .. Len(s),
         NEW p, NEW t, SplitAt(s, k, p, t), NEW w \in Weights
  PROVE  /\ p \in Seq(Octet) /\ t \in Seq(Octet)
         /\ Bit(Parity(s), w) = (Bit(Parity(p), w) + Bit(Parity(t), w)) % 2
<1> DEFINE n == Len(s)
<1>1. n \in Nat /\ k \in 2 .. n /\ DOMAIN s = 1 .. n
  BY LenProperties
<1>2. \A i \in 1 .. n : s[i] \in Octet
  BY ElementOfSeq
<1> HIDE DEF n
<1>3. p \in Seq(Octet) /\ DOMAIN p = 1 .. k - 1 /\ \A i \in 1 .. k - 1 : p[i] = s[i]
  <2> DEFINE j == k - 1
  <2>1. j \in Int /\ 1 <= j /\ j - 1 + 1 = j /\ \A i \in 1 .. j : s[i] \in Octet
    BY <1>1, <1>2
  <2>2. p = SubSeq(s, 1, j)
    BY DEF SplitAt
  <2> HIDE DEF j
  <2>3. /\ p \in Seq(Octet) /\ Len(p) = j
        /\ \A i \in 1 .. j : p[i] = s[1 + i - 1]
    BY <2>1, <2>2, SubSeqProperties
  <2>4. \A i \in 1 .. j : 1 + i - 1 = i
    BY <2>1
  <2> QED
    BY <2>3, <2>4, LenProperties DEF j
<1>4. t \in Seq(Octet) /\ DOMAIN t = 1 .. n - k + 1 /\ \A i \in 1 .. n - k + 1 : t[i] = s[k + i - 1]
  <2>1. k \in Int /\ n \in Int /\ k <= n /\ \A i \in k .. n : s[i] \in Octet
    BY <1>1, <1>2
  <2>2. t = SubSeq(s, k, n)
    BY DEF SplitAt, n
  <2>3. /\ t \in Seq(Octet) /\ Len(t) = n - k + 1
        /\ \A i \in 1 .. n - k + 1 : t[i] = s[k + i - 1]
    BY <2>1, <2>2, SubSeqProperties
  <2> QED
    BY <2>3, LenProperties
<1> DEFINE U == {i \in k .. n : Bit(s[i], w) = 1}
           F == [i \in Ones(t, w) |-> k + i - 1]
<1>5. IsFiniteSet(DOMAIN s) /\ IsFiniteSet(DOMAIN p) /\ IsFiniteSet(DOMAIN t)
  <2>1. \A a, b \in Int : IsFiniteSet(a .. b)
    BY FS_Interval
  <2> QED
    BY <1>1, <1>3, <1>4, <2>1
<1>6. /\ IsFiniteSet(Ones(p, w)) /\ Cardinality(Ones(p, w)) \in Nat
      /\ IsFiniteSet(Ones(t, w)) /\ Cardinality(Ones(t, w)) \in Nat
      /\ Bit(Parity(s), w) = Cardinality(Ones(s, w)) % 2
      /\ Bit(Parity(p), w) = Cardinality(Ones(p, w)) % 2
      /\ Bit(Parity(t), w) = Cardinality(Ones(t, w)) % 2
  BY <1>5, ParityFacts
<1>7. IsFiniteSet(U) /\ Cardinality(U) = Cardinality(Ones(t, w))
  <2>1. Ones(t, w) = {i \in 1 .. n - k + 1 : Bit(s[k + i - 1], w) = 1}
    BY <1>4 DEF Ones
  <2>2. F \in [Ones(t, w) -> U] /\ \A i, j \in Ones(t, w) : F[i] = F[j] => i = j
    BY <1>1, <2>1
  <2>3. \A x \in U : \E i \in Ones(t, w) : F[i] = x
    <3> SUFFICES ASSUME NEW x \in U
                 PROVE  \E i \in Ones(t, w) : F[i] = x
      OBVIOUS
    <3>1. x - k + 1 \in 1 .. n - k + 1 /\ k + (x - k + 1) - 1 = x
      BY <1>1
    <3>2. x - k + 1 \in Ones(t, w)
      BY <2>1, <3>1
    <3> QED
      BY <3>1, <3>2
  <2>4. ExistsBijection(Ones(t, w), U)
    BY <2>2, <2>3, Fun_IsBij, Fun_ExistsBij
  <2>5. U \subseteq DOMAIN s
    BY <1>1
  <2> QED
    BY <1>5, <1>6, <2>4, <2>5, FS_Bijection, FS_Subset
<1> HIDE DEF F
<1>8. Ones(s, w) = Ones(p, w) \cup U /\ Ones(p, w) \cap U = {}
  <2>1. Ones(p, w) = {i \in 1 .. k - 1 : Bit(s[i], w) = 1}
    BY <1>3 DEF Ones
  <2>2. Ones(s, w) = {i \in 1 .. n : Bit(s[i], w) = 1}
    BY <1>1 DEF Ones
  <2>3. \A i \in 1 .. n : i \in 1 .. k - 1 \/ i \in k .. n
    BY <1>1
  <2>4. /\ \A i \in 1 .. k - 1 : i \in 1 .. n /\ i \notin k .. n
        /\ \A i \in k .. n : i \in 1 .. n
    BY <1>1
  <2> QED
    BY <2>1, <2>2, <2>3, <2>4
<1> HIDE DEF U
<1>9. Cardinality(Ones(s, w)) = Cardinality(Ones(p, w)) + Cardinality(Ones(t, w))
  <2>1. Cardinality(Ones(s, w)) = Cardinality(Ones(p, w)) + Cardinality(U) - Cardinality({})
    <3> DEFINE P == Ones(p, w)
    <3>1. Cardinality(P \cup U) = Cardinality(P) + Cardinality(U) - Cardinality(P \cap U)
      <4>1. IsFiniteSet(P) /\ IsFiniteSet(U)
        BY <1>6, <1>7
      <4> HIDE DEF P
      <4> QED
        BY <4>1, FS_Union
    <3> QED
      BY <1>8, <3>1, Zenon
  <2>2. Cardinality({}) = 0
    BY FS_EmptySet
  <2> QED
    BY <1>6, <1>7, <2>1, <2>2
<1>10. \A x, y \in Nat : (x + y) % 2 = ((x % 2) + (y % 2)) % 2
  OBVIOUS
<1> QED
  BY <1>3, <1>4, <1>6, <1>9, <1>10

(* What comes before an end of the same exclusive or cancels out.          *)
LEMMA PrefixCancels ==
  ASSUME NEW s \in Seq(Octet), NEW k \in 2 .. Len(s),
         NEW p, NEW t, SplitAt(s, k, p, t), Parity(t) = Parity(s)
  PROVE  Parity(p) = 0
<1>1. \A w \in Weights : /\ p \in Seq(Octet) /\ t \in Seq(Octet)
                         /\ Bit(Parity(s), w) = (Bit(Parity(p), w) + Bit(Parity(t), w)) % 2
  BY ParitySplit
<1>2. 1 \in Weights
  BY DEF Weights
<1>3. p \in Seq(Octet) /\ t \in Seq(Octet)
  BY <1>1, <1>2
<1>4. Parity(p) \in Octet /\ Parity(t) \in Octet
  <2>1. \A x \in Seq(Octet) : IsFiniteSet(DOMAIN x)
    <3>1. \A x \in Seq(Octet) : DOMAIN x = 1 .. Len(x) /\ Len(x) \in Nat
      BY LenProperties
    <3>2. \A b \in Nat : IsFiniteSet(1 .. b)
      BY FS_Interval
    <3> QED
      BY <3>1, <3>2
  <2> QED
    BY <1>3, <2>1, ParityFacts
<1>5. ASSUME NEW w \in Weights
      PROVE  Bit(Parity(p), w) = Bit(0, w)
  <2>1. Bit(Parity(t), w) = (Bit(Parity(p), w) + Bit(Parity(t), w)) % 2
    BY <1>1, Zenon
  <2>2. Bit(Parity(p), w) \in {0, 1} /\ Bit(Parity(t), w) \in {0, 1}
    BY <1>4, OctetRange, BitType
  <2>3. Bit(0, w) = 0
    BY DEF Weights, Bit
  <2> QED
    BY <2>1, <2>2, <2>3
<1>6. 0 \in Octet
  BY OctetRange
<1> QED
  BY <1>4, <1>5, <1>6, SameBits

(* A buffer of zeros that holds the octets, counted from 0.                *)
LEMMA ParityPadded ==
  ASSUME NEW s \in Seq(Octet), NEW m \in Nat, Len(s) <= m
  PROVE  Parity([i \in 0 .. m - 1 |-> IF i < Len(s) THEN s[i + 1] ELSE 0]) = Parity(s)
<1> DEFINE n == Len(s)
           d == [i \in 0 .. m - 1 |-> IF i < n THEN s[i + 1] ELSE 0]
<1>1. n \in Nat /\ DOMAIN s = 1 .. n /\ DOMAIN d = 0 .. m - 1
  BY LenProperties
<1>2. IsFiniteSet(DOMAIN s) /\ IsFiniteSet(DOMAIN d)
  BY <1>1, FS_Interval
<1>3. ASSUME NEW w \in Weights
      PROVE  Cardinality(Ones(d, w)) = Cardinality(Ones(s, w))
  <2> DEFINE F == [i \in Ones(d, w) |-> i + 1]
  <2>1. Bit(0, w) = 0
    BY DEF Weights, Bit
  <2>2. Ones(d, w) = {i \in 0 .. m - 1 : i < n /\ Bit(s[i + 1], w) = 1}
    BY <1>1, <2>1 DEF Ones
  <2>3. Ones(s, w) = {i \in 1 .. n : Bit(s[i], w) = 1}
    BY <1>1 DEF Ones
  <2>4. F \in [Ones(d, w) -> Ones(s, w)] /\ \A i, j \in Ones(d, w) : F[i] = F[j] => i = j
    BY <1>1, <2>2, <2>3
  <2>5. \A k \in Ones(s, w) : k - 1 \in Ones(d, w) /\ F[k - 1] = k
    <3> SUFFICES ASSUME NEW k \in Ones(s, w)
                 PROVE  k - 1 \in Ones(d, w) /\ F[k - 1] = k
      OBVIOUS
    <3>1. k \in 1 .. n /\ Bit(s[k], w) = 1 /\ (k - 1) + 1 = k
      BY <1>1, <2>3
    <3>2. k - 1 \in Ones(d, w)
      BY <1>1, <2>2, <3>1
    <3> QED
      BY <3>1, <3>2
  <2>6. \A k \in Ones(s, w) : \E i \in Ones(d, w) : F[i] = k
    BY <2>5
  <2>7. ExistsBijection(Ones(d, w), Ones(s, w))
    BY <2>4, <2>6, Fun_IsBij, Fun_ExistsBij
  <2> QED
    BY <1>2, <2>7, FS_Bijection, ParityFacts
<1>4. Parity(d) \in Octet /\ Parity(s) \in Octet
  BY <1>2, ParityFacts
<1>5. \A w \in Weights : Bit(Parity(d), w) = Bit(Parity(s), w)
  BY <1>2, <1>3, ParityFacts
<1> QED
  BY <1>4, <1>5, SameBits

-----------------------------------------------------------------------------
(* A set of numbers that is not empty has a smallest one.                  *)
LEMMA SmallestExists ==
  ASSUME NEW T, T \subseteq Nat, T # {}
  PROVE  \E x \in T : \A y \in T : x <= y
<1> DEFINE R == OpToRel(<, Nat)
<1>1. IsWellFoundedOn(R, Nat)
  BY NatLessThanWellFounded
<1>2. R = {ss \in Nat \X Nat : ss[1] < ss[2]}
  BY DEF OpToRel
<1> HIDE DEF R
<1>3. PICK x \in T : \A y \in T : ~ (<<y, x>> \in R)
  BY <1>1, WFMin
<1>4. ASSUME NEW y \in T
      PROVE  x <= y
  <2>1. x \in Nat /\ y \in Nat
    OBVIOUS
  <2>2. ~ (<<y, x>> \in R)
    BY <1>3
  <2>3. <<y, x>> \in Nat \X Nat /\ <<y, x>>[1] = y /\ <<y, x>>[2] = x
    BY <2>1
  <2>4. ~ (y < x)
    BY <1>2, <2>2, <2>3
  <2> QED
    BY <2>1, <2>4
<1> QED
  BY <1>3, <1>4
=============================================================================
