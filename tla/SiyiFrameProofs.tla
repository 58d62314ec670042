---------------------------- MODULE SiyiFrameProofs ----------------------------
(***************************************************************************)
(* Proofs about the datagrams of SiyiFrame: for any angles and ratios, the *)
(* CRC is the remainder of the bytes at every round of the loop, because   *)
(* every entry of the table is the remainder of its byte, and the camera   *)
(* reads the call that was made.                                           *)
(***************************************************************************)
EXTENDS SiyiFrame, SequenceTheorems, WellFoundedInduction, TLAPS
-----------------------------------------------------------------------------
(* Sums and products of polynomials *)

\* A polynomial is a set of powers; negative ones do no harm.
IsPolynomial(p) == p \subseteq Int

\* Two polynomials with the same powers are the same.
LEMMA SamePowers ==
    ASSUME NEW p, IsPolynomial(p), NEW q, IsPolynomial(q),
           \A x \in Int : x \in p <=> x \in q
    PROVE  p = q
  BY DEF IsPolynomial

\* The sum of two polynomials has the powers that one of them has.
LEMMA PlusMember ==
    ASSUME NEW p, NEW q, NEW x
    PROVE  x \in Plus(p, q) <=> ~(x \in p <=> x \in q)
  BY DEF Plus

\* The sum of two polynomials is a polynomial.
LEMMA PlusType ==
    ASSUME NEW p, IsPolynomial(p), NEW q, IsPolynomial(q)
    PROVE  IsPolynomial(Plus(p, q))
  BY DEF IsPolynomial, Plus

\* A shift moves every power.
LEMMA TimesType ==
    ASSUME NEW p, IsPolynomial(p), NEW n \in Int
    PROVE  IsPolynomial(Times(p, n))
  BY DEF IsPolynomial, Times

LEMMA TimesMember ==
    ASSUME NEW p, IsPolynomial(p), NEW n \in Int, NEW x \in Int
    PROVE  x \in Times(p, n) <=> x - n \in p
<1>1. ASSUME x - n \in p
      PROVE  x \in Times(p, n)
  <2>1. x = (x - n) + n
    OBVIOUS
  <2> QED
    BY <1>1, <2>1 DEF Times
<1>2. ASSUME x \in Times(p, n)
      PROVE  x - n \in p
  <2>1. PICK i \in p : x = i + n
    BY <1>2 DEF Times
  <2>2. i \in Int
    BY DEF IsPolynomial
  <2>3. x - n = i
    BY <2>1, <2>2
  <2> QED
    BY <2>3
<1> QED
  BY <1>1, <1>2

\* A shift of a sum is the sum of the shifts.
LEMMA TimesPlus ==
    ASSUME NEW p, IsPolynomial(p), NEW q, IsPolynomial(q), NEW n \in Int
    PROVE  Times(Plus(p, q), n) = Plus(Times(p, n), Times(q, n))
<1>1. ASSUME NEW x \in Int
      PROVE  x \in Times(Plus(p, q), n) <=> x \in Plus(Times(p, n), Times(q, n))
  <2>1. x \in Times(Plus(p, q), n) <=> x - n \in Plus(p, q)
    BY PlusType, TimesMember
  <2>2. (x \in Times(p, n) <=> x - n \in p) /\ (x \in Times(q, n) <=> x - n \in q)
    BY TimesMember
  <2> QED
    BY <2>1, <2>2, PlusMember
<1> QED
  BY <1>1, PlusType, TimesType, SamePowers

\* The order of two shifts does not matter.
LEMMA TimesTimes ==
    ASSUME NEW p, IsPolynomial(p), NEW m \in Int, NEW n \in Int
    PROVE  Times(Times(p, m), n) = Times(Times(p, n), m)
<1>1. ASSUME NEW x \in Int
      PROVE  x \in Times(Times(p, m), n) <=> x \in Times(Times(p, n), m)
  <2>1. x - n \in Int /\ x - m \in Int /\ (x - n) - m = (x - m) - n
    OBVIOUS
  <2>2. x \in Times(Times(p, m), n) <=> x - n \in Times(p, m)
    BY TimesType, TimesMember
  <2>3. x - n \in Times(p, m) <=> (x - n) - m \in p
    BY <2>1, TimesMember
  <2>4. x \in Times(Times(p, n), m) <=> x - m \in Times(p, n)
    BY TimesType, TimesMember
  <2>5. x - m \in Times(p, n) <=> (x - m) - n \in p
    BY <2>1, TimesMember
  <2> QED
    BY <2>1, <2>2, <2>3, <2>4, <2>5
<1> QED
  BY <1>1, TimesType, SamePowers

\* The product with the generator is a polynomial.
LEMMA ProductType ==
    ASSUME NEW q, IsPolynomial(q)
    PROVE  IsPolynomial(Product(q))
  BY TimesType, PlusType DEF Product

\* The product of a sum is the sum of the products.
LEMMA ProductPlus ==
    ASSUME NEW p, IsPolynomial(p), NEW q, IsPolynomial(q)
    PROVE  Product(Plus(p, q)) = Plus(Product(p), Product(q))
<1>1. ASSUME NEW a, NEW b, NEW c, NEW d, NEW e, NEW f, NEW g, NEW h
      PROVE  Plus(Plus(Plus(a, b), Plus(c, d)), Plus(Plus(e, f), Plus(g, h)))
               = Plus(Plus(Plus(a, c), Plus(e, g)), Plus(Plus(b, d), Plus(f, h)))
  BY DEF Plus
<1>2. /\ Times(Plus(p, q), 16) = Plus(Times(p, 16), Times(q, 16))
      /\ Times(Plus(p, q), 12) = Plus(Times(p, 12), Times(q, 12))
      /\ Times(Plus(p, q), 5) = Plus(Times(p, 5), Times(q, 5))
  BY TimesPlus
<1> QED
  BY <1>1, <1>2 DEF Product

\* The product of a shift is the shift of the product.
LEMMA ProductTimes ==
    ASSUME NEW q, IsPolynomial(q), NEW n \in Int
    PROVE  Times(Product(q), n) = Product(Times(q, n))
<1>1. /\ IsPolynomial(Times(q, 16)) /\ IsPolynomial(Times(q, 12))
      /\ IsPolynomial(Times(q, 5))
  BY TimesType
<1>2. /\ IsPolynomial(Plus(Times(q, 16), Times(q, 12)))
      /\ IsPolynomial(Plus(Times(q, 5), q))
  BY <1>1, PlusType
<1>3. Times(Product(q), n)
        = Plus(Times(Plus(Times(q, 16), Times(q, 12)), n),
               Times(Plus(Times(q, 5), q), n))
  BY <1>2, TimesPlus DEF Product
<1>4. Times(Plus(Times(q, 16), Times(q, 12)), n)
        = Plus(Times(Times(q, 16), n), Times(Times(q, 12), n))
  BY <1>1, TimesPlus
<1>5. Times(Plus(Times(q, 5), q), n) = Plus(Times(Times(q, 5), n), Times(q, n))
  BY <1>1, TimesPlus
<1>6. /\ Times(Times(q, 16), n) = Times(Times(q, n), 16)
      /\ Times(Times(q, 12), n) = Times(Times(q, n), 12)
      /\ Times(Times(q, 5), n) = Times(Times(q, n), 5)
  BY TimesTimes
<1> QED
  BY <1>3, <1>4, <1>5, <1>6 DEF Product
-----------------------------------------------------------------------------
(* The division *)

\* The quotient that goes with an entry of the table (crc16_tab).
LEMMA EntryDivides ==
    ASSUME NEW byte \in SUBSET (0 .. 7)
    PROVE  /\ Quotient(byte) \in SUBSET (0 .. 7)
           /\ Entry(byte) \subseteq 0 .. 15
           /\ Times(byte, 16) = Plus(Product(Quotient(byte)), Entry(byte))
<1>1. \E q \in SUBSET (0 .. 7) : Divides(Times(byte, 16), q, Entry(byte))
  BY TableIsRemainders
<1>2. /\ Quotient(byte) \in SUBSET (0 .. 7)
      /\ Divides(Times(byte, 16), Quotient(byte), Entry(byte))
  BY <1>1, Zenon DEF Quotient
<1> QED
  BY <1>2 DEF Divides

\* A word is its two bytes.
LEMMA WordOfBytes ==
    ASSUME NEW w \in SUBSET (0 .. 15)
    PROVE  /\ Low(w) \in SUBSET (0 .. 7) /\ High(w) \in SUBSET (0 .. 7)
           /\ w = Low(w) \cup Times(High(w), 8)
           /\ Times(w, 8) = Plus(Times(Low(w), 8), Times(High(w), 16))
<1>1. /\ Low(w) \in SUBSET (0 .. 7) /\ High(w) \in SUBSET (0 .. 7)
      /\ IsPolynomial(Low(w)) /\ IsPolynomial(High(w)) /\ IsPolynomial(w)
  BY DEF Low, High, IsPolynomial
<1>2. ASSUME NEW x \in Int
      PROVE  /\ x \in w <=> x \in Low(w) \/ x - 8 \in High(w)
             /\ ~(x \in Low(w) /\ x - 8 \in High(w))
  BY DEF Low, High
<1>3. w = Low(w) \cup Times(High(w), 8)
  <2>1. IsPolynomial(Low(w) \cup Times(High(w), 8))
    <3>1. IsPolynomial(Times(High(w), 8))
      BY <1>1, TimesType
    <3> QED
      BY <1>1, <3>1 DEF IsPolynomial
  <2>2. ASSUME NEW x \in Int
        PROVE  x \in w <=> x \in Low(w) \cup Times(High(w), 8)
    <3>1. x \in Times(High(w), 8) <=> x - 8 \in High(w)
      BY <1>1, TimesMember
    <3> QED
      BY <1>2, <3>1
  <2> QED
    BY <1>1, <2>1, <2>2, SamePowers
<1>4. Times(w, 8) = Plus(Times(Low(w), 8), Times(High(w), 16))
  <2>1. ASSUME NEW x \in Int
        PROVE  x \in Times(w, 8)
                 <=> x \in Plus(Times(Low(w), 8), Times(High(w), 16))
    <3>1. x - 8 \in Int /\ (x - 8) - 8 = x - 16
      OBVIOUS
    <3>2. /\ x \in Times(w, 8) <=> x - 8 \in w
          /\ x \in Times(Low(w), 8) <=> x - 8 \in Low(w)
          /\ x \in Times(High(w), 16) <=> x - 16 \in High(w)
      BY <1>1, TimesMember
    <3> QED
      BY <1>2, <3>1, <3>2, PlusMember
  <2> QED
    BY <1>1, <2>1, PlusType, TimesType, SamePowers
<1> QED
  BY <1>1, <1>3, <1>4

\* One round of the loop is one step of the division: if c is the remainder of
\* the bytes so far, the new value is that of one byte more (crc16_calculate).
LEMMA RoundDivides ==
    ASSUME NEW m, IsPolynomial(m), NEW q, IsPolynomial(q),
           NEW c \in SUBSET (0 .. 15), NEW byte \in SUBSET (0 .. 7),
           Divides(Times(m, 16), q, c)
    PROVE  Divides(Times(Plus(Times(m, 8), byte), 16),
                   Plus(Times(q, 8), Quotient(Plus(High(c), byte))),
                   CrcRound(c, byte))
<1> DEFINE h == Plus(High(c), byte)
           P == Product(Times(q, 8))
           L == Times(Low(c), 8)
           H == Times(High(c), 16)
           B == Times(byte, 16)
<1>1. /\ Low(c) \in SUBSET (0 .. 7) /\ High(c) \in SUBSET (0 .. 7)
      /\ Times(c, 8) = Plus(L, H)
  BY WordOfBytes
<1>2. /\ h \in SUBSET (0 .. 7)
      /\ IsPolynomial(c) /\ IsPolynomial(byte) /\ IsPolynomial(High(c))
  <2>1. h \in SUBSET (0 .. 7)
    BY <1>1 DEF Plus
  <2> QED
    BY <1>1, <2>1 DEF IsPolynomial
<1>3. /\ Quotient(h) \in SUBSET (0 .. 7) /\ Entry(h) \subseteq 0 .. 15
      /\ Times(h, 16) = Plus(Product(Quotient(h)), Entry(h))
  BY <1>2, EntryDivides
<1>4. Times(h, 16) = Plus(H, B)
  BY <1>2, TimesPlus
<1>5. Times(Times(m, 16), 8) = Plus(P, Plus(L, H))
  <2>1. Times(m, 16) = Plus(Product(q), c)
    BY DEF Divides
  <2>2. IsPolynomial(Product(q))
    BY ProductType
  <2>3. Times(Plus(Product(q), c), 8) = Plus(Times(Product(q), 8), Times(c, 8))
    BY <1>2, <2>2, TimesPlus
  <2>4. Times(Product(q), 8) = P
    BY ProductTimes
  <2> QED
    BY <1>1, <2>1, <2>3, <2>4
<1>6. Times(Plus(Times(m, 8), byte), 16) = Plus(Plus(P, Plus(L, H)), B)
  <2>1. IsPolynomial(Times(m, 8))
    BY TimesType
  <2>2. Times(Plus(Times(m, 8), byte), 16) = Plus(Times(Times(m, 8), 16), B)
    BY <1>2, <2>1, TimesPlus
  <2>3. Times(Times(m, 8), 16) = Times(Times(m, 16), 8)
    BY TimesTimes
  <2> QED
    BY <1>5, <2>2, <2>3
<1>7. Product(Plus(Times(q, 8), Quotient(h))) = Plus(P, Product(Quotient(h)))
  <2>1. IsPolynomial(Times(q, 8)) /\ IsPolynomial(Quotient(h))
    <3>1. IsPolynomial(Times(q, 8))
      BY TimesType
    <3>2. IsPolynomial(Quotient(h))
      BY <1>3 DEF IsPolynomial
    <3> QED
      BY <3>1, <3>2
  <2> QED
    BY <2>1, ProductPlus
<1>8. CrcRound(c, byte) = Plus(L, Entry(h))
  BY DEF CrcRound
<1>9. Plus(L, Entry(h)) \subseteq 0 .. 15
  <2>1. L \subseteq 0 .. 15
    BY <1>1 DEF Times
  <2> QED
    BY <1>3, <2>1 DEF Plus
<1>10. ASSUME NEW p, NEW l, NEW a, NEW b, NEW r, NEW e, Plus(a, b) = Plus(r, e)
       PROVE  Plus(Plus(p, Plus(l, a)), b) = Plus(Plus(p, r), Plus(l, e))
  <2>1. ASSUME NEW x
        PROVE  x \in Plus(Plus(p, Plus(l, a)), b)
                 <=> x \in Plus(Plus(p, r), Plus(l, e))
    <3>1. x \in Plus(a, b) <=> x \in Plus(r, e)
      BY <1>10
    <3> QED
      BY <3>1, PlusMember
  <2> QED
    BY <2>1
<1>11. Plus(Plus(P, Plus(L, H)), B)
         = Plus(Plus(P, Product(Quotient(h))), Plus(L, Entry(h)))
  <2>1. Plus(H, B) = Plus(Product(Quotient(h)), Entry(h))
    BY <1>3, <1>4
  <2> HIDE DEF P, L, H, B, h
  <2> QED
    BY <1>10, <2>1
<1> QED
  BY <1>6, <1>7, <1>8, <1>9, <1>11 DEF Divides
\* A set of numbers that is bounded and not empty has a greatest one.
LEMMA Greatest ==
    ASSUME NEW n \in Nat, NEW d \in SUBSET (0 .. n), d # {}
    PROVE  \E i \in d : \A k \in d : k <= i
<1> DEFINE T == {k \in Nat : n - k \in d}
           R == OpToRel(<, Nat)
<1>1. T \subseteq Nat /\ T # {}
  <2>1. PICK i \in d : TRUE
    OBVIOUS
  <2>2. n - i \in Nat /\ n - (n - i) = i
    BY <2>1
  <2>3. n - i \in T
    BY <2>1, <2>2
  <2> QED
    BY <2>3
<1>2. \E k \in T : \A l \in T : ~(<<l, k>> \in R)
  <2>1. IsWellFoundedOn(R, Nat)
    BY NatLessThanWellFounded
  <2> HIDE DEF T, R
  <2> QED
    BY <1>1, <2>1, WFMin
<1>3. PICK k \in T : \A l \in T : ~(<<l, k>> \in R)
  BY <1>2
<1>4. ASSUME NEW l \in T
      PROVE  k <= l
  <2>1. ~(<<l, k>> \in R)
    BY <1>3
  <2> QED
    BY <2>1 DEF OpToRel
<1>5. ASSUME NEW j \in d
      PROVE  j <= n - k
  <2>1. n - j \in Nat /\ n - (n - j) = j
    OBVIOUS
  <2>2. n - j \in T
    BY <2>1
  <2> QED
    BY <1>4, <2>1, <2>2
<1> QED
  BY <1>5

\* A remainder is unique: the product of a quotient that is not empty has a
\* power beyond every remainder.
LEMMA RemainderUnique ==
    ASSUME NEW p, NEW n \in Nat,
           NEW q \in SUBSET (0 .. n), NEW r, Divides(p, q, r),
           NEW u \in SUBSET (0 .. n), NEW v, Divides(p, u, v)
    PROVE  q = u /\ r = v
<1> DEFINE d == Plus(q, u)
<1>1. /\ p = Plus(Product(q), r) /\ r \subseteq 0 .. 15
      /\ p = Plus(Product(u), v) /\ v \subseteq 0 .. 15
  BY DEF Divides
<1>2. Product(d) = Plus(r, v)
  <2>1. IsPolynomial(q) /\ IsPolynomial(u)
    BY DEF IsPolynomial
  <2>2. Product(d) = Plus(Product(q), Product(u))
    BY <2>1, ProductPlus
  <2>3. ASSUME NEW a, NEW b, Plus(a, r) = Plus(b, v)
        PROVE  Plus(a, b) = Plus(r, v)
    <3>1. ASSUME NEW x
          PROVE  x \in Plus(a, b) <=> x \in Plus(r, v)
      <4>1. x \in Plus(a, r) <=> x \in Plus(b, v)
        BY <2>3
      <4> QED
        BY <4>1, PlusMember
    <3> QED
      BY <3>1
  <2> QED
    BY <1>1, <2>2, <2>3
<1>3. d \in SUBSET (0 .. n)
  BY DEF Plus
<1>4. ASSUME d # {}
      PROVE  FALSE
  <2>1. PICK i \in d : \A k \in d : k <= i
    BY <1>3, <1>4, Greatest
  <2>2. IsPolynomial(d) /\ i \in Int /\ i >= 0
    BY <1>3 DEF IsPolynomial
  <2>3. i + 4 \notin d /\ i + 11 \notin d /\ i + 16 \notin d
    BY <2>1, <2>2
  <2> DEFINE x == i + 16
  <2>4. /\ x \in Int /\ x - 16 = i /\ x - 12 = i + 4 /\ x - 5 = i + 11
        /\ x > 15
    BY <2>2
  <2> HIDE DEF x, d
  <2>5. /\ x \in Times(d, 16) <=> i \in d
        /\ x \in Times(d, 12) <=> i + 4 \in d
        /\ x \in Times(d, 5) <=> i + 11 \in d
    BY <2>2, <2>4, TimesMember
  <2>6. x \notin d
    BY <2>3 DEF x
  <2>7. x \in Product(d)
    BY <2>1, <2>3, <2>5, <2>6, PlusMember DEF Product
  <2>8. x \notin Plus(r, v)
    BY <1>1, <2>4 DEF Plus
  <2> QED
    BY <1>2, <2>7, <2>8
<1>5. q = u
  BY <1>4 DEF Plus
<1>6. r = v
  <2>1. ASSUME NEW a, Plus(a, r) = Plus(a, v)
        PROVE  r = v
    <3>1. ASSUME NEW x
          PROVE  x \in r <=> x \in v
      <4>1. x \in Plus(a, r) <=> x \in Plus(a, v)
        BY <2>1
      <4> QED
        BY <4>1, PlusMember
    <3> QED
      BY <3>1
  <2> QED
    BY <1>1, <1>5, <2>1
<1> QED
  BY <1>5, <1>6
-----------------------------------------------------------------------------
(* Bytes and their bits *)

\* The bits of a byte.
LEMMA BitsMember ==
    ASSUME NEW n
    PROVE  /\ Bits(n) \in SUBSET (0 .. 7)
           /\ 0 \in Bits(n) <=> (n \div 1) % 2 = 1
           /\ 1 \in Bits(n) <=> (n \div 2) % 2 = 1
           /\ 2 \in Bits(n) <=> (n \div 4) % 2 = 1
           /\ 3 \in Bits(n) <=> (n \div 8) % 2 = 1
           /\ 4 \in Bits(n) <=> (n \div 16) % 2 = 1
           /\ 5 \in Bits(n) <=> (n \div 32) % 2 = 1
           /\ 6 \in Bits(n) <=> (n \div 64) % 2 = 1
           /\ 7 \in Bits(n) <=> (n \div 128) % 2 = 1
<1>1. /\ Weight[1] = 1 /\ Weight[2] = 2 /\ Weight[3] = 4 /\ Weight[4] = 8
      /\ Weight[5] = 16 /\ Weight[6] = 32 /\ Weight[7] = 64
      /\ Weight[8] = 128
  BY DEF Weight
<1> QED
  BY <1>1 DEF Bits

\* The byte of some bits has these bits.
LEMMA BitsOfValue ==
    ASSUME NEW p \in SUBSET (0 .. 7)
    PROVE  Value(p) \in Byte /\ Bits(Value(p)) = p
<1> DEFINE one(i) == IF i \in p THEN 1 ELSE 0
           n == Value(p)
<1>1. \A i \in 0 .. 7 : one(i) \in {0, 1} /\ (one(i) = 1 <=> i \in p)
  OBVIOUS
<1>2. n = one(0) + 2 * one(1) + 4 * one(2) + 8 * one(3) + 16 * one(4)
          + 32 * one(5) + 64 * one(6) + 128 * one(7)
  <2>1. /\ Bit(p, 0) = one(0) /\ Bit(p, 1) = 2 * one(1)
        /\ Bit(p, 2) = 4 * one(2) /\ Bit(p, 3) = 8 * one(3)
        /\ Bit(p, 4) = 16 * one(4) /\ Bit(p, 5) = 32 * one(5)
        /\ Bit(p, 6) = 64 * one(6) /\ Bit(p, 7) = 128 * one(7)
    BY DEF Bit, Weight
  <2> HIDE DEF one
  <2> QED
    BY <2>1 DEF Value
<1> HIDE DEF one, n
<1>3. /\ one(0) \in {0, 1} /\ one(1) \in {0, 1} /\ one(2) \in {0, 1}
      /\ one(3) \in {0, 1} /\ one(4) \in {0, 1} /\ one(5) \in {0, 1}
      /\ one(6) \in {0, 1} /\ one(7) \in {0, 1}
  BY <1>1
<1>4. /\ n \in Nat /\ n < 256
      /\ (n \div 1) % 2 = one(0) /\ (n \div 2) % 2 = one(1)
      /\ (n \div 4) % 2 = one(2) /\ (n \div 8) % 2 = one(3)
      /\ (n \div 16) % 2 = one(4) /\ (n \div 32) % 2 = one(5)
      /\ (n \div 64) % 2 = one(6) /\ (n \div 128) % 2 = one(7)
  <2>1. PICK a \in {0, 1}, b \in {0, 1}, c \in {0, 1}, d \in {0, 1},
             e \in {0, 1}, f \in {0, 1}, g \in {0, 1}, h \in {0, 1} :
          /\ a = one(0) /\ b = one(1) /\ c = one(2) /\ d = one(3)
          /\ e = one(4) /\ f = one(5) /\ g = one(6) /\ h = one(7)
    BY <1>3
  <2>2. n = a + 2 * b + 4 * c + 8 * d + 16 * e + 32 * f + 64 * g + 128 * h
    BY <1>2, <2>1
  <2>3. /\ n \in Nat /\ n < 256
        /\ (n \div 1) % 2 = a /\ (n \div 2) % 2 = b
        /\ (n \div 4) % 2 = c /\ (n \div 8) % 2 = d
        /\ (n \div 16) % 2 = e /\ (n \div 32) % 2 = f
        /\ (n \div 64) % 2 = g /\ (n \div 128) % 2 = h
    <3>1. n \in Nat /\ n < 256
      BY <2>2
    <3>2. (n \div 1) % 2 = a /\ (n \div 2) % 2 = b
      BY <2>2
    <3>3. (n \div 4) % 2 = c /\ (n \div 8) % 2 = d
      BY <2>2
    <3>4. (n \div 16) % 2 = e /\ (n \div 32) % 2 = f
      BY <2>2
    <3>5. (n \div 64) % 2 = g /\ (n \div 128) % 2 = h
      BY <2>2
    <3> QED
      BY <3>1, <3>2, <3>3, <3>4, <3>5
  <2> QED
    BY <2>1, <2>3
<1>5. \A i \in 0 .. 7 : i \in Bits(n) <=> i \in p
  <2>1. /\ (0 \in Bits(n) <=> 0 \in p) /\ (1 \in Bits(n) <=> 1 \in p)
        /\ (2 \in Bits(n) <=> 2 \in p) /\ (3 \in Bits(n) <=> 3 \in p)
        /\ (4 \in Bits(n) <=> 4 \in p) /\ (5 \in Bits(n) <=> 5 \in p)
        /\ (6 \in Bits(n) <=> 6 \in p) /\ (7 \in Bits(n) <=> 7 \in p)
    <3>1. /\ (one(0) = 1 <=> 0 \in p) /\ (one(1) = 1 <=> 1 \in p)
          /\ (one(2) = 1 <=> 2 \in p) /\ (one(3) = 1 <=> 3 \in p)
          /\ (one(4) = 1 <=> 4 \in p) /\ (one(5) = 1 <=> 5 \in p)
          /\ (one(6) = 1 <=> 6 \in p) /\ (one(7) = 1 <=> 7 \in p)
      BY <1>1
    <3>2. /\ (0 \in Bits(n) <=> one(0) = 1) /\ (1 \in Bits(n) <=> one(1) = 1)
          /\ (2 \in Bits(n) <=> one(2) = 1) /\ (3 \in Bits(n) <=> one(3) = 1)
          /\ (4 \in Bits(n) <=> one(4) = 1) /\ (5 \in Bits(n) <=> one(5) = 1)
          /\ (6 \in Bits(n) <=> one(6) = 1) /\ (7 \in Bits(n) <=> one(7) = 1)
      BY <1>4, BitsMember, SMTT(60)
    <3> QED
      BY <3>1, <3>2
  <2> QED
    BY <2>1
<1>6. Bits(n) \in SUBSET (0 .. 7)
  BY BitsMember
<1> QED
  BY <1>4, <1>5, <1>6 DEF n, Byte

\* A word that is stored as two bytes and put together is the same word
\* (memcpy of crc16).
LEMMA StoredWord ==
    ASSUME NEW w \in SUBSET (0 .. 15)
    PROVE  Word(Value(Low(w)) + 256 * Value(High(w))) = w
<1>1. /\ Low(w) \in SUBSET (0 .. 7) /\ High(w) \in SUBSET (0 .. 7)
      /\ w = Low(w) \cup Times(High(w), 8)
  BY WordOfBytes
<1>2. /\ Value(Low(w)) \in Byte /\ Bits(Value(Low(w))) = Low(w)
      /\ Value(High(w)) \in Byte /\ Bits(Value(High(w))) = High(w)
  BY <1>1, BitsOfValue
<1>3. ASSUME NEW l \in Byte, NEW h \in Byte
      PROVE  (l + 256 * h) % 256 = l /\ (l + 256 * h) \div 256 = h
  BY DEF Byte
<1> DEFINE n == Value(Low(w)) + 256 * Value(High(w))
<1>4. n % 256 = Value(Low(w)) /\ n \div 256 = Value(High(w))
  BY <1>2, <1>3
<1>5. Word(n) = Low(w) \cup Times(High(w), 8)
  BY <1>2, <1>4 DEF Word
<1> QED
  BY <1>1, <1>5

\* The polynomial of one byte more is that of the bytes so far, shifted, and
\* the byte.
LEMMA OneByteMore ==
    ASSUME NEW s, NEW n \in Nat
    PROVE  /\ Polynomial(s, n) \in SUBSET Nat
           /\ Polynomial(s, n + 1)
                = Plus(Times(Polynomial(s, n), 8), Bits(s[n + 1]))
<1> DEFINE p == Polynomial(s, n)
           b == Bits(s[n + 1])
<1>1. /\ p \in SUBSET Nat /\ IsPolynomial(p)
      /\ b \in SUBSET (0 .. 7) /\ IsPolynomial(b)
      /\ IsPolynomial(Polynomial(s, n + 1))
  <2>1. b \in SUBSET (0 .. 7)
    BY BitsMember
  <2>2. p \in SUBSET Nat
    <3>1. 8 * n - 1 \in Int
      OBVIOUS
    <3> QED
      BY <3>1 DEF Polynomial
  <2>3. IsPolynomial(Polynomial(s, n + 1))
    <3>1. 8 * (n + 1) - 1 \in Int
      OBVIOUS
    <3> QED
      BY <3>1 DEF Polynomial, IsPolynomial
  <2> QED
    BY <2>1, <2>2, <2>3 DEF IsPolynomial
<1>2. ASSUME NEW x \in Int
      PROVE  x \in Polynomial(s, n + 1) <=> x \in Plus(Times(p, 8), b)
  <2>1. x \in Times(p, 8) <=> x - 8 \in p
    BY <1>1, TimesMember
  <2>2. x - 8 \in p <=> /\ x - 8 \in 0 .. 8 * n - 1
                        /\ (x - 8) % 8 \in Bits(s[n - (x - 8) \div 8])
    BY DEF Polynomial
  <2>3. x \in Polynomial(s, n + 1)
          <=> /\ x \in 0 .. 8 * (n + 1) - 1
              /\ x % 8 \in Bits(s[(n + 1) - x \div 8])
    BY DEF Polynomial
  <2>4. /\ (x - 8) % 8 = x % 8
        /\ n - (x - 8) \div 8 = (n + 1) - x \div 8
    OBVIOUS
  <2>5. CASE x \in 0 .. 7
    <3>1. /\ x % 8 = x /\ (n + 1) - x \div 8 = n + 1
          /\ x \in 0 .. 8 * (n + 1) - 1 /\ ~(x - 8 \in 0 .. 8 * n - 1)
      BY <2>5
    <3> QED
      BY <2>1, <2>2, <2>3, <3>1, PlusMember
  <2>6. CASE x \notin 0 .. 7
    <3>1. x \in 0 .. 8 * (n + 1) - 1 <=> x - 8 \in 0 .. 8 * n - 1
      BY <2>6
    <3>2. x \notin b
      BY <1>1, <2>6
    <3> QED
      BY <2>1, <2>2, <2>3, <2>4, <3>1, <3>2, PlusMember
  <2> QED
    BY <2>5, <2>6
<1>3. IsPolynomial(Plus(Times(p, 8), b))
  BY <1>1, TimesType, PlusType
<1> QED
  BY <1>1, <1>2, <1>3, SamePowers
-----------------------------------------------------------------------------
(* Packing *)

\* A number of 16 bits is stored as two bytes, and read as it was, whatever its
\* sign (siyi_cam_gimbal_rotate).
LEMMA StoredNumber ==
    ASSUME NEW n \in Int, -32768 < n, n < 32768
    PROVE  /\ Bytes16(n)[1] \in Byte /\ Bytes16(n)[2] \in Byte
           /\ Bytes16(n) \in Seq(Byte) /\ Len(Bytes16(n)) = 2
           /\ Number16(Bytes16(n)[1], Bytes16(n)[2]) = n
<1>1. /\ n % 256 \in Byte /\ (n % 65536) \div 256 \in Byte
      /\ (n % 256) + 256 * ((n % 65536) \div 256) = n % 65536
      /\ n % 65536 = IF n >= 0 THEN n ELSE n + 65536
  BY DEF Byte
<1>2. Bytes16(n)[1] = n % 256 /\ Bytes16(n)[2] = (n % 65536) \div 256
  BY DEF Bytes16
<1>3. Bytes16(n) \in Seq(Byte) /\ Len(Bytes16(n)) = 2
  BY <1>1 DEF Bytes16
<1>4. Number16(n % 256, (n % 65536) \div 256) = n
  BY <1>1 DEF Number16
<1> QED
  BY <1>1, <1>2, <1>3, <1>4

\* The head of a frame (siyi_cam_pack_common).
LEMMA Head8 ==
    ASSUME NEW len \in Byte, NEW cmd \in Byte
    PROVE  /\ PackCommon(len, cmd) \in Seq(Byte)
           /\ Len(PackCommon(len, cmd)) = 8
           /\ PackCommon(len, cmd)[4] = len
           /\ PackCommon(len, cmd)[5] = 0
           /\ PackCommon(len, cmd)[8] = cmd
<1>1. /\ Bytes16(len)[1] = len /\ Bytes16(len)[2] = 0
      /\ Bytes16(0)[1] = 0 /\ Bytes16(0)[2] = 0
  BY DEF Bytes16, Byte
<1>2. 85 \in Byte /\ 102 \in Byte /\ 1 \in Byte /\ 0 \in Byte
  BY DEF Byte
<1> QED
  BY <1>1, <1>2 DEF PackCommon

\* The parts of a frame are where the camera looks for them.
LEMMA Joined ==
    ASSUME NEW s \in Seq(Byte), NEW t \in Seq(Byte)
    PROVE  /\ s \o t \in Seq(Byte) /\ Len(s \o t) = Len(s) + Len(t)
           /\ \A i \in 1 .. Len(s) : (s \o t)[i] = s[i]
           /\ \A i \in 1 .. Len(t) : (s \o t)[Len(s) + i] = t[i]
  OBVIOUS

\* What a frame is, for each of the calls: its bytes, its length and the fields
\* in it (siyi_cam_manual_zoom, siyi_cam_gimbal_rotate,
\* siyi_cam_gimbal_centering).
LEMMA ZoomFrame ==
    ASSUME NEW ratio \in Ratios
    PROVE  LET f == ManualZoom(ratio) IN
             /\ f \in Seq(Byte) /\ Len(f) = 10
             /\ f[4] = 2 /\ f[5] = 0 /\ f[8] = 15
             /\ 10 * f[9] + f[10] = ratio
<1>1. ratio \in Nat /\ ratio < 2560
  BY FrameAssumption
<1>2. /\ ratio \div 10 \in Byte /\ ratio % 10 \in Byte
      /\ 10 * (ratio \div 10) + (ratio % 10) = ratio
  BY <1>1 DEF Byte
<1> DEFINE h == PackCommon(2, 15)
           d == <<ratio \div 10, ratio % 10>>
<1>3. /\ h \in Seq(Byte) /\ Len(h) = 8 /\ h[4] = 2 /\ h[5] = 0 /\ h[8] = 15
  BY Head8 DEF Byte
<1>4. /\ d \in Seq(Byte) /\ Len(d) = 2
      /\ d[1] = ratio \div 10 /\ d[2] = ratio % 10
  BY <1>2
<1>5. ManualZoom(ratio) = h \o d
  BY DEF ManualZoom
<1> DEFINE f == h \o d
<1> HIDE DEF h, d
<1>6. /\ f \in Seq(Byte) /\ Len(f) = 8 + Len(d)
      /\ \A i \in 1 .. 8 : f[i] = h[i]
      /\ \A i \in 1 .. Len(d) : f[8 + i] = d[i]
  <2>1. h \in Seq(Byte) /\ d \in Seq(Byte)
    BY <1>3, <1>4
  <2>2. /\ f \in Seq(Byte) /\ Len(f) = Len(h) + Len(d)
        /\ \A i \in 1 .. Len(h) : f[i] = h[i]
        /\ \A i \in 1 .. Len(d) : f[Len(h) + i] = d[i]
    BY <2>1, Joined, Zenon
  <2> HIDE DEF f
  <2> QED
    BY <2>2, <1>3
<1> HIDE DEF f
<1>7. f[4] = h[4] /\ f[5] = h[5] /\ f[8] = h[8]
  BY <1>6
<1>8. f[8 + 1] = d[1] /\ f[8 + 2] = d[2]
  BY <1>4, <1>6
<1>9. f[9] = d[1] /\ f[10] = d[2] /\ Len(f) = 10
  BY <1>4, <1>6, <1>8
<1>10. ManualZoom(ratio) = f
  BY <1>5 DEF f
<1> QED
  BY <1>2, <1>3, <1>4, <1>6, <1>7, <1>9, <1>10

LEMMA RotateFrame ==
    ASSUME NEW yaw \in Signed, NEW pitch \in Signed
    PROVE  LET f == GimbalRotate(yaw, pitch) IN
             /\ f \in Seq(Byte) /\ Len(f) = 12
             /\ f[4] = 4 /\ f[5] = 0 /\ f[8] = 14
             /\ Number16(f[9], f[10]) = yaw /\ Number16(f[11], f[12]) = pitch
<1>1. /\ yaw \in Int /\ -32768 < yaw /\ yaw < 32768
      /\ pitch \in Int /\ -32768 < pitch /\ pitch < 32768
  <2>1. ASSUME NEW a \in Angles
        PROVE  /\ a \in Int /\ -32768 < a /\ a < 32768
               /\ -a \in Int /\ -32768 < -a /\ -a < 32768
    BY FrameAssumption
  <2> QED
    BY <2>1 DEF Signed
<1> DEFINE h == PackCommon(4, 14)
           y == Bytes16(yaw)
           p == Bytes16(pitch)
<1>2. /\ h \in Seq(Byte) /\ Len(h) = 8 /\ h[4] = 4 /\ h[5] = 0 /\ h[8] = 14
  BY Head8 DEF Byte
<1>3. /\ y \in Seq(Byte) /\ Len(y) = 2 /\ Number16(y[1], y[2]) = yaw
      /\ p \in Seq(Byte) /\ Len(p) = 2 /\ Number16(p[1], p[2]) = pitch
  BY <1>1, StoredNumber
<1>4. GimbalRotate(yaw, pitch) = (h \o y) \o p
  BY DEF GimbalRotate
<1> HIDE DEF h, y, p
<1> DEFINE g == h \o y
           f == g \o p
<1>5. /\ g \in Seq(Byte) /\ Len(g) = 8 + Len(y)
      /\ \A i \in 1 .. 8 : g[i] = h[i]
      /\ \A i \in 1 .. Len(y) : g[8 + i] = y[i]
  <2>1. h \in Seq(Byte) /\ y \in Seq(Byte)
    BY <1>2, <1>3
  <2>2. /\ g \in Seq(Byte) /\ Len(g) = Len(h) + Len(y)
        /\ \A i \in 1 .. Len(h) : g[i] = h[i]
        /\ \A i \in 1 .. Len(y) : g[Len(h) + i] = y[i]
    BY <2>1, Joined, Zenon
  <2> HIDE DEF g
  <2> QED
    BY <2>2, <1>2
<1> HIDE DEF g
<1>6. /\ Len(g) = 10 /\ g[4] = h[4] /\ g[5] = h[5] /\ g[8] = h[8]
      /\ g[8 + 1] = y[1] /\ g[8 + 2] = y[2]
  BY <1>3, <1>5
<1>7. /\ f \in Seq(Byte) /\ Len(f) = 10 + Len(p)
      /\ \A i \in 1 .. 10 : f[i] = g[i]
      /\ \A i \in 1 .. Len(p) : f[10 + i] = p[i]
  <2>1. g \in Seq(Byte) /\ p \in Seq(Byte)
    BY <1>3, <1>5
  <2>2. /\ f \in Seq(Byte) /\ Len(f) = Len(g) + Len(p)
        /\ \A i \in 1 .. Len(g) : f[i] = g[i]
        /\ \A i \in 1 .. Len(p) : f[Len(g) + i] = p[i]
    BY <2>1, Joined, Zenon
  <2> HIDE DEF f
  <2> QED
    BY <2>2, <1>6
<1> HIDE DEF f
<1>8. /\ f[4] = g[4] /\ f[5] = g[5] /\ f[8] = g[8]
      /\ f[8 + 1] = g[8 + 1] /\ f[8 + 2] = g[8 + 2]
      /\ f[10 + 1] = p[1] /\ f[10 + 2] = p[2]
  BY <1>3, <1>7
<1>9. /\ f[9] = y[1] /\ f[10] = y[2] /\ f[11] = p[1] /\ f[12] = p[2]
      /\ Len(f) = 12
  BY <1>3, <1>6, <1>7, <1>8
<1>10. GimbalRotate(yaw, pitch) = f
  BY <1>4 DEF f, g
<1> QED
  BY <1>2, <1>3, <1>6, <1>7, <1>8, <1>9, <1>10

LEMMA CentreFrame ==
    /\ GimbalCentering \in Seq(Byte) /\ Len(GimbalCentering) = 9
    /\ GimbalCentering[4] = 1 /\ GimbalCentering[5] = 0
    /\ GimbalCentering[8] = 8
<1> DEFINE h == PackCommon(1, 8)
<1>1. /\ h \in Seq(Byte) /\ Len(h) = 8 /\ h[4] = 1 /\ h[5] = 0 /\ h[8] = 8
  BY Head8 DEF Byte
<1>2. <<1>> \in Seq(Byte) /\ Len(<<1>>) = 1
  BY DEF Byte
<1> DEFINE f == h \o <<1>>
<1>3. GimbalCentering = f
  BY DEF GimbalCentering
<1> HIDE DEF h
<1>4. /\ f \in Seq(Byte) /\ Len(f) = 8 + Len(<<1>>)
      /\ \A i \in 1 .. 8 : f[i] = h[i]
  <2>1. h \in Seq(Byte) /\ <<1>> \in Seq(Byte)
    BY <1>1, <1>2
  <2>2. /\ f \in Seq(Byte) /\ Len(f) = Len(h) + Len(<<1>>)
        /\ \A i \in 1 .. Len(h) : f[i] = h[i]
    BY <2>1, Joined, Zenon
  <2> HIDE DEF f
  <2> QED
    BY <2>2, <1>1
<1> HIDE DEF f
<1>5. f[4] = h[4] /\ f[5] = h[5] /\ f[8] = h[8] /\ Len(f) = 9
  BY <1>2, <1>4
<1> QED
  BY <1>1, <1>3, <1>4, <1>5

\* The kinds of calls.
LEMMA CallKinds ==
    ASSUME NEW c \in Calls
    PROVE  /\ c # Idle
           /\ \/ /\ c.name = "zoom" /\ c.ratio \in Ratios
                 /\ c = [name |-> "zoom", ratio |-> c.ratio]
              \/ /\ c.name = "rotate" /\ c.yaw \in Signed /\ c.pitch \in Signed
                 /\ c = [name |-> "rotate", yaw |-> c.yaw, pitch |-> c.pitch]
              \/ c = [name |-> "centre"]
  BY DEF Calls, Idle

LEMMA FrameTyped ==
    ASSUME NEW c \in Calls
    PROVE  Frame(c) \in Seq(Byte)
<1>1. CASE c.name = "zoom" /\ c.ratio \in Ratios
  BY <1>1, ZoomFrame DEF Frame
<1>2. CASE c.name = "rotate" /\ c.yaw \in Signed /\ c.pitch \in Signed
  BY <1>2, RotateFrame DEF Frame
<1>3. CASE c.name = "centre"
  BY <1>3, CentreFrame DEF Frame
<1>4. c = [name |-> "centre"] => c.name = "centre"
  OBVIOUS
<1> QED
  BY <1>1, <1>2, <1>3, <1>4, CallKinds
-----------------------------------------------------------------------------
(* The inductive invariant *)

\* The polynomial of some bytes is that of any sequence that begins with them.
LEMMA PolynomialPrefix ==
    ASSUME NEW s, NEW t, NEW n \in Nat, \A i \in 1 .. n : s[i] = t[i]
    PROVE  Polynomial(s, n) = Polynomial(t, n)
<1>1. ASSUME NEW x \in 0 .. 8 * n - 1
      PROVE  s[n - x \div 8] = t[n - x \div 8]
  <2>1. n - x \div 8 \in 1 .. n
    OBVIOUS
  <2> QED
    BY <2>1
<1> QED
  BY <1>1 DEF Polynomial

\* Before the first byte there is nothing to divide.
LEMMA NothingDivides ==
    ASSUME NEW s
    PROVE  Divides(Times(Polynomial(s, 0), 16), {}, {})
<1>1. Polynomial(s, 0) = {}
  BY DEF Polynomial
<1>2. Times({}, 16) = {} /\ Times({}, 12) = {} /\ Times({}, 5) = {}
  BY DEF Times
<1>3. Plus({}, {}) = {}
  BY DEF Plus
<1>4. Product({}) = {}
  BY <1>2, <1>3 DEF Product
<1> QED
  BY <1>1, <1>2, <1>3, <1>4 DEF Divides

\* With no call in progress everything is empty.
LEMMA IdleHolds ==
    ASSUME call = Idle, buf = <<>>, next = 1, crc = {}, sent = <<>>,
           quotient = {}
    PROVE  FrameInv
<1>1. TypeOK
  BY DEF TypeOK
<1>2. CrcIsRemainder
  BY NothingDivides DEF CrcIsRemainder
<1>3. SentIsFrame
  BY DEF SentIsFrame
<1> QED
  BY <1>1, <1>2, <1>3 DEF FrameInv

\* Packing the call starts a division (siyi_cam_pack_common).
LEMMA PackHolds ==
    ASSUME NEW c \in Calls, Pack(c)
    PROVE  FrameInv'
<1>1. /\ call' = c /\ buf' = Frame(c) /\ next' = 1 /\ crc' = {}
      /\ sent' = <<>> /\ quotient' = {}
  BY DEF Pack
<1>2. buf' \in Seq(Byte)
  BY <1>1, FrameTyped
<1>3. TypeOK'
  <2>1. Len(buf') \in Nat
    BY <1>2
  <2> QED
    BY <1>1, <1>2, <2>1 DEF TypeOK
<1>4. CrcIsRemainder'
  BY <1>1, NothingDivides DEF CrcIsRemainder
<1>5. SentIsFrame'
  <2>1. c # Idle
    BY CallKinds
  <2> QED
    BY <1>1, <2>1 DEF SentIsFrame
<1> QED
  BY <1>3, <1>4, <1>5 DEF FrameInv

\* A round of the loop is a step of the division (crc16_calculate).
LEMMA CrcStepHolds ==
    ASSUME FrameInv, CrcStep
    PROVE  FrameInv'
<1> DEFINE n == next - 1
           byte == Bits(buf[next])
           m == Polynomial(buf, n)
           q == Plus(Times(quotient, 8), Quotient(Plus(High(crc), byte)))
<1>1. /\ next \in Nat /\ next <= Len(buf) /\ n \in Nat /\ n + 1 = next
      /\ Len(buf) \in Nat
      /\ crc \in SUBSET (0 .. 15) /\ quotient \in SUBSET (0 .. 8 * n - 1)
  BY DEF FrameInv, TypeOK, CrcStep
<1>2. /\ call' = call /\ buf' = buf /\ sent' = sent /\ next' = next + 1
      /\ crc' = CrcRound(crc, byte) /\ quotient' = q
  BY DEF CrcStep
<1>3. byte \in SUBSET (0 .. 7)
  BY BitsMember
<1>4. IsPolynomial(m) /\ IsPolynomial(quotient)
  <2>1. m \in SUBSET Nat
    BY <1>1, OneByteMore
  <2> QED
    BY <1>1, <2>1 DEF IsPolynomial
<1>5. Divides(Times(m, 16), quotient, crc)
  BY DEF FrameInv, CrcIsRemainder
<1>6. Polynomial(buf, next) = Plus(Times(m, 8), byte)
  BY <1>1, OneByteMore
<1>7. Divides(Times(Polynomial(buf, next), 16), q, CrcRound(crc, byte))
  <2>1. Divides(Times(Plus(Times(m, 8), byte), 16), q, CrcRound(crc, byte))
    <3> HIDE DEF m, byte
    <3> QED
      BY <1>1, <1>3, <1>4, <1>5, RoundDivides
  <2> QED
    BY <1>6, <2>1
<1>8. q \in SUBSET (0 .. 8 * next - 1)
  <2>1. Plus(High(crc), byte) \in SUBSET (0 .. 7)
    BY <1>1, <1>3, WordOfBytes DEF Plus
  <2>2. Quotient(Plus(High(crc), byte)) \in SUBSET (0 .. 7)
    BY <2>1, EntryDivides
  <2>3. ASSUME NEW i \in Times(quotient, 8)
        PROVE  i \in 0 .. 8 * next - 1
    <3>1. PICK k \in quotient : i = k + 8
      BY DEF Times
    <3>2. k \in 0 .. 8 * n - 1
      BY <1>1
    <3> QED
      BY <1>1, <3>1, <3>2
  <2>4. ASSUME NEW i \in 0 .. 7
        PROVE  i \in 0 .. 8 * next - 1
    BY <1>1
  <2> QED
    BY <2>2, <2>3, <2>4 DEF Plus
<1>9. CrcIsRemainder'
  <2>1. next' - 1 = next
    BY <1>1, <1>2
  <2> QED
    BY <1>2, <1>7, <2>1 DEF CrcIsRemainder
<1>10. TypeOK'
  <2>1. crc' \in SUBSET (0 .. 15)
    BY <1>2, <1>7 DEF Divides
  <2>2. next' \in 1 .. Len(buf') + 1
    BY <1>1, <1>2
  <2>3. quotient' \in SUBSET (0 .. 8 * (next' - 1) - 1)
    <3>1. next' - 1 = next
      BY <1>1, <1>2
    <3> QED
      BY <1>2, <1>8, <3>1
  <2> HIDE DEF q, byte
  <2> QED
    BY <1>2, <2>1, <2>2, <2>3 DEF FrameInv, TypeOK
<1>11. SentIsFrame'
  <2>1. sent = <<>>
    BY <1>1 DEF FrameInv, SentIsFrame
  <2> QED
    BY <1>2, <2>1 DEF FrameInv, SentIsFrame
<1> QED
  BY <1>9, <1>10, <1>11 DEF FrameInv

\* The CRC closes the datagram (memcpy of crc16).
LEMMA SendHolds ==
    ASSUME FrameInv, Send
    PROVE  FrameInv'
<1> DEFINE t == <<Value(Low(crc)), Value(High(crc))>>
<1>1. /\ call' = call /\ buf' = buf /\ next' = next /\ crc' = crc
      /\ quotient' = quotient /\ sent' = buf \o t
      /\ call # Idle /\ next > Len(buf)
  BY DEF Send
<1>2. /\ buf \in Seq(Byte) /\ next \in 1 .. Len(buf) + 1
      /\ crc \in SUBSET (0 .. 15)
  BY DEF FrameInv, TypeOK
<1>3. sent' \in Seq(Byte)
  <2>1. t \in Seq(Byte)
    <3>1. Low(crc) \in SUBSET (0 .. 7) /\ High(crc) \in SUBSET (0 .. 7)
      BY <1>2, WordOfBytes
    <3>2. Value(Low(crc)) \in Byte /\ Value(High(crc)) \in Byte
      BY <3>1, BitsOfValue
    <3> QED
      BY <3>2
  <2> HIDE DEF t
  <2> QED
    BY <1>1, <1>2, <2>1
<1>4. TypeOK'
  <2> HIDE DEF t
  <2> QED
    BY <1>1, <1>3 DEF FrameInv, TypeOK
<1>5. CrcIsRemainder'
  BY <1>1 DEF FrameInv, CrcIsRemainder
<1>6. SentIsFrame'
  <2>1. next = Len(buf) + 1
    BY <1>1, <1>2
  <2>2. sent' = buf' \o <<Value(Low(crc')), Value(High(crc'))>>
    BY <1>1
  <2>3. buf' = IF call' = Idle THEN <<>> ELSE Frame(call')
    BY <1>1 DEF FrameInv, SentIsFrame
  <2> QED
    BY <1>1, <2>1, <2>2, <2>3, Zenon DEF SentIsFrame
<1> QED
  BY <1>4, <1>5, <1>6 DEF FrameInv
-----------------------------------------------------------------------------
(* The theorems *)

\* The inductive invariant of the packing: types, the division, and what the
\* buffer and the datagram hold (siyi_camera.c, crc16_calculate).
THEOREM FrameInvariant == Spec => []FrameInv
<1>1. Init => FrameInv
  BY IdleHolds DEF Init
<1>2. FrameInv /\ [Next]_vars => FrameInv'
  <2> SUFFICES ASSUME FrameInv, [Next]_vars
               PROVE  FrameInv'
    OBVIOUS
  <2>1. ASSUME NEW c \in Calls, Pack(c)
        PROVE  FrameInv'
    BY <2>1, PackHolds
  <2>2. CASE CrcStep
    BY <2>2, CrcStepHolds
  <2>3. CASE Send
    BY <2>3, SendHolds
  <2>4. CASE Return
    <3>1. /\ call' = Idle /\ buf' = <<>> /\ next' = 1 /\ crc' = {}
          /\ sent' = <<>> /\ quotient' = {}
      BY <2>4 DEF Return
    <3> QED
      BY <3>1, NothingDivides
         DEF FrameInv, TypeOK, CrcIsRemainder, SentIsFrame
  <2>5. CASE UNCHANGED vars
    BY <2>5 DEF vars, FrameInv, TypeOK, CrcIsRemainder, SentIsFrame
  <2> QED
    BY <2>1, <2>2, <2>3, <2>4, <2>5 DEF Next
<1> QED
  BY <1>1, <1>2, PTL DEF Spec

\* At every round of the loop the CRC is the remainder of the bytes so far,
\* followed by 16 zeros, whatever the frame (crc16_calculate, crc16_tab).
THEOREM CrcCorrect == Spec => []CrcIsRemainder
<1>1. FrameInv => CrcIsRemainder
  BY DEF FrameInv
<1> QED
  BY <1>1, FrameInvariant, PTL

\* It is the only one: no other word is the remainder of a division by the
\* generator, with whatever quotient (crc16_calculate).
THEOREM CrcUnique ==
    Spec => [](\A n \in Nat : \A q \in SUBSET (0 .. n) :
                 \A r \in SUBSET (0 .. 15) :
                   Divides(Times(Polynomial(buf, next - 1), 16), q, r)
                     => r = crc)
<1>1. ASSUME FrameInv, NEW n \in Nat, NEW q \in SUBSET (0 .. n),
             NEW r \in SUBSET (0 .. 15),
             Divides(Times(Polynomial(buf, next - 1), 16), q, r)
      PROVE  r = crc
  <2>1. /\ next - 1 \in Nat /\ quotient \in SUBSET (0 .. 8 * (next - 1) - 1)
        /\ Divides(Times(Polynomial(buf, next - 1), 16), quotient, crc)
    BY <1>1 DEF FrameInv, TypeOK, CrcIsRemainder
  <2> DEFINE m == n + 8 * (next - 1)
  <2>2. /\ m \in Nat /\ q \in SUBSET (0 .. m)
        /\ quotient \in SUBSET (0 .. m)
    BY <2>1
  <2> HIDE DEF m
  <2> QED
    BY <1>1, <2>1, <2>2, RemainderUnique
<1>2. FrameInv =>
        \A n \in Nat : \A q \in SUBSET (0 .. n) :
          \A r \in SUBSET (0 .. 15) :
            Divides(Times(Polynomial(buf, next - 1), 16), q, r) => r = crc
  BY <1>1
<1> QED
  BY <1>2, FrameInvariant, PTL

\* In a complete datagram the bytes before the CRC are those of the buffer.
LEMMA Datagram ==
    ASSUME FrameInv, sent # <<>>
    PROVE  /\ call \in Calls /\ buf = Frame(call) /\ buf \in Seq(Byte)
           /\ Len(sent) = Len(buf) + 2 /\ next = Len(buf) + 1
           /\ \A i \in 1 .. Len(buf) : sent[i] = buf[i]
           /\ sent[Len(sent) - 1] = Value(Low(crc))
           /\ sent[Len(sent)] = Value(High(crc))
<1> DEFINE l == Value(Low(crc))
           h == Value(High(crc))
           t == <<l, h>>
<1>1. /\ call \in Calls /\ buf = Frame(call) /\ buf \in Seq(Byte)
      /\ next = Len(buf) + 1 /\ sent = buf \o t
      /\ crc \in SUBSET (0 .. 15)
  BY DEF FrameInv, TypeOK, SentIsFrame
<1>2. t \in Seq(Byte) /\ Len(t) = 2 /\ t[1] = l /\ t[2] = h
  <2>1. Low(crc) \in SUBSET (0 .. 7) /\ High(crc) \in SUBSET (0 .. 7)
    BY <1>1, WordOfBytes
  <2>2. l \in Byte /\ h \in Byte
    BY <2>1, BitsOfValue
  <2> HIDE DEF l, h
  <2> QED
    BY <2>2
<1> HIDE DEF l, h, t
<1>3. /\ Len(sent) = Len(buf) + Len(t)
      /\ \A i \in 1 .. Len(buf) : sent[i] = buf[i]
      /\ \A i \in 1 .. Len(t) : sent[Len(buf) + i] = t[i]
  <2>1. buf \in Seq(Byte) /\ t \in Seq(Byte)
    BY <1>1, <1>2
  <2>2. sent = buf \o t
    BY <1>1
  <2> QED
    BY <2>1, <2>2, Joined, ZenonT(60)
<1>4. sent[Len(buf) + 1] = l /\ sent[Len(buf) + 2] = h
  BY <1>2, <1>3
<1>5. Len(buf) \in Nat
  BY <1>1
<1>6. /\ Len(sent) = Len(buf) + 2 /\ Len(sent) - 1 = Len(buf) + 1
  BY <1>2, <1>3, <1>5
<1> QED
  BY <1>1, <1>3, <1>4, <1>6 DEF l, h

\* The fields of a complete datagram are those of the call.
LEMMA FieldsOfCall ==
    ASSUME FrameInv, sent # <<>>
    PROVE  Understood = call /\ Len(sent) = 10 + Field(4)
<1>1. /\ call \in Calls /\ buf = Frame(call) /\ Len(sent) = Len(buf) + 2
      /\ \A i \in 1 .. Len(buf) : sent[i] = buf[i]
  BY Datagram
<1>2. ASSUME NEW n \in Byte, n < 5
      PROVE  Number16(n, 0) = n
  BY <1>2 DEF Number16, Byte
<1>3. 1 \in Byte /\ 2 \in Byte /\ 4 \in Byte
  BY DEF Byte
<1>4. ASSUME call.name = "zoom", call.ratio \in Ratios,
             call = [name |-> "zoom", ratio |-> call.ratio]
      PROVE  Understood = call /\ Len(sent) = 10 + Field(4)
  <2>1. /\ Len(buf) = 10 /\ buf[4] = 2 /\ buf[5] = 0 /\ buf[8] = 15
        /\ 10 * buf[9] + buf[10] = call.ratio
    BY <1>1, <1>4, ZoomFrame DEF Frame
  <2>2. /\ Len(sent) = 12 /\ sent[4] = 2 /\ sent[5] = 0 /\ sent[8] = 15
        /\ 10 * sent[9] + sent[10] = call.ratio
    BY <1>1, <2>1
  <2>3. Understood = [name |-> "zoom", ratio |-> call.ratio]
    BY <2>2 DEF Understood
  <2>4. Field(4) = 2
    BY <1>2, <1>3, <2>2 DEF Field
  <2> QED
    BY <1>4, <2>2, <2>3, <2>4
<1>5. ASSUME call.name = "rotate", call.yaw \in Signed, call.pitch \in Signed,
             call = [name |-> "rotate", yaw |-> call.yaw,
                     pitch |-> call.pitch]
      PROVE  Understood = call /\ Len(sent) = 10 + Field(4)
  <2>1. /\ Len(buf) = 12 /\ buf[4] = 4 /\ buf[5] = 0 /\ buf[8] = 14
        /\ Number16(buf[9], buf[10]) = call.yaw
        /\ Number16(buf[11], buf[12]) = call.pitch
    BY <1>1, <1>5, RotateFrame DEF Frame
  <2>2. /\ Len(sent) = 14 /\ sent[4] = 4 /\ sent[5] = 0 /\ sent[8] = 14
        /\ sent[9] = buf[9] /\ sent[10] = buf[10]
        /\ sent[11] = buf[11] /\ sent[12] = buf[12]
    BY <1>1, <2>1
  <2>3. Field(9) = call.yaw /\ Field(11) = call.pitch
    <3>1. Field(9) = Number16(sent[9], sent[10])
      BY DEF Field
    <3>2. Field(11) = Number16(sent[11], sent[12])
      BY DEF Field
    <3> QED
      BY <2>1, <2>2, <3>1, <3>2
  <2>4. Understood = [name |-> "rotate", yaw |-> Field(9), pitch |-> Field(11)]
    BY <2>2 DEF Understood
  <2>5. Field(4) = 4
    BY <1>2, <1>3, <2>2 DEF Field
  <2> QED
    BY <1>5, <2>2, <2>3, <2>4, <2>5
<1>6. ASSUME call = [name |-> "centre"]
      PROVE  Understood = call /\ Len(sent) = 10 + Field(4)
  <2>1. call.name = "centre"
    BY <1>6
  <2>2. Len(buf) = 9 /\ buf[4] = 1 /\ buf[5] = 0 /\ buf[8] = 8
    BY <1>1, <2>1, CentreFrame DEF Frame
  <2>3. Len(sent) = 11 /\ sent[4] = 1 /\ sent[5] = 0 /\ sent[8] = 8
    BY <1>1, <2>2
  <2>4. Understood = [name |-> "centre"]
    BY <2>3 DEF Understood
  <2>5. Field(4) = 1
    BY <1>2, <1>3, <2>3 DEF Field
  <2> QED
    BY <1>6, <2>3, <2>4, <2>5
<1> QED
  BY <1>1, <1>4, <1>5, <1>6, CallKinds

\* Whatever the angles and the ratios, the camera understands the call that was
\* made and finds the remainder behind it (siyi_cam_manual_zoom,
\* siyi_cam_gimbal_rotate, siyi_cam_gimbal_centering).
THEOREM CallsUnderstood == Spec => []CallUnderstood
<1>1. FrameInv => CallUnderstood
  <2> SUFFICES ASSUME FrameInv, sent # <<>>
               PROVE  /\ Understood = call
                      /\ Len(sent) = 10 + Field(4)
                      /\ Divides(Times(Polynomial(sent, Len(sent) - 2), 16),
                                 quotient,
                                 Word(sent[Len(sent) - 1]
                                      + 256 * sent[Len(sent)]))
    BY DEF CallUnderstood
  <2>1. Understood = call /\ Len(sent) = 10 + Field(4)
    BY FieldsOfCall
  <2>2. /\ Len(sent) - 2 = Len(buf) /\ next - 1 = Len(buf)
        /\ Len(buf) \in Nat
        /\ \A i \in 1 .. Len(buf) : sent[i] = buf[i]
        /\ sent[Len(sent) - 1] = Value(Low(crc))
        /\ sent[Len(sent)] = Value(High(crc))
    <3>1. /\ buf \in Seq(Byte) /\ Len(sent) = Len(buf) + 2
          /\ next = Len(buf) + 1
          /\ \A i \in 1 .. Len(buf) : sent[i] = buf[i]
          /\ sent[Len(sent) - 1] = Value(Low(crc))
          /\ sent[Len(sent)] = Value(High(crc))
      BY Datagram
    <3>2. Len(buf) \in Nat
      BY <3>1
    <3> QED
      BY <3>1, <3>2
  <2>3. Polynomial(sent, Len(buf)) = Polynomial(buf, Len(buf))
    BY <2>2, PolynomialPrefix
  <2>4. Word(sent[Len(sent) - 1] + 256 * sent[Len(sent)]) = crc
    BY <2>2, StoredWord DEF FrameInv, TypeOK
  <2>5. Divides(Times(Polynomial(buf, Len(buf)), 16), quotient, crc)
    BY <2>2 DEF FrameInv, CrcIsRemainder
  <2> QED
    BY <2>1, <2>2, <2>3, <2>4, <2>5
<1> QED
  BY <1>1, FrameInvariant, PTL
=============================================================================
