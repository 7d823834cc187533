-------------------------- MODULE OFTMessagesProofs --------------------------
(***************************************************************************)
(* The codecs read what they wrote, for every byte base, address, payload  *)
(* and amount; a quote prices what is sent.                                *)
(***************************************************************************)
EXTENDS OFTMessages, OFTAmountsProofs, SequenceTheorems

-----------------------------------------------------------------------------
(* An integer and its big-endian bytes.                                    *)

LEMMA Powers == \A k \in 0..8 : ByteBase^k \in Nat \ {0}
<1> DEFINE S == {k \in Nat : k <= 8 => ByteBase^k \in Nat \ {0}}
<1>1. 0 \in S
  BY PowerAssumption
<1>2. ASSUME NEW n \in Nat, n \in S PROVE n + 1 \in S
  <2>1. CASE n + 1 <= 8
    <3>1. n \in 0..7 /\ ByteBase^n \in Nat \ {0}
      BY <1>2, <2>1
    <3>2. ByteBase^(n + 1) = ByteBase * ByteBase^n
      BY <3>1, PowerAssumption
    <3> QED
      BY <3>1, <3>2, ByteBaseAssumption
  <2> QED
    BY <2>1
<1> HIDE DEF S
<1>3. Nat \subseteq S
  BY <1>1, <1>2, SetInduction
<1> QED
  BY <1>3 DEF S

LEMMA QuotientIs ==
    ASSUME NEW d \in Nat \ {0}, NEW q \in Nat, NEW r \in Nat, r < d
    PROVE  (d * q + r) \div d = q
OBVIOUS

\* A digit of n and the digits above it.
LEMMA DigitOf ==
    ASSUME NEW n \in Nat, NEW p \in Nat \ {0}, NEW b \in Nat \ {0}
    PROVE  p * (n \div p) = ((n \div p) % b) * p + (b * p) * (n \div (b * p))
<1> DEFINE q == n \div p
           r == n % p
           u == q \div b
           v == q % b
<1>0. q \in Nat /\ r \in 0..(p - 1) /\ n = p * q + r
  BY DivMod, Zenon
<1> HIDE DEF q, r
<1>1. q \in Nat /\ r \in Nat /\ r < p /\ n = p * q + r
  BY <1>0
<1>a. u \in Nat /\ v \in 0..(b - 1) /\ q = b * u + v
  BY <1>1, DivMod, Zenon
<1> HIDE DEF u, v
<1>2. u \in Nat /\ v \in Nat /\ v <= b - 1 /\ q = b * u + v
  BY <1>a
<1>3. b * p \in Nat \ {0} /\ p * v \in Nat /\ p * v <= p * (b - 1)
  BY <1>2
<1>4. p * v + r \in Nat /\ p * v + r < b * p
  BY <1>1, <1>3
<1>5. n = (b * p) * u + (p * v + r)
  BY <1>1, <1>2
<1>6. n \div (b * p) = u
  BY <1>2, <1>3, <1>4, <1>5, QuotientIs
<1>7. p * q = v * p + (b * p) * u
  BY <1>1, <1>2
<1> QED
  BY <1>6, <1>7, Zenon DEF q, v


\* The bytes of n in width places, weighed; the first k make up what they stand for.
Digits(n, width) == Msg!to_be_bytes(n, width)

Weighed(n, width) == [i \in 1..width |-> Digits(n, width)[i] * ByteBase^(width - i)]

LEMMA DigitsAre ==
    ASSUME NEW n \in Nat, NEW width \in 1..8
    PROVE  /\ Digits(n, width) \in Seq(Msg!Byte) /\ Len(Digits(n, width)) = width
           /\ \A i \in 1..width : Digits(n, width)[i] \in Msg!Byte
           /\ \A i \in 1..width : width - i \in 0..7
           /\ \A i \in 1..width :
                Digits(n, width)[i] = (n \div ByteBase^(width - i)) % ByteBase
<1>1. ASSUME NEW i \in 1..width
      PROVE  width - i \in 0..7 /\ (n \div ByteBase^(width - i)) % ByteBase \in Msg!Byte
  <2>1. width - i \in 0..7 /\ width - i \in 0..8
    OBVIOUS
  <2>2. ByteBase^(width - i) \in Nat \ {0}
    BY <2>1, Powers
  <2>3. n \div ByteBase^(width - i) \in Nat
    BY <2>2, DivMod
  <2>4. (n \div ByteBase^(width - i)) % ByteBase \in 0..(ByteBase - 1)
    BY <2>3, DivMod, ByteBaseAssumption
  <2> QED
    BY <2>1, <2>4 DEF Msg!Byte
<1>2. Digits(n, width)
        = [i \in 1..width |-> (n \div ByteBase^(width - i)) % ByteBase]
  BY DEF Digits, Msg!to_be_bytes
<1>3. Digits(n, width) \in [1..width -> Msg!Byte]
  BY <1>1, <1>2
<1>4. Digits(n, width) \in Seq(Msg!Byte) /\ Len(Digits(n, width)) = width
  BY <1>3
<1> QED
  BY <1>1, <1>2, <1>4

LEMMA WeighedAre ==
    ASSUME NEW n \in Nat, NEW width \in 1..8
    PROVE  /\ \A i \in 1..width : Weighed(n, width)[i] \in Nat
           /\ \A i \in 1..width :
                Weighed(n, width)[i]
                  = ((n \div ByteBase^(width - i)) % ByteBase) * ByteBase^(width - i)
<1> SUFFICES ASSUME NEW i \in 1..width
             PROVE  /\ Weighed(n, width)[i] \in Nat
                    /\ Weighed(n, width)[i]
                         = ((n \div ByteBase^(width - i)) % ByteBase) * ByteBase^(width - i)
  OBVIOUS
<1>1. Digits(n, width)[i] \in Nat
  <2>1. Digits(n, width)[i] \in Msg!Byte
    BY DigitsAre, Zenon
  <2> QED
    BY <2>1, ByteBaseAssumption DEF Msg!Byte
<1>2. ByteBase^(width - i) \in Nat
  BY Powers
<1>3. Weighed(n, width)[i] = Digits(n, width)[i] * ByteBase^(width - i)
  BY DEF Weighed
<1>4. Digits(n, width)[i] = (n \div ByteBase^(width - i)) % ByteBase
  BY DigitsAre
<1>5. Digits(n, width)[i] * ByteBase^(width - i) \in Nat
  BY <1>1, <1>2
<1> QED
  BY <1>3, <1>4, <1>5, Zenon

LEMMA BytesStandForInteger ==
    ASSUME NEW n \in Nat, NEW width \in 1..8, n < ByteBase^width
    PROVE  Total(Weighed(n, width), 1..width) = n
<1> DEFINE b == Weighed(n, width)
           Right(k) == LET p == ByteBase^(width - k) IN Total(b, 1..k) = p * (n \div p)
           S == {k \in Nat : k <= width => Right(k)}
<1>1. 0 \in S
  <2>1. width - 0 = width /\ ByteBase^width \in Nat \ {0}
    BY Powers
  <2>2. n \div ByteBase^width = 0
    BY <2>1, QuotientIs
  <2>3. 1..0 = {}
    OBVIOUS
  <2>4. Total(b, 1..0) = 0
    BY <2>3, TotalEmpty
  <2> QED
    BY <2>1, <2>2, <2>4
<1>2. ASSUME NEW k \in Nat, k \in S PROVE k + 1 \in S
  <2> SUFFICES ASSUME k + 1 <= width PROVE Right(k + 1)
    OBVIOUS
  <2> DEFINE m == width - (k + 1)
             p == ByteBase^m
             T == 1..(k + 1)
  <2>1. m \in 0..7 /\ m + 1 = width - k /\ k + 1 \in 1..width
    OBVIOUS
  <2>2. p \in Nat \ {0} /\ ByteBase^(width - k) = ByteBase * p
    BY <2>1, Powers, PowerAssumption
  <2>3. Total(b, 1..k) = (ByteBase * p) * (n \div (ByteBase * p))
    <3>1. Right(k)
      BY <1>2
    <3> HIDE DEF p
    <3> QED
      BY <2>2, <3>1
  <2>4. b[k + 1] = ((n \div p) % ByteBase) * p
    BY <2>1, WeighedAre, Zenon
  <2>5. Ints(b, T) /\ k + 1 \in T /\ T \ {k + 1} = 1..k /\ IsFiniteSet(T)
    <3>1. T \subseteq 1..width
      BY <2>1
    <3>2. \A i \in 1..width : b[i] \in Nat
      BY WeighedAre, Zenon
    <3> HIDE DEF b
    <3>3. Ints(b, T)
      BY <3>1, <3>2 DEF Ints
    <3>4. IsFiniteSet(T)
      BY FS_Interval
    <3> QED
      BY <3>3, <3>4
  <2>6. Total(b, T) = b[k + 1] + Total(b, 1..k)
    <3> HIDE DEF b, T
    <3> QED
      BY <2>5, TotalRemove
  <2>7. p * (n \div p)
          = ((n \div p) % ByteBase) * p + (ByteBase * p) * (n \div (ByteBase * p))
    BY <2>2, DigitOf, ByteBaseAssumption
  <2>8. Total(b, T) = p * (n \div p)
    BY <2>3, <2>4, <2>6, <2>7, Zenon
  <2> QED
    BY <2>8, Zenon
<1>3. Nat \subseteq S
  <2> HIDE DEF S
  <2> QED
    BY <1>1, <1>2, SetInduction
<1>4. Right(width)
  BY <1>3
<1>5. width - width = 0 /\ ByteBase^0 = 1 /\ 1 * (n \div 1) = n
  BY PowerAssumption
<1> QED
  BY <1>4, <1>5


\* from_be_bytes is such a sum.
LEMMA ValueIsTotal ==
    ASSUME NEW bytes, IsFiniteSet(DOMAIN bytes)
    PROVE  LET b == [i \in DOMAIN bytes |-> bytes[i] * ByteBase^(Len(bytes) - i)]
           IN  /\ Msg!from_be_bytes(bytes) = Total(b, DOMAIN bytes)
               /\ Compose!from_be_bytes(bytes) = Total(b, DOMAIN bytes)
<1> DEFINE S == DOMAIN bytes
           w(i) == bytes[i] * ByteBase^(Len(bytes) - i)
           b == [i \in S |-> w(i)]
           V(g) == g = [s \in SUBSET S |->
                          IF s = {} THEN 0 ELSE w(First(s)) + g[s \ {First(s)}]]
           c == CHOOSE g : V(g)
<1>1. ASSUME NEW g PROVE V(g) <=> FoldsOn(b, SUBSET S, g)
  <2>1. ASSUME NEW s \in SUBSET S, s # {} PROVE w(First(s)) = b[First(s)]
    <3>1. First(s) \in S
      BY <2>1, UpToFacts
    <3> HIDE DEF w
    <3> QED
      BY <3>1
  <2> HIDE DEF b, w
  <2>2. [s \in SUBSET S |-> IF s = {} THEN 0 ELSE w(First(s)) + g[s \ {First(s)}]]
          = [s \in SUBSET S |-> Folded(b, g, s)]
    BY <2>1 DEF Folded
  <2> QED
    BY <2>2 DEF FoldsOn
<1>2. V(c)
  <2>1. \E g : V(g)
    BY <1>1, FoldExists
  <2> QED
    BY <2>1
<1>3. Msg!from_be_bytes(bytes) = c[S] /\ Compose!from_be_bytes(bytes) = c[S]
  BY DEF Msg!from_be_bytes, Compose!from_be_bytes, First,
         Msg!MapThenSumSet, Msg!MapThenFoldSet, Compose!MapThenSumSet, Compose!MapThenFoldSet
<1> HIDE DEF b, V, c
<1>4. FoldsOn(b, SUBSET S, c)
  BY <1>1, <1>2
<1>5. PICK h : FoldsOn(b, SUBSET S, h) /\ Total(b, S) = h[S]
  BY FoldIsTotal
<1>6. TwoFolds(S, S, b, b, c, h)
  BY <1>4, <1>5 DEF TwoFolds, Agree
<1>7. c[S] = Total(b, S)
  BY <1>5, <1>6, FoldUnique
<1> QED
  BY <1>3, <1>7, Zenon DEF b

LEMMA IntegerRoundTrip ==
    ASSUME NEW n \in Nat, NEW width \in 1..8, n < ByteBase^width
    PROVE  /\ Msg!from_be_bytes(Digits(n, width)) = n
           /\ Compose!from_be_bytes(Digits(n, width)) = n
<1> DEFINE d == Digits(n, width)
           b == [i \in 1..width |-> d[i] * ByteBase^(Len(d) - i)]
<1>1. Len(d) = width /\ DOMAIN d = 1..width
  BY DigitsAre DEF Digits, Msg!to_be_bytes
<1>2. b = Weighed(n, width)
  BY <1>1, Zenon DEF Weighed
<1>3. Msg!from_be_bytes(d) = Total(b, 1..width) /\ Compose!from_be_bytes(d) = Total(b, 1..width)
  <2>1. IsFiniteSet(1..width)
    BY FS_Interval
  <2> HIDE DEF d
  <2> QED
    BY <1>1, <2>1, ValueIsTotal
<1>4. Total(Weighed(n, width), 1..width) = n
  BY BytesStandForInteger
<1> QED
  BY <1>2, <1>3, <1>4, Zenon

-----------------------------------------------------------------------------
(* Slices of what was put together.                                        *)

LEMMA CatLen ==
    ASSUME NEW S, NEW s \in Seq(S), NEW t \in Seq(S)
    PROVE  /\ s \o t \in Seq(S) /\ Len(s \o t) = Len(s) + Len(t)
           /\ Len(s) \in Nat /\ Len(t) \in Nat
OBVIOUS
LEMMA Cut ==
    ASSUME NEW S, NEW s \in Seq(S), NEW t \in Seq(S), NEW u \in Seq(S)
    PROVE  /\ SubSeq(s \o t, 1, Len(s)) = s
           /\ SubSeq(s \o t, Len(s) + 1, Len(s \o t)) = t
           /\ SubSeq((s \o t) \o u, Len(s) + 1, Len(s) + Len(t)) = t
<1>1. Len(s) \in Nat /\ Len(t) \in Nat /\ Len(u) \in Nat /\ s \o t \in Seq(S)
      /\ Len(s \o t) = Len(s) + Len(t)
  OBVIOUS
<1>2. ASSUME NEW a \in Seq(S), NEW b \in Seq(S)
      PROVE  /\ SubSeq(a \o b, 1, Len(a)) = a
             /\ SubSeq(a \o b, Len(a) + 1, Len(a) + Len(b)) = b
             /\ Len(a \o b) = Len(a) + Len(b)
             /\ a \o b \in Seq(S)
  OBVIOUS
<1>3. (s \o t) \o u = s \o (t \o u)
  BY ConcatAssociative
<1>4. ASSUME NEW v \in Seq(S), NEW k \in Nat, k <= Len(v)
      PROVE  SubSeq(s \o v, Len(s) + 1, Len(s) + k) = SubSeq(v, 1, k)
  BY <1>4
<1>5. SubSeq(s \o (t \o u), Len(s) + 1, Len(s) + Len(t)) = SubSeq(t \o u, 1, Len(t))
  <2>1. t \o u \in Seq(S) /\ Len(t) <= Len(t \o u)
    OBVIOUS
  <2> QED
    BY <1>1, <1>4, <2>1
<1> QED
  BY <1>1, <1>2, <1>3, <1>5


\* Predicates that stay closed when a lemma about them is cited.
String(S, s, k) == s \in Seq(S) /\ Len(s) = k

Same(s, t) == s = t

Strings(S, s, t, u) == s \in Seq(S) /\ t \in Seq(S) /\ u \in Seq(S)

LEMMA Assoc ==
    ASSUME NEW S, NEW s, NEW t, NEW u, Strings(S, s, t, u)
    PROVE  Same((s \o t) \o u, s \o (t \o u))
<1>1. s \in Seq(S) /\ t \in Seq(S) /\ u \in Seq(S)
  BY DEF Strings
<1> QED
  BY <1>1, ConcatAssociative DEF Same

Parts(S, s, t, u, k, l) ==
    /\ Strings(S, s, t, u) /\ k \in Nat /\ l \in Nat /\ Len(s) = k /\ Len(t) = l

PartsRead(S, s, t, u, k, l, m) ==
    /\ m \in Seq(S) /\ Len(m) = k + l + Len(u) /\ Len(u) \in Nat
    /\ SubSeq(m, 1, k) = s
    /\ SubSeq(m, k + 1, k + l) = t
    /\ SubSeq(m, k + l + 1, Len(m)) = u

\* Three strings in a row, the lengths of the first two at hand.
LEMMA Layout ==
    ASSUME NEW S, NEW s, NEW t, NEW u, NEW k, NEW l, Parts(S, s, t, u, k, l)
    PROVE  /\ PartsRead(S, s, t, u, k, l, (s \o t) \o u)
           /\ String(S, s \o t, k + l)
<1>0. s \in Seq(S) /\ t \in Seq(S) /\ u \in Seq(S)
      /\ k \in Nat /\ l \in Nat /\ Len(s) = k /\ Len(t) = l
  BY DEF Parts, Strings
<1>1. SubSeq((s \o t) \o u, Len(s) + 1, Len(s) + Len(t)) = t
  BY <1>0, Cut, Zenon
<1>2. t \o u \in Seq(S) /\ (s \o t) \o u = s \o (t \o u)
  BY <1>0, CatLen, ConcatAssociative
<1>3. SubSeq(s \o (t \o u), 1, Len(s)) = s
  BY <1>0, <1>2, Cut, Zenon
<1>4. s \o t \in Seq(S) /\ Len(s \o t) = Len(s) + Len(t)
  BY <1>0, CatLen, Zenon
<1>5. SubSeq((s \o t) \o u, Len(s \o t) + 1, Len((s \o t) \o u)) = u
  BY <1>0, <1>4, Cut, Zenon
<1>6. (s \o t) \o u \in Seq(S) /\ Len((s \o t) \o u) = Len(s \o t) + Len(u) /\ Len(u) \in Nat
  BY <1>0, <1>4, CatLen, Zenon
<1>7. Len(s \o t) = k + l
  BY <1>0, <1>4, Zenon
<1>8. SubSeq((s \o t) \o u, k + 1, k + l) = t
  BY <1>0, <1>1, Zenon
<1>9. SubSeq((s \o t) \o u, 1, k) = s
  BY <1>0, <1>2, <1>3, Zenon
<1>10. SubSeq((s \o t) \o u, k + l + 1, Len((s \o t) \o u)) = u
  BY <1>5, <1>7, Zenon
<1>11. Len((s \o t) \o u) = k + l + Len(u)
  BY <1>6, <1>7, Zenon
<1> QED
  BY <1>4, <1>6, <1>7, <1>8, <1>9, <1>10, <1>11, Zenon DEF PartsRead, String

\* Five strings, as a composed message has them.
FiveParts(S, a, b, c, s, u, k, l, n) ==
    /\ Strings(S, a, b, c) /\ s \in Seq(S) /\ u \in Seq(S)
    /\ k \in Nat /\ l \in Nat /\ n \in Nat
    /\ Len(a) = k /\ Len(b) = l /\ Len(c) = k /\ Len(s) = n

LEMMA FiveLayout ==
    ASSUME NEW S, NEW a, NEW b, NEW c, NEW s, NEW u, NEW k, NEW l, NEW n,
           FiveParts(S, a, b, c, s, u, k, l, n),
           NEW m, m = ((a \o b) \o c) \o (s \o u)
    PROVE  \E d, e, f, h :
             /\ PartsRead(S, a, b, e, k, l, m)
             /\ PartsRead(S, f, c, d, k + l, k, m)
             /\ PartsRead(S, h, s, u, k + l + k, n, m)
<1> DEFINE d == s \o u
           e == c \o d
           f == a \o b
           h == f \o c
<1>1. /\ a \in Seq(S) /\ b \in Seq(S) /\ c \in Seq(S) /\ s \in Seq(S) /\ u \in Seq(S)
      /\ k \in Nat /\ l \in Nat /\ n \in Nat
      /\ Len(a) = k /\ Len(b) = l /\ Len(c) = k /\ Len(s) = n
  BY DEF FiveParts, Strings
<1>2. d \in Seq(S) /\ e \in Seq(S)
  BY <1>1, CatLen, Zenon
<1>a. m = h \o d
  BY Zenon
<1> HIDE DEF d
<1>3. Parts(S, a, b, e, k, l)
  BY <1>1, <1>2, Zenon DEF Parts, Strings
<1> HIDE DEF e
<1>4. String(S, f, k + l) /\ PartsRead(S, a, b, e, k, l, f \o e)
  BY <1>3, Layout, Zenon
<1> HIDE DEF f
<1>5. h \o d = f \o e
  <2>1. Strings(S, f, c, d)
    BY <1>1, <1>2, <1>4, Zenon DEF Strings, String
  <2>2. Same((f \o c) \o d, f \o (c \o d))
    BY <2>1, Assoc, Zenon
  <2> QED
    BY <2>2, Zenon DEF e, Same
<1>7. k + l \in Nat /\ k + l + k \in Nat
  BY <1>1
<1>8. Parts(S, f, c, d, k + l, k)
  BY <1>1, <1>2, <1>4, <1>7, Zenon DEF Parts, Strings, String
<1>9. String(S, h, k + l + k) /\ PartsRead(S, f, c, d, k + l, k, h \o d)
  BY <1>8, Layout, Zenon
<1> HIDE DEF h
<1>10. Parts(S, h, s, u, k + l + k, n)
  BY <1>1, <1>7, <1>9, Zenon DEF Parts, Strings, String
<1>11. PartsRead(S, h, s, u, k + l + k, n, (h \o s) \o u)
  BY <1>10, Layout, Zenon
<1>12. h \o d = (h \o s) \o u
  <2>1. Strings(S, h, s, u)
    BY <1>1, <1>9, Zenon DEF Strings, String
  <2>2. Same((h \o s) \o u, h \o (s \o u))
    BY <2>1, Assoc, Zenon
  <2> QED
    BY <2>2, Zenon DEF d, Same
<1> QED
  BY <1>a, <1>4, <1>5, <1>9, <1>11, <1>12, Zenon

-----------------------------------------------------------------------------
(* The two layouts.                                                        *)

IntLen == 8
EidLen == 4
KeyLen == 32

Key == [1..32 -> Msg!Byte]

LEMMA KeysAre ==
    /\ Pubkey \subseteq Key /\ DefaultKey \in Key
    /\ \A key \in Key : String(Msg!Byte, key, KeyLen)
<1>1. ASSUME NEW S, NEW n \in Nat, NEW f \in [1..n -> S] PROVE f \in Seq(S) /\ Len(f) = n
  OBVIOUS
<1>2. ASSUME NEW key \in Key PROVE String(Msg!Byte, key, KeyLen)
  <2>1. 32 \in Nat /\ key \in [1..32 -> Msg!Byte]
    BY DEF Key
  <2> QED
    BY <1>1, <2>1 DEF String, KeyLen
<1>3. DefaultKey \in Key
  BY ByteBaseAssumption DEF DefaultKey, Key, Msg!Byte
<1> QED
  BY <1>2, <1>3, PubkeyAssumption DEF Key

LEMMA IntegersAre ==
    /\ \A n \in U64 : /\ String(Msg!Byte, Digits(n, 8), IntLen)
                      /\ Msg!from_be_bytes(Digits(n, 8)) = n
                      /\ Compose!from_be_bytes(Digits(n, 8)) = n
    /\ \A n \in SrcEids : /\ String(Msg!Byte, Digits(n, 4), EidLen)
                          /\ Compose!from_be_bytes(Digits(n, 4)) = n
<1>1. ASSUME NEW n \in U64 PROVE n \in Nat /\ n < ByteBase^8
  BY WidthAssumption, U64Assumption, Powers DEF U64
<1>2. ASSUME NEW n \in SrcEids PROVE n \in Nat /\ n < ByteBase^4
  <2>1. ByteBase^4 \in Nat
    BY Powers
  <2>2. n \in 0..(ByteBase^4 - 1)
    BY WidthAssumption
  <2> QED
    BY <2>1, <2>2
<1>3. 8 \in 1..8 /\ 4 \in 1..8
  OBVIOUS
<1>4. ASSUME NEW n \in U64
      PROVE  /\ String(Msg!Byte, Digits(n, 8), IntLen)
             /\ Msg!from_be_bytes(Digits(n, 8)) = n
             /\ Compose!from_be_bytes(Digits(n, 8)) = n
  BY <1>1, <1>3, DigitsAre, IntegerRoundTrip DEF String, IntLen
<1>5. ASSUME NEW n \in SrcEids
      PROVE  /\ String(Msg!Byte, Digits(n, 4), EidLen)
             /\ Compose!from_be_bytes(Digits(n, 4)) = n
  BY <1>2, <1>3, DigitsAre, IntegerRoundTrip DEF String, EidLen
<1> QED
  BY <1>4, <1>5

\* What MsgCodec's readers find between the offsets.
LEMMA MessageReaders ==
    ASSUME NEW to, NEW amount, NEW tail, NEW m,
           PartsRead(Msg!Byte, to, amount, tail, KeyLen, IntLen, m)
    PROVE  /\ Msg!send_to(m) = to
           /\ Msg!amount_sd(m) = Msg!from_be_bytes(amount)
           /\ Msg!compose_msg(m) = IF Len(tail) = 0 THEN None ELSE tail
           /\ Len(m) = KeyLen + IntLen + Len(tail)
<1>1. /\ Len(m) = 40 + Len(tail) /\ Len(tail) \in Nat
      /\ SubSeq(m, 1, 32) = to
      /\ SubSeq(m, 33, 40) = amount
      /\ SubSeq(m, 41, Len(m)) = tail
  <2>1. KeyLen + IntLen = 40 /\ KeyLen + 1 = 33 /\ KeyLen + IntLen + 1 = 41 /\ KeyLen = 32
    BY DEF KeyLen, IntLen
  <2> QED
    BY <2>1, Zenon DEF PartsRead
<1>2. Msg!send_to(m) = to
  BY <1>1 DEF Msg!send_to, Msg!slice, Msg!SEND_TO_OFFSET, Msg!SEND_AMOUNT_SD_OFFSET
<1>3. Msg!amount_sd(m) = Msg!from_be_bytes(amount)
  <2>1. Msg!slice(m, Msg!SEND_AMOUNT_SD_OFFSET, Msg!COMPOSE_MSG_OFFSET) = amount
    BY <1>1 DEF Msg!slice, Msg!SEND_AMOUNT_SD_OFFSET, Msg!COMPOSE_MSG_OFFSET
  <2> QED
    BY <2>1, Zenon DEF Msg!amount_sd
<1>4. Msg!compose_msg(m) = IF Len(tail) = 0 THEN None ELSE tail
  <2>1. Msg!compose_msg(m) = IF Len(m) > 40 THEN SubSeq(m, 41, Len(m)) ELSE None
    BY DEF Msg!compose_msg, Msg!suffix, Msg!COMPOSE_MSG_OFFSET
  <2>2. \A i \in Nat : (40 + i > 40) <=> (i # 0)
    OBVIOUS
  <2>3. (Len(m) > 40) <=> (Len(tail) # 0)
    BY <1>1, <2>2, Zenon
  <2> QED
    BY <1>1, <2>1, <2>3, Zenon
<1> QED
  BY <1>2, <1>3, <1>4 DEF PartsRead

LEMMA ComposedReaders ==
    ASSUME NEW a, NEW b, NEW c, NEW s, NEW u, NEW d, NEW e, NEW f, NEW h, NEW m,
           PartsRead(Msg!Byte, a, b, e, IntLen, EidLen, m),
           PartsRead(Msg!Byte, f, c, d, IntLen + EidLen, IntLen, m),
           PartsRead(Msg!Byte, h, s, u, IntLen + EidLen + IntLen, KeyLen, m)
    PROVE  /\ Compose!nonce(m) = Compose!from_be_bytes(a)
           /\ Compose!src_eid(m) = Compose!from_be_bytes(b)
           /\ Compose!amount_ld(m) = Compose!from_be_bytes(c)
           /\ Compose!compose_from(m) = s
           /\ Compose!compose_msg(m) = IF Len(u) = 0 THEN <<>> ELSE u
<1>1. /\ Len(m) = 52 + Len(u) /\ Len(u) \in Nat
      /\ SubSeq(m, 1, 8) = a
      /\ SubSeq(m, 9, 12) = b
      /\ SubSeq(m, 13, 20) = c
      /\ SubSeq(m, 21, 52) = s
      /\ SubSeq(m, 53, Len(m)) = u
  <2>1. /\ IntLen = 8 /\ IntLen + 1 = 9 /\ IntLen + EidLen = 12 /\ 12 + 1 = 13 /\ 12 + IntLen = 20
        /\ 20 + 1 = 21 /\ 20 + KeyLen = 52 /\ 52 + 1 = 53
    BY DEF IntLen, EidLen, KeyLen
  <2>2. SubSeq(m, 1, 8) = a /\ SubSeq(m, 9, 12) = b
    BY <2>1, Zenon DEF PartsRead
  <2>3. SubSeq(m, 13, 20) = c
    BY <2>1, Zenon DEF PartsRead
  <2>4. SubSeq(m, 21, 52) = s
    BY <2>1, Zenon DEF PartsRead
  <2>5. SubSeq(m, 53, Len(m)) = u
    BY <2>1, Zenon DEF PartsRead
  <2>6. Len(m) = 52 + Len(u) /\ Len(u) \in Nat
    <3>1. /\ Len(m) = IntLen + EidLen + IntLen + KeyLen + Len(u)
          /\ Len(u) \in Nat
      BY Zenon DEF PartsRead
    <3> QED
      BY <2>1, <3>1, Zenon
  <2> QED
    BY <2>2, <2>3, <2>4, <2>5, <2>6, Zenon
<1>2. Compose!nonce(m) = Compose!from_be_bytes(a)
  <2>1. Compose!slice(m, Compose!NONCE_OFFSET, Compose!SRC_EID_OFFSET) = a
    BY <1>1 DEF Compose!slice, Compose!NONCE_OFFSET, Compose!SRC_EID_OFFSET
  <2> QED
    BY <2>1, Zenon DEF Compose!nonce
<1>3. Compose!src_eid(m) = Compose!from_be_bytes(b)
  <2>1. Compose!slice(m, Compose!SRC_EID_OFFSET, Compose!AMOUNT_LD_OFFSET) = b
    BY <1>1 DEF Compose!slice, Compose!SRC_EID_OFFSET, Compose!AMOUNT_LD_OFFSET
  <2> QED
    BY <2>1, Zenon DEF Compose!src_eid
<1>4. Compose!amount_ld(m) = Compose!from_be_bytes(c)
  <2>1. Compose!slice(m, Compose!AMOUNT_LD_OFFSET, Compose!COMPOSE_FROM_OFFSET) = c
    BY <1>1 DEF Compose!slice, Compose!AMOUNT_LD_OFFSET, Compose!COMPOSE_FROM_OFFSET
  <2> QED
    BY <2>1, Zenon DEF Compose!amount_ld
<1>5. Compose!compose_from(m) = s
  BY <1>1 DEF Compose!compose_from, Compose!slice, Compose!COMPOSE_FROM_OFFSET,
              Compose!COMPOSE_MSG_OFFSET
<1>6. Compose!compose_msg(m) = IF Len(u) = 0 THEN <<>> ELSE u
  <2>1. Compose!compose_msg(m) = IF Len(m) > 52 THEN SubSeq(m, 53, Len(m)) ELSE <<>>
    BY DEF Compose!compose_msg, Compose!suffix, Compose!COMPOSE_MSG_OFFSET
  <2>2. \A i \in Nat : (52 + i > 52) <=> (i # 0)
    OBVIOUS
  <2>3. (Len(m) > 52) <=> (Len(u) # 0)
    BY <1>1, <2>2, Zenon
  <2> QED
    BY <1>1, <2>1, <2>3, Zenon
<1> QED
  BY <1>2, <1>3, <1>4, <1>5, <1>6


LEMMA Lengths == IntLen \in Nat /\ EidLen \in Nat /\ KeyLen \in Nat \ {0}
BY DEF IntLen, EidLen, KeyLen

\* What MsgCodec wrote, its readers read.
LEMMA MessageRead ==
    ASSUME NEW to \in Key, NEW sd \in U64, NEW sender \in Key,
           NEW msg \in Seq(Msg!Byte) \cup {None}
    PROVE  LET message == Msg!encode(to, sd, sender, msg)
           IN  /\ Msg!send_to(message) = to
               /\ Msg!amount_sd(message) = sd
               /\ Msg!compose_msg(message) = IF msg = None THEN None ELSE sender \o msg
               /\ Len(message) = KeyLen + IntLen + (IF msg = None THEN 0 ELSE KeyLen + Len(msg))
<1> DEFINE tail == IF msg = None THEN <<>> ELSE sender \o msg
           amount == Digits(sd, 8)
           message == Msg!encode(to, sd, sender, msg)
<1>1. message = (to \o amount) \o tail
  BY Zenon DEF Msg!encode, Digits
<1>2. String(Msg!Byte, amount, IntLen) /\ Msg!from_be_bytes(amount) = sd
  BY IntegersAre, Zenon
<1>3. String(Msg!Byte, to, KeyLen) /\ String(Msg!Byte, sender, KeyLen)
  BY KeysAre, Zenon
<1>4. /\ tail \in Seq(Msg!Byte)
      /\ Len(tail) = IF msg = None THEN 0 ELSE KeyLen + Len(msg)
      /\ (Len(tail) = 0) <=> (msg = None)
  <2>1. CASE msg = None
    <3>1. <<>> \in Seq(Msg!Byte) /\ Len(<<>>) = 0
      BY EmptySeq, Zenon
    <3>2. tail = <<>>
      BY <2>1, Zenon
    <3>3. 0 = IF msg = None THEN 0 ELSE KeyLen + Len(msg)
      BY <2>1, Zenon
    <3> HIDE DEF tail
    <3> QED
      BY <2>1, <3>1, <3>2, <3>3, Zenon
  <2>2. CASE msg # None
    <3>1. msg \in Seq(Msg!Byte) /\ sender \in Seq(Msg!Byte) /\ Len(sender) = KeyLen
      BY <1>3, <2>2, Zenon DEF String
    <3>2. sender \o msg \in Seq(Msg!Byte) /\ Len(sender \o msg) = Len(sender) + Len(msg)
          /\ Len(msg) \in Nat
      BY <3>1, CatLen, Zenon
    <3>3. \A i \in Nat : KeyLen + i # 0
      BY Lengths
    <3> QED
      BY <2>2, <3>1, <3>2, <3>3, Zenon
  <2> QED
    BY <2>1, <2>2, Zenon
<1> HIDE DEF amount, message
<1>5. Parts(Msg!Byte, to, amount, tail, KeyLen, IntLen)
  <2> HIDE DEF tail
  <2> QED
    BY <1>2, <1>3, <1>4, Lengths, Zenon DEF Parts, Strings, String
<1>6. PartsRead(Msg!Byte, to, amount, tail, KeyLen, IntLen, message)
  <2> HIDE DEF tail
  <2>1. PartsRead(Msg!Byte, to, amount, tail, KeyLen, IntLen, (to \o amount) \o tail)
    BY <1>5, Layout, Zenon
  <2> QED
    BY <1>1, <2>1, Zenon
<1>7. /\ Msg!send_to(message) = to
      /\ Msg!amount_sd(message) = Msg!from_be_bytes(amount)
      /\ Msg!compose_msg(message) = IF Len(tail) = 0 THEN None ELSE tail
      /\ Len(message) = KeyLen + IntLen + Len(tail)
  <2> HIDE DEF tail
  <2> QED
    BY <1>6, MessageReaders
<1> QED
  BY <1>2, <1>4, <1>7, Zenon DEF message

\* What ComposeMsgCodec wrote, its readers read.
LEMMA ComposedRead ==
    ASSUME NEW n \in U64, NEW eid \in SrcEids, NEW ld \in U64,
           NEW sender \in Key, NEW msg \in Seq(Msg!Byte)
    PROVE  LET message == Compose!encode(n, eid, ld, sender \o msg)
           IN  /\ message # None
               /\ Compose!nonce(message) = n
               /\ Compose!src_eid(message) = eid
               /\ Compose!amount_ld(message) = ld
               /\ Compose!compose_from(message) = sender
               /\ Compose!compose_msg(message) = msg
<1> DEFINE a == Digits(n, 8)
           b == Digits(eid, 4)
           c == Digits(ld, 8)
           message == Compose!encode(n, eid, ld, sender \o msg)
<1>1. message = ((a \o b) \o c) \o (sender \o msg)
  BY Zenon DEF Compose!encode, Compose!to_be_bytes, Digits, Msg!to_be_bytes
<1>2. /\ String(Msg!Byte, a, IntLen) /\ Compose!from_be_bytes(a) = n
      /\ String(Msg!Byte, b, EidLen) /\ Compose!from_be_bytes(b) = eid
      /\ String(Msg!Byte, c, IntLen) /\ Compose!from_be_bytes(c) = ld
  BY IntegersAre, Zenon
<1>3. String(Msg!Byte, sender, KeyLen)
  BY KeysAre, Zenon
<1> HIDE DEF a, b, c, message
<1>4. FiveParts(Msg!Byte, a, b, c, sender, msg, IntLen, EidLen, KeyLen)
  BY <1>2, <1>3, Lengths, Zenon DEF FiveParts, Strings, String
<1>5. PICK d, e, f, h :
        /\ PartsRead(Msg!Byte, a, b, e, IntLen, EidLen, message)
        /\ PartsRead(Msg!Byte, f, c, d, IntLen + EidLen, IntLen, message)
        /\ PartsRead(Msg!Byte, h, sender, msg, IntLen + EidLen + IntLen, KeyLen, message)
  BY <1>1, <1>4, FiveLayout, Zenon
<1>6. /\ Compose!nonce(message) = Compose!from_be_bytes(a)
      /\ Compose!src_eid(message) = Compose!from_be_bytes(b)
      /\ Compose!amount_ld(message) = Compose!from_be_bytes(c)
      /\ Compose!compose_from(message) = sender
      /\ Compose!compose_msg(message) = IF Len(msg) = 0 THEN <<>> ELSE msg
  BY <1>5, ComposedReaders
<1>7. message # None
  <2>1. message \in Seq(Msg!Byte)
    BY <1>5, Zenon DEF PartsRead
  <2> QED
    BY <2>1, PayloadAssumption, Zenon
<1>8. Len(msg) = 0 => msg = <<>>
  OBVIOUS
<1> QED
  BY <1>2, <1>6, <1>7, <1>8, Zenon DEF message


-----------------------------------------------------------------------------
(* The specification.                                                      *)

LEMMA InputsAre ==
    /\ Recipients \subseteq Key /\ Signers \subseteq Key
    /\ Payloads \subseteq Seq(Msg!Byte) \cup {None}
    /\ \A params \in Params : /\ params.to \in Key /\ params.amount_ld \in U64
                              /\ params.compose_msg \in Seq(Msg!Byte) \cup {None}
<1>1. Recipients \subseteq Key /\ Signers \subseteq Key
  BY KeysAre DEF Pubkey
<1>2. \A params \in Params : /\ params.to \in Recipients /\ params.amount_ld \in Amounts
                             /\ params.compose_msg \in Payloads
  BY DEF Params
<1>3. Amounts \subseteq U64 /\ Payloads \subseteq Seq(Msg!Byte) \cup {None}
  BY WidthAssumption, PayloadAssumption
<1> QED
  BY <1>1, <1>2, <1>3, Zenon

LEMMA QuotientAtMost ==
    ASSUME NEW x \in Nat, NEW rate \in Nat \ {0}
    PROVE  x \div rate \in Nat /\ x \div rate <= x
<1> DEFINE q == x \div rate
<1>1. q \in Nat /\ x % rate \in 0..(rate - 1) /\ x = rate * q + (x % rate)
  BY DivMod
<1> HIDE DEF q
<1>2. rate * q >= q /\ rate * q \in Nat
  BY <1>1
<1>3. q <= x
  BY <1>1, <1>2
<1> QED
  BY <1>1, <1>3 DEF q

\* What a transfer promises is a u64 and has no dust.
LEMMA PromiseIs ==
    ASSUME NEW params \in Params, NEW c \in Configs
    PROVE  LET r == compute_fee_and_adjust_amount(params.amount_ld, Store, c.fee, c.fee_bps)
           IN  /\ r.received \in U64
               /\ ld2sd(Store.ld2sd_rate, r.received) \in U64
               /\ sd2ld(Store.ld2sd_rate, ld2sd(Store.ld2sd_rate, r.received)) = r.received
<1> DEFINE r == compute_fee_and_adjust_amount(params.amount_ld, Store, c.fee, c.fee_bps)
           x == r.received
           rate == Store.ld2sd_rate
<1>1. params.amount_ld \in Nat /\ params.amount_ld <= U64Max /\ U64Max \in Nat
  BY InputsAre, U64Assumption DEF U64
<1>2. c.fee \in TransferFee /\ c.fee_bps \in (0..(OneInBps - 1)) \cup {None}
  BY ConfigAssumption
<1>3. /\ r.sent \in 0..params.amount_ld /\ x \in Nat /\ r.fee \in Nat
      /\ Store.oft_type = "Adapter" =>
           get_post_fee_amount_ld(c.fee, r.sent) = x + r.fee
      /\ Store.oft_type = "Native" => r.sent = x + r.fee
      /\ sd2ld(rate, ld2sd(rate, x)) = x
  <2> DEFINE amount == params.amount_ld
             tfee == c.fee
             bps == c.fee_bps
  <2>1. amount \in Nat /\ tfee \in TransferFee /\ bps \in (0..(OneInBps - 1)) \cup {None}
    BY <1>1, <1>2
  <2> HIDE DEF amount, tfee, bps
  <2>2. LET q == compute_fee_and_adjust_amount(amount, Store, tfee, bps)
        IN  /\ q.sent \in 0..amount /\ q.received \in Nat /\ q.fee \in Nat
            /\ Store.oft_type = "Adapter" =>
                 get_post_fee_amount_ld(tfee, q.sent) = q.received + q.fee
            /\ Store.oft_type = "Native" => q.sent = q.received + q.fee
            /\ sd2ld(rate, ld2sd(rate, q.received)) = q.received
    BY <2>1, StoreAssumption, ComputeFacts
  <2> QED
    BY <2>2, Zenon DEF amount, tfee, bps
<1> HIDE DEF r
<1>4. x <= r.sent
  <2>1. CASE Store.oft_type = "Native"
    BY <1>3, <2>1
  <2>2. CASE Store.oft_type = "Adapter"
    <3>1. transfer_fee(c.fee, r.sent) \in 0..r.sent
      BY <1>1, <1>2, <1>3, TransferFeeBounds
    <3>2. get_post_fee_amount_ld(c.fee, r.sent) <= r.sent
      BY <1>1, <1>3, <3>1 DEF get_post_fee_amount_ld
    <3> QED
      BY <1>1, <1>3, <2>2, <3>2
  <2> QED
    BY <2>1, <2>2, StoreAssumption
<1>5. x \in U64
  BY <1>1, <1>3, <1>4 DEF U64
<1>6. ld2sd(rate, x) \in U64
  <2>1. rate \in Nat \ {0}
    BY StoreAssumption
  <2> HIDE DEF x, rate
  <2>2. x \div rate \in Nat /\ x \div rate <= x
    <3>1. x \in Nat
      BY <1>3 DEF x
    <3> QED
      BY <2>1, <3>1, QuotientAtMost
  <2> QED
    BY <1>1, <1>5, <2>2 DEF ld2sd, U64
<1> QED
  BY <1>3, <1>5, <1>6 DEF r


LEMMA QuoteSendStep ==
    ASSUME MessagesInv, NEW params \in Params, QuoteSend(params)
    PROVE  MessagesInv'
<1>1. /\ quoted' = [params |-> params, config |-> config, receiver |-> config.peer_address,
                    message |-> quoted_message(params), options |-> CombinedOptions(params)]
      /\ config' = config /\ sent' = sent /\ received' = received /\ composed' = composed
  BY DEF QuoteSend
<1>2. config \in Configs
  BY DEF MessagesInv
<1>3. /\ quoted'.params = params /\ quoted'.config = config
      /\ quoted'.receiver = config.peer_address
      /\ quoted'.message = quoted_message(params)
      /\ quoted'.options = CombinedOptions(params)
  BY <1>1
<1>4. PricedAs(quoted')
  BY <1>3 DEF PricedAs, CombinedOptions
<1>5. quoted'.message =
        Msg!encode(quoted'.params.to,
            compute_fee_and_adjust_amount(quoted'.params.amount_ld, Store,
                quoted'.config.fee, quoted'.config.fee_bps).received,
            DefaultKey, quoted'.params.compose_msg)
  BY <1>3, Zenon DEF quoted_message, Computed
<1>6. ReadAsWritten'
  BY <1>1 DEF MessagesInv, ReadAsWritten
<1> QED
  BY <1>1, <1>2, <1>3, <1>4, <1>5, <1>6 DEF MessagesInv

LEMMA SendStep ==
    ASSUME MessagesInv, NEW params \in Params, NEW signer \in Signers, Send(params, signer)
    PROVE  MessagesInv'
<1>1. /\ sent' = [params |-> params, config |-> config, signer |-> signer,
                  receiver |-> config.peer_address,
                  amount_received_ld |-> Computed(params).received,
                  message |-> Msg!encode(params.to,
                                ld2sd(Store.ld2sd_rate, Computed(params).received),
                                signer, params.compose_msg),
                  options |-> CombinedOptions(params)]
      /\ config' = config /\ quoted' = quoted /\ received' = received /\ composed' = composed
  BY DEF Send
<1>2. config \in Configs
  BY DEF MessagesInv
<1>3. /\ sent'.params = params /\ sent'.config = config /\ sent'.signer = signer
      /\ sent'.receiver = config.peer_address
      /\ sent'.amount_received_ld = Computed(params).received
      /\ sent'.message = Msg!encode(params.to,
                            ld2sd(Store.ld2sd_rate, Computed(params).received),
                            signer, params.compose_msg)
      /\ sent'.options = CombinedOptions(params)
  BY <1>1
<1>4. PricedAs(sent')
  BY <1>3 DEF PricedAs, CombinedOptions
<1>5. /\ sent'.amount_received_ld \in U64
      /\ sd2ld(Store.ld2sd_rate, ld2sd(Store.ld2sd_rate, sent'.amount_received_ld))
           = sent'.amount_received_ld
  BY <1>2, <1>3, PromiseIs DEF Computed
<1>6. sent'.message =
        Msg!encode(sent'.params.to, ld2sd(Store.ld2sd_rate, sent'.amount_received_ld),
            sent'.signer, sent'.params.compose_msg)
  BY <1>3, Zenon
<1>7. ReadAsWritten'
  BY <1>1 DEF MessagesInv, ReadAsWritten
<1> QED
  BY <1>1, <1>2, <1>3, <1>4, <1>5, <1>6, <1>7 DEF MessagesInv

LEMMA LzReceiveStep ==
    ASSUME MessagesInv, NEW n \in Nonces, NEW eid \in SrcEids, LzReceive(n, eid)
    PROVE  MessagesInv'
<1> DEFINE rate == Store.ld2sd_rate
           m == sent.message
           ld == sd2ld(rate, Msg!amount_sd(m))
           credited == IF Store.oft_type = "Adapter"
                       THEN get_post_fee_amount_ld(config.fee, ld) ELSE ld
           msg == sent.params.compose_msg
           part == Msg!compose_msg(m)
<1>1. /\ sent # None
      /\ received' = [of |-> sent, to |-> Msg!send_to(m), nonce |-> n, src_eid |-> eid,
                      amount_ld |-> ld, amount_received_ld |-> credited]
      /\ composed' = IF part = None THEN None ELSE Compose!encode(n, eid, credited, part)
      /\ config' = config /\ quoted' = quoted /\ sent' = sent
  BY DEF LzReceive
<1>2. /\ sent.params \in Params /\ sent.signer \in Signers
      /\ sent.amount_received_ld \in U64
      /\ sd2ld(rate, ld2sd(rate, sent.amount_received_ld)) = sent.amount_received_ld
      /\ m = Msg!encode(sent.params.to, ld2sd(rate, sent.amount_received_ld), sent.signer, msg)
      /\ config \in Configs
  BY <1>1 DEF MessagesInv
<1> DEFINE sd == ld2sd(rate, sent.amount_received_ld)
<1>3. sent.params.to \in Key /\ sent.signer \in Key /\ msg \in Seq(Msg!Byte) \cup {None}
  BY <1>2, InputsAre
<1>4. sd \in U64
  <2> DEFINE x == sent.amount_received_ld
  <2>1. x \in Nat /\ x <= U64Max /\ rate \in Nat \ {0} /\ U64Max \in Nat
    BY <1>2, StoreAssumption, U64Assumption DEF U64
  <2> HIDE DEF x, rate
  <2>2. x \div rate \in Nat /\ x \div rate <= x
    BY <2>1, QuotientAtMost
  <2> QED
    BY <2>1, <2>2 DEF ld2sd, U64, x
<1>5. /\ Msg!send_to(m) = sent.params.to
      /\ Msg!amount_sd(m) = sd
      /\ part = IF msg = None THEN None ELSE sent.signer \o msg
  <2> DEFINE to == sent.params.to
             sender == sent.signer
             y == msg
  <2>1. to \in Key /\ sender \in Key /\ y \in Seq(Msg!Byte) \cup {None} /\ sd \in U64
        /\ m = Msg!encode(to, sd, sender, y)
    BY <1>2, <1>3, <1>4, Zenon
  <2> HIDE DEF to, sender, y, sd, m
  <2> DEFINE e == Msg!encode(to, sd, sender, y)
  <2>2. /\ Msg!send_to(e) = to
        /\ Msg!amount_sd(e) = sd
        /\ Msg!compose_msg(e) = IF y = None THEN None ELSE sender \o y
    BY <2>1, MessageRead
  <2>3. m = e
    BY <2>1, Zenon
  <2> HIDE DEF e
  <2> QED
    BY <2>2, <2>3, Zenon DEF to, sender, y
<1>6. ld = sent.amount_received_ld /\ ld \in U64
  BY <1>2, <1>5, Zenon
<1> HIDE DEF ld, m, sd, rate
<1>7. credited \in U64
  <2>1. config.fee \in TransferFee /\ ld \in Nat /\ U64Max \in Nat
    BY <1>2, <1>6, ConfigAssumption, U64Assumption DEF U64
  <2>2. transfer_fee(config.fee, ld) \in 0..ld
    BY <2>1, TransferFeeBounds
  <2> QED
    BY <1>6, <2>1, <2>2 DEF get_post_fee_amount_ld, U64
<1> HIDE DEF credited, part
<1>8. /\ received'.of = sent /\ received'.to = Msg!send_to(m) /\ received'.nonce = n
      /\ received'.src_eid = eid /\ received'.amount_ld = ld
      /\ received'.amount_received_ld = credited
  BY <1>1
<1>9. CASE msg = None
  <2>1. composed' = None
    BY <1>1, <1>5, <1>9, Zenon
  <2>2. ReadAsWritten'
    BY <1>5, <1>6, <1>8, <1>9, <2>1, Zenon DEF ReadAsWritten
  <2> QED
    BY <1>1, <2>2 DEF MessagesInv
<1>10. CASE msg # None
  <2> DEFINE sender == sent.signer
             y == msg
             e == Compose!encode(n, eid, credited, sender \o y)
  <2>1. n \in U64 /\ eid \in SrcEids /\ sender \in Key /\ y \in Seq(Msg!Byte)
    BY <1>3, <1>10, WidthAssumption
  <2> HIDE DEF sender, y
  <2>2. /\ e # None
        /\ Compose!nonce(e) = n
        /\ Compose!src_eid(e) = eid
        /\ Compose!amount_ld(e) = credited
        /\ Compose!compose_from(e) = sender
        /\ Compose!compose_msg(e) = y
    BY <1>7, <2>1, ComposedRead, Zenon
  <2>3. composed' = e
    <3>1. part = sender \o y
      BY <1>5, <1>10, Zenon DEF sender, y
    <3>2. sender \o y \in Seq(Msg!Byte)
      <4>1. String(Msg!Byte, sender, KeyLen)
        BY <2>1, KeysAre, Zenon
      <4> QED
        BY <2>1, <4>1, CatLen, Zenon DEF String
    <3>3. part # None
      BY <3>1, <3>2, PayloadAssumption, Zenon
    <3> QED
      BY <1>1, <3>1, <3>3, Zenon
  <2> HIDE DEF e
  <2>4. ReadAsWritten'
    BY <1>5, <1>6, <1>8, <1>10, <2>2, <2>3, Zenon DEF ReadAsWritten, sender, y
  <2> QED
    BY <1>1, <2>4 DEF MessagesInv
<1> QED
  BY <1>9, <1>10


LEMMA MessagesStep == MessagesInv /\ [Next]_vars => MessagesInv'
<1> SUFFICES ASSUME MessagesInv, [Next]_vars PROVE MessagesInv'
  OBVIOUS
<1>1. ASSUME NEW params \in Params, QuoteSend(params) PROVE MessagesInv'
  BY <1>1, QuoteSendStep
<1>2. ASSUME NEW params \in Params, NEW signer \in Signers, Send(params, signer)
      PROVE  MessagesInv'
  BY <1>2, SendStep
<1>3. ASSUME NEW n \in Nonces, NEW eid \in SrcEids, LzReceive(n, eid) PROVE MessagesInv'
  BY <1>3, LzReceiveStep
<1>4. CASE Reconfigure
  BY <1>4 DEF Reconfigure, MessagesInv, ReadAsWritten
<1>5. CASE UNCHANGED vars
  BY <1>5 DEF vars, MessagesInv, ReadAsWritten
<1> QED
  BY <1>1, <1>2, <1>3, <1>4, <1>5 DEF Next

\* Two encodings of one recipient and one compose_msg are equally long, whatever
\* amount and sender they carry.
LEMMA PriceIsLength ==
    ASSUME NEW to \in Key, NEW sd1 \in U64, NEW sd2 \in U64, NEW s1 \in Key, NEW s2 \in Key,
           NEW msg \in Seq(Msg!Byte) \cup {None}
    PROVE  Len(Msg!encode(to, sd1, s1, msg)) = Len(Msg!encode(to, sd2, s2, msg))
<1> DEFINE e1 == Msg!encode(to, sd1, s1, msg)
           e2 == Msg!encode(to, sd2, s2, msg)
           l == KeyLen + IntLen + (IF msg = None THEN 0 ELSE KeyLen + Len(msg))
<1>1. Len(e1) = l
  BY MessageRead
<1>2. Len(e2) = l
  BY MessageRead
<1>3. Len(e1) = Len(e2)
  <2> HIDE DEF e1, e2, l
  <2> QED
    BY <1>1, <1>2, Zenon
<1> QED
  BY <1>3, Zenon

LEMMA InvPrices == MessagesInv => QuotePricesSend
<1> SUFFICES ASSUME MessagesInv, quoted # None, sent # None,
                    quoted.params = sent.params, quoted.config = sent.config
             PROVE  /\ Len(quoted.message) = Len(sent.message)
                    /\ quoted.receiver = sent.receiver
                    /\ quoted.options = sent.options
  BY DEF QuotePricesSend
<1> DEFINE to == quoted.params.to
           x == compute_fee_and_adjust_amount(quoted.params.amount_ld, Store,
                    quoted.config.fee, quoted.config.fee_bps).received
           y == ld2sd(Store.ld2sd_rate, sent.amount_received_ld)
           s == sent.signer
           z == quoted.params.compose_msg
<1>1. /\ quoted.params \in Params /\ quoted.config \in Configs /\ sent.signer \in Signers
      /\ quoted.message = Msg!encode(to, x, DefaultKey, z)
      /\ sent.message = Msg!encode(to, y, s, z)
      /\ sent.amount_received_ld \in U64
      /\ PricedAs(quoted) /\ PricedAs(sent)
  BY Zenon DEF MessagesInv
<1>2. quoted.receiver = sent.receiver /\ quoted.options = sent.options
  BY <1>1, Zenon DEF PricedAs
<1>3. to \in Key /\ s \in Key /\ DefaultKey \in Key /\ z \in Seq(Msg!Byte) \cup {None}
  BY <1>1, InputsAre, KeysAre, Zenon
<1>4. x \in U64
  BY <1>1, PromiseIs, Zenon
<1>5. y \in U64
  <2> DEFINE w == sent.amount_received_ld
             rate == Store.ld2sd_rate
  <2>1. w \in Nat /\ w <= U64Max /\ rate \in Nat \ {0} /\ U64Max \in Nat
    BY <1>1, StoreAssumption, U64Assumption DEF U64
  <2> HIDE DEF w, rate
  <2>2. w \div rate \in Nat /\ w \div rate <= w
    BY <2>1, QuotientAtMost
  <2> QED
    BY <2>1, <2>2 DEF ld2sd, U64, w, rate
<1> HIDE DEF to, x, y, s, z
<1>6. Len(Msg!encode(to, x, DefaultKey, z)) = Len(Msg!encode(to, y, s, z))
  BY <1>3, <1>4, <1>5, PriceIsLength
<1> QED
  BY <1>1, <1>2, <1>6, Zenon

\* The inductive invariant: quotes and messages are the encodings of their
\* parameters, and what was read of a message is what was written.
THEOREM MessagesKeepInv == Spec => []MessagesInv
<1>1. Init => MessagesInv
  BY DEF Init, MessagesInv, ReadAsWritten
<1> QED
  BY <1>1, MessagesStep, PTL DEF Spec

\* quote_send prices the message, receiver and options that send then uses, for
\* every amount, address and compose_msg (quote_send.rs, send.rs, msg_codec.rs).
THEOREM QuotesPriceSends == Spec => []QuotePricesSend
BY MessagesKeepInv, InvPrices, PTL

\* lz_receive and the composer read from the bytes what send and lz_receive wrote,
\* for every u64, address and payload (msg_codec.rs, compose_msg_codec.rs).
THEOREM MessagesAreReadAsWritten == Spec => []ReadAsWritten
<1>1. MessagesInv => ReadAsWritten
  BY DEF MessagesInv
<1> QED
  BY <1>1, MessagesKeepInv, PTL

=============================================================================
