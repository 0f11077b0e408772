-------------------------- MODULE ResponseFrame_proof --------------------------
(* Theorems about ResponseFrame, for every alphabet of bytes: what a server   *)
(* puts into a response is what the client reads, for any number of responses *)
(* and any list of items that fits, and a changed byte shows.                 *)
EXTENDS ResponseFrame, Recursion_proof

-----------------------------------------------------------------------------
(* Bytes and words.                                                           *)

LEMMA PlaceIs ==
  /\ Place[0] = 1 /\ Place[1] = Radix /\ Place[2] = Radix * Radix
  /\ Place[3] = Radix * (Radix * Radix)
<1> DEFINE h == [p \in (1..7) \X Nat |-> Radix * p[2]]
           Places(f) == f = [n \in 0..7 |-> IF n = 0 THEN 1 ELSE Radix * f[n - 1]]
<1>1. h \in [(1..7) \X Nat -> Nat] /\ 7 \in Nat /\ 1 \in Nat
  BY RadixAssumption
<1>2. PICK f \in [0..7 -> Nat] : Recursive(f, 7, 1, h)
  <2> HIDE DEF h
  <2> QED BY <1>1, RecursiveFunction
<1>3. Places(f)
  <2>1. ASSUME NEW n \in 0..7 PROVE f[n] = IF n = 0 THEN 1 ELSE Radix * f[n - 1]
    <3>1. f[n] = IF n = 0 THEN 1 ELSE h[<<n, f[n - 1]>>]
      BY <1>2 DEF Recursive
    <3>2. n # 0 => n \in 1..7 /\ f[n - 1] \in Nat
      OBVIOUS
    <3> QED BY <3>1, <3>2
  <2> QED BY <2>1
<1>4. Places(Place)
  <2>1. Place = CHOOSE g : Places(g)
    BY DEF Place
  <2> HIDE DEF Places
  <2> QED BY <1>3, <2>1, Zenon
<1>5. \A n \in 0..7 : Place[n] = IF n = 0 THEN 1 ELSE Radix * Place[n - 1]
  BY <1>4
<1>6. /\ Place[0] = 1 /\ Place[1] = Radix * Place[1 - 1] /\ Place[2] = Radix * Place[2 - 1]
      /\ Place[3] = Radix * Place[3 - 1]
  BY <1>5
<1>7. 1 - 1 = 0 /\ 2 - 1 = 1 /\ 3 - 1 = 2 /\ Radix * 1 = Radix
  BY RadixAssumption
<1> QED BY <1>6, <1>7

LEMMA WordFacts ==
  /\ Radix \in Nat /\ Radix >= 2 /\ Word \in Nat /\ Word >= 4
  /\ \A b : b \in Bytes <=> b \in Nat /\ b < Radix
BY RadixAssumption DEF Word, Bytes

LEMMA Division ==
  ASSUME NEW v \in Nat, NEW d \in Nat \ {0}
  PROVE  v = d * (v \div d) + (v % d) /\ v % d \in Nat /\ v % d < d /\ v \div d \in Nat
OBVIOUS

LEMMA DivisionIs ==
  ASSUME NEW d \in Nat \ {0}, NEW q \in Nat, NEW r \in Nat, r < d
  PROVE  (d * q + r) \div d = q /\ (d * q + r) % d = r
OBVIOUS

LEMMA SmallRemainder == ASSUME NEW v \in Nat, NEW d \in Nat, v < d PROVE v % d = v
OBVIOUS

LEMMA ListIs ==
  ASSUME NEW S, NEW n \in Nat, NEW s \in [1..n -> S]
  PROVE  s \in Seq(S) /\ Len(s) = n /\ DOMAIN s = 1..n
OBVIOUS

LEMMA DigitsOfWord ==
  ASSUME NEW v \in Nat
  PROVE  /\ BigEndian(v, 2) \in Seq(Bytes) /\ Len(BigEndian(v, 2)) = 2
         /\ BigEndian(v, 2)[1] = (v \div Radix) % Radix /\ BigEndian(v, 2)[2] = v % Radix
         /\ v < Word => (v \div Radix) % Radix = v \div Radix
<1>1. Radix \in Nat \ {0}
  BY WordFacts
<1>2. BigEndian(v, 2) = [i \in 1..2 |-> (v \div Place[2 - i]) % Radix]
  BY DEF BigEndian
<1>3. BigEndian(v, 2)[1] = (v \div Radix) % Radix /\ BigEndian(v, 2)[2] = v % Radix
  <2>1. 2 - 1 = 1 /\ 2 - 2 = 0 /\ v \div 1 = v
    OBVIOUS
  <2> QED BY <1>2, <2>1, PlaceIs
<1>4. (v \div Radix) % Radix \in Bytes /\ v % Radix \in Bytes
  BY <1>1, Division, WordFacts
<1>5. BigEndian(v, 2) \in [1..2 -> Bytes]
  BY <1>2, <1>3, <1>4
<1>6. v < Word => (v \div Radix) % Radix = v \div Radix
  <2> SUFFICES ASSUME v < Word PROVE (v \div Radix) % Radix = v \div Radix
    OBVIOUS
  <2>1. v = Radix * (v \div Radix) + (v % Radix) /\ v \div Radix \in Nat /\ v % Radix \in Nat
    BY <1>1, Division
  <2>2. v \div Radix < Radix
    BY <1>1, <2>1 DEF Word
  <2> QED BY <1>1, <2>1, <2>2
<1>7. BigEndian(v, 2) \in Seq(Bytes) /\ Len(BigEndian(v, 2)) = 2
  <2> DEFINE s == BigEndian(v, 2)
  <2>1. s \in [1..2 -> Bytes] /\ 2 \in Nat
    BY <1>5
  <2> HIDE DEF s
  <2>2. s \in Seq(Bytes) /\ Len(s) = 2
    BY <2>1, ListIs
  <2> QED BY <2>2 DEF s
<1> QED BY <1>3, <1>6, <1>7

LEMMA NumberTwo ==
  ASSUME NEW a \in Bytes, NEW b \in Bytes
  PROVE  Number(<<a, b>>) = a * Radix + b
<1> DEFINE s == <<a, b>>
           f == [i \in DOMAIN s |-> s[i] * Place[Len(s) - i]]
<1>1. DOMAIN s = 1..2 /\ Len(s) = 2 /\ s[1] = a /\ s[2] = b
  OBVIOUS
<1>2. a \in Nat /\ b \in Nat /\ Radix \in Nat
  BY WordFacts
<1>3. f = [i \in 1..2 |-> s[i] * Place[2 - i]]
  BY <1>1
<1>4. f[1] = a * Radix /\ f[2] = b
  <2>1. 2 - 1 = 1 /\ 2 - 2 = 0 /\ b * 1 = b
    BY <1>2
  <2> QED BY <1>1, <1>3, <2>1, PlaceIs
<1>5. f \in [1..2 -> Int]
  <2> HIDE DEF f
  <2>1. f[1] \in Int /\ f[2] \in Int
    BY <1>2, <1>4
  <2> QED BY <1>3, <2>1
<1>6. Number(s) = SumFunction(f)
  BY DEF Number
<1> HIDE DEF f
<1> QED BY <1>4, <1>5, <1>6, SumTwo

LEMMA Slice ==
  ASSUME NEW S, NEW s \in Seq(S), NEW m \in Nat \ {0}, NEW n \in Nat, m <= n + 1, n <= Len(s)
  PROVE  /\ SubSeq(s, m, n) \in Seq(S) /\ Len(SubSeq(s, m, n)) = n + 1 - m
         /\ \A i \in 1..(n + 1 - m) : SubSeq(s, m, n)[i] = s[m + i - 1]
<1>1. Len(s) \in Nat
  BY LenProperties
<1>2. SubSeq(s, m, n) = [i \in 1..(n + 1 - m) |-> s[m + i - 1]]
  OBVIOUS
<1>3. \A i \in 1..(n + 1 - m) : m + i - 1 \in 1..Len(s) /\ s[m + i - 1] \in S
  BY <1>1, ElementOfSeq
<1>4. n + 1 - m \in Nat
  OBVIOUS
<1> DEFINE t == SubSeq(s, m, n)
<1>5. t \in [1..(n + 1 - m) -> S] /\ \A i \in 1..(n + 1 - m) : t[i] = s[m + i - 1]
  BY <1>2, <1>3
<1> HIDE DEF t
<1>6. t \in Seq(S) /\ Len(t) = n + 1 - m
  BY <1>4, <1>5, ListIs
<1> QED BY <1>5, <1>6 DEF t

\* Reading a word, of which a part may be missing.
LEMMA WordRead ==
  ASSUME NEW data \in Seq(Bytes), NEW offset \in Nat
  PROVE  /\ ToWord(data, offset) \in Nat /\ ToWord(data, offset) < Word
         /\ Len(data) < offset + 2 => ToWord(data, offset) = 0
         /\ Len(data) >= offset + 2 =>
              ToWord(data, offset) = data[offset + 1] * Radix + data[offset + 2]
<1>1. Len(data) \in Nat
  BY LenProperties
<1>2. CASE Len(data) < offset + 2
  BY <1>2, WordFacts DEF ToWord, ToNumber
<1>3. CASE ~(Len(data) < offset + 2)
  <2>1. data[offset + 1] \in Bytes /\ data[offset + 2] \in Bytes
    BY <1>1, <1>3, ElementOfSeq
  <2>2. SubSeq(data, offset + 1, offset + 2) = <<data[offset + 1], data[offset + 2]>>
    <3> DEFINE t == SubSeq(data, offset + 1, offset + 2)
    <3>1. /\ offset + 1 \in Nat \ {0} /\ offset + 2 \in Nat /\ offset + 1 <= (offset + 2) + 1
          /\ offset + 2 <= Len(data) /\ (offset + 2) + 1 - (offset + 1) = 2
      BY <1>1, <1>3
    <3>2. /\ t \in Seq(Bytes) /\ Len(t) = 2
          /\ \A i \in 1..2 : t[i] = data[(offset + 1) + i - 1]
      <4> DEFINE m == offset + 1
                 n == offset + 2
      <4>1. m \in Nat \ {0} /\ n \in Nat /\ m <= n + 1 /\ n <= Len(data) /\ n + 1 - m = 2
        BY <3>1
      <4>2. t = SubSeq(data, m, n)
        OBVIOUS
      <4> HIDE DEF m, n, t
      <4>3. /\ SubSeq(data, m, n) \in Seq(Bytes) /\ Len(SubSeq(data, m, n)) = n + 1 - m
            /\ \A i \in 1..(n + 1 - m) : SubSeq(data, m, n)[i] = data[m + i - 1]
        BY <4>1, Slice
      <4>4. t \in Seq(Bytes) /\ Len(t) = 2 /\ \A i \in 1..2 : t[i] = data[m + i - 1]
        BY <4>1, <4>2, <4>3, Zenon
      <4> QED BY <4>4 DEF m
    <3>3. (offset + 1) + 1 - 1 = offset + 1 /\ (offset + 1) + 2 - 1 = offset + 2
      OBVIOUS
    <3> HIDE DEF t
    <3>4. t[1] = data[offset + 1] /\ t[2] = data[offset + 2]
      BY <3>2, <3>3
    <3>5. t = <<data[offset + 1], data[offset + 2]>>
      BY <3>2, <3>4
    <3> QED BY <3>5 DEF t
  <2>3. ToWord(data, offset) = data[offset + 1] * Radix + data[offset + 2]
    BY <1>3, <2>1, <2>2, NumberTwo DEF ToWord, ToNumber
  <2>4. \A a \in Bytes, b \in Bytes : a * Radix + b \in Nat /\ a * Radix + b < Word
    BY WordFacts DEF Word
  <2> QED BY <1>1, <1>3, <2>1, <2>3, <2>4
<1> QED BY <1>2, <1>3

\* The bytes are found in the body behind an offset.
Holds(body, offset, bytes) ==
  /\ offset + Len(bytes) <= Len(body)
  /\ \A i \in 1..Len(bytes) : body[offset + i] = bytes[i]

LEMMA WordIsRead ==
  ASSUME NEW body \in Seq(Bytes), NEW offset \in Nat, NEW v \in Nat, v < Word,
         Holds(body, offset, BigEndian(v, 2))
  PROVE  ToWord(body, offset) = v
<1>1. /\ Len(body) \in Nat /\ offset + 2 <= Len(body)
      /\ body[offset + 1] = v \div Radix /\ body[offset + 2] = v % Radix
  BY LenProperties, DigitsOfWord DEF Holds
<1>2. ToWord(body, offset) = body[offset + 1] * Radix + body[offset + 2]
  BY <1>1, WordRead
<1>3. v = Radix * (v \div Radix) + (v % Radix) /\ v \div Radix \in Nat
  BY Division, WordFacts
<1> QED BY <1>1, <1>2, <1>3, WordFacts

-----------------------------------------------------------------------------
(* Floats, by the four bytes they have.                                       *)

Quad == Word * Word

LEMMA DivisionTwice ==
  ASSUME NEW v \in Nat, NEW d \in Nat \ {0}, NEW e \in Nat \ {0}
  PROVE  v \div (e * d) = (v \div d) \div e
<1> DEFINE q == v \div d
           r == v % d
           a == q \div e
           b == q % e
<1>1. v = d * q + r /\ r \in Nat /\ r < d /\ q \in Nat
  BY Division
<1> HIDE DEF q, r
<1>2. q = e * a + b /\ b \in Nat /\ b < e /\ a \in Nat
  BY <1>1, Division
<1> HIDE DEF a, b
<1>3. v = (e * d) * a + (d * b + r)
  <2>1. d * (e * a + b) = (e * d) * a + d * b
    BY <1>2
  <2> QED BY <1>1, <1>2, <2>1
<1>4. d * b + r < e * d /\ d * b + r \in Nat
  <2>1. b <= e - 1
    BY <1>2
  <2>2. d * b <= d * (e - 1)
    BY <1>2, <2>1
  <2>3. d * (e - 1) = e * d - d
    OBVIOUS
  <2> QED BY <1>1, <1>2, <2>2, <2>3
<1>5. e * d \in Nat \ {0}
  OBVIOUS
<1> DEFINE m == e * d
           t == d * b + r
<1>6. v = m * a + t /\ m \in Nat \ {0} /\ t \in Nat /\ t < m
  BY <1>3, <1>4, <1>5
<1> HIDE DEF m, t
<1>7. v \div m = a
  BY <1>2, <1>6, DivisionIs
<1> QED BY <1>7 DEF m, a, q

LEMMA DigitsOfFloat ==
  ASSUME NEW v \in Nat
  PROVE  /\ BigEndian(v, 4) \in Seq(Bytes) /\ Len(BigEndian(v, 4)) = 4
         /\ v < Quad => v = BigEndian(v, 4)[1] * (Radix * (Radix * Radix))
                              + BigEndian(v, 4)[2] * (Radix * Radix)
                              + BigEndian(v, 4)[3] * Radix + BigEndian(v, 4)[4]
<1> DEFINE s == BigEndian(v, 4)
<1>1. Radix \in Nat \ {0} /\ Radix * Radix \in Nat \ {0}
      /\ Radix * (Radix * Radix) \in Nat \ {0}
  BY WordFacts
<1>2. s = [i \in 1..4 |-> (v \div Place[4 - i]) % Radix]
  BY DEF BigEndian
<1>3. /\ s[1] = (v \div (Radix * (Radix * Radix))) % Radix /\ s[2] = (v \div (Radix * Radix)) % Radix
      /\ s[3] = (v \div Radix) % Radix /\ s[4] = v % Radix
  <2>1. 4 - 1 = 3 /\ 4 - 2 = 2 /\ 4 - 3 = 1 /\ 4 - 4 = 0 /\ v \div 1 = v
    OBVIOUS
  <2>2. s[1] = (v \div Place[4 - 1]) % Radix /\ s[2] = (v \div Place[4 - 2]) % Radix
        /\ s[3] = (v \div Place[4 - 3]) % Radix /\ s[4] = (v \div Place[4 - 4]) % Radix
    BY <1>2
  <2> HIDE DEF s
  <2> QED BY <2>1, <2>2, PlaceIs
<1>4. \A n \in Nat : n % Radix \in Bytes
  BY <1>1, Division, WordFacts
<1>5. s \in Seq(Bytes) /\ Len(s) = 4
  <2>1. \A i \in 1..4 : v \div Place[4 - i] \in Nat
    <3>1. \A i \in 1..4 : Place[4 - i] \in Nat \ {0}
      <4>1. \A i \in 1..4 : i = 1 \/ i = 2 \/ i = 3 \/ i = 4
        OBVIOUS
      <4>2. 4 - 1 = 3 /\ 4 - 2 = 2 /\ 4 - 3 = 1 /\ 4 - 4 = 0
        OBVIOUS
      <4> QED BY <1>1, <4>1, <4>2, PlaceIs
    <3> QED BY <3>1, Division
  <2>2. s \in [1..4 -> Bytes] /\ 4 \in Nat
    BY <1>2, <1>4, <2>1
  <2> HIDE DEF s
  <2> QED BY <2>2, ListIs
<1> HIDE DEF s
<1>6. ASSUME v < Quad
      PROVE  v = s[1] * (Radix * (Radix * Radix)) + s[2] * (Radix * Radix) + s[3] * Radix + s[4]
  <2> DEFINE q1 == v \div Radix
             q2 == v \div (Radix * Radix)
             q3 == v \div (Radix * (Radix * Radix))
  <2>1. q2 = q1 \div Radix
    BY <1>1, DivisionTwice
  <2>2. q3 = q2 \div Radix
    BY <1>1, DivisionTwice
  <2>3. v = Radix * q1 + s[4] /\ q1 \in Nat /\ s[4] \in Nat
    BY <1>1, <1>3, Division
  <2>4. q3 = q2 \div Radix /\ s[1] = q3 % Radix /\ s[2] = q2 % Radix /\ s[3] = q1 % Radix
    BY <1>3, <2>2
  <2> HIDE DEF q1, q2, q3
  <2>5. q1 = Radix * q2 + s[3] /\ q2 \in Nat /\ s[3] \in Nat
    <3>1. /\ q1 = Radix * (q1 \div Radix) + (q1 % Radix)
          /\ q1 % Radix \in Nat /\ q1 \div Radix \in Nat
      BY <1>1, <2>3, Division
    <3>2. q2 = q1 \div Radix /\ s[3] = q1 % Radix
      BY <2>1, <2>4 DEF q1, q2
    <3> QED BY <3>1, <3>2, Zenon
  <2>6. q2 = Radix * q3 + s[2] /\ q3 \in Nat /\ s[2] \in Nat
    <3>1. /\ q2 = Radix * (q2 \div Radix) + (q2 % Radix)
          /\ q2 % Radix \in Nat /\ q2 \div Radix \in Nat
      BY <1>1, <2>5, Division
    <3> QED BY <2>4, <3>1, Zenon
  <2>7. v = q3 * (Radix * (Radix * Radix)) + s[2] * (Radix * Radix) + s[3] * Radix + s[4]
    <3>1. Radix * q2 = Radix * (Radix * q3) + Radix * s[2]
      BY <1>1, <2>6
    <3>2. Radix * (Radix * q3 + s[2]) = Radix * (Radix * q3) + Radix * s[2]
      BY <1>1, <2>6
    <3>3. v = Radix * (Radix * (Radix * q3 + s[2]) + s[3]) + s[4]
      BY <2>3, <2>5, <2>6
    <3>4. Radix * (Radix * (Radix * q3 + s[2]) + s[3])
            = q3 * (Radix * (Radix * Radix)) + s[2] * (Radix * Radix) + s[3] * Radix
      BY <1>1, <2>5, <2>6
    <3> QED BY <3>3, <3>4
  <2>8. q3 < Radix
    <3>1. q3 * (Radix * (Radix * Radix)) <= v
      <4>1. \A a \in Nat : a * (Radix * Radix) \in Nat /\ a * Radix \in Nat
        BY <1>1
      <4>2. q3 * (Radix * (Radix * Radix)) \in Nat
        BY <1>1, <2>6
      <4> QED BY <2>3, <2>5, <2>6, <2>7, <4>1, <4>2
    <3>2. Quad = Radix * (Radix * (Radix * Radix))
      BY <1>1 DEF Quad, Word
    <3> DEFINE c == Radix * (Radix * Radix)
    <3>3. c \in Nat \ {0} /\ q3 * c < Radix * c
      <4>1. q3 * c \in Nat /\ c \in Nat \ {0} /\ Quad = Radix * c
        BY <1>1, <2>6, <3>2
      <4> HIDE DEF c
      <4>2. q3 * c <= v
        BY <3>1 DEF c
      <4>3. Quad \in Nat
        BY <1>1, <4>1
      <4> QED BY <1>6, <4>1, <4>2, <4>3
    <3> HIDE DEF c
    <3>4. q3 >= Radix => q3 * c >= Radix * c
      BY <1>1, <2>6, <3>3
    <3>5. q3 * c \in Nat /\ Radix * c \in Nat
      BY <1>1, <2>6, <3>3
    <3> QED BY <1>1, <2>6, <3>3, <3>4, <3>5
  <2>9. s[1] = q3
    BY <1>1, <2>4, <2>6, <2>8
  <2> QED BY <2>7, <2>9
<1> QED BY <1>5, <1>6 DEF s

LEMMA NumberFour ==
  ASSUME NEW s \in Seq(Bytes), Len(s) = 4
  PROVE  Number(s) = s[1] * (Radix * (Radix * Radix)) + s[2] * (Radix * Radix)
                       + s[3] * Radix + s[4]
<1> DEFINE f == [i \in DOMAIN s |-> s[i] * Place[Len(s) - i]]
<1>1. DOMAIN s = 1..4 /\ \A i \in 1..4 : s[i] \in Nat
  BY WordFacts, ElementOfSeq, LenProperties
<1>3. f = [i \in 1..4 |-> s[i] * Place[4 - i]]
  BY <1>1
<1>4. /\ f[1] = s[1] * (Radix * (Radix * Radix)) /\ f[2] = s[2] * (Radix * Radix)
      /\ f[3] = s[3] * Radix /\ f[4] = s[4]
  <2>1. 4 - 1 = 3 /\ 4 - 2 = 2 /\ 4 - 3 = 1 /\ 4 - 4 = 0 /\ s[4] * 1 = s[4]
    BY <1>1
  <2>2. /\ f[1] = s[1] * Place[4 - 1] /\ f[2] = s[2] * Place[4 - 2]
        /\ f[3] = s[3] * Place[4 - 3] /\ f[4] = s[4] * Place[4 - 4]
    BY <1>3
  <2> HIDE DEF f
  <2> QED BY <2>1, <2>2, PlaceIs
<1>5. f \in [1..4 -> Int]
  <2>0. DOMAIN f = 1..4 /\ f = [i \in 1..4 |-> f[i]]
    BY <1>3
  <2> HIDE DEF f
  <2>1. f[1] \in Int /\ f[2] \in Int /\ f[3] \in Int /\ f[4] \in Int
    BY <1>1, <1>4, WordFacts
  <2>2. \A i \in 1..4 : i = 1 \/ i = 2 \/ i = 3 \/ i = 4
    OBVIOUS
  <2> QED BY <2>0, <2>1, <2>2
<1>6. Number(s) = SumFunction(f)
  BY DEF Number
<1> HIDE DEF f
<1> QED BY <1>4, <1>5, <1>6, SumFour

-----------------------------------------------------------------------------
(* Items.                                                                     *)

LEMMA HoldsBoth ==
  ASSUME NEW body \in Seq(Bytes), NEW offset \in Nat,
         NEW a \in Seq(Bytes), NEW b \in Seq(Bytes), Holds(body, offset, a \o b)
  PROVE  Holds(body, offset, a) /\ Holds(body, offset + Len(a), b)
<1>1. /\ Len(body) \in Nat /\ Len(a) \in Nat /\ Len(b) \in Nat
      /\ Len(a \o b) = Len(a) + Len(b)
      /\ \A i \in 1..(Len(a) + Len(b)) :
            (a \o b)[i] = IF i <= Len(a) THEN a[i] ELSE b[i - Len(a)]
  BY LenProperties, ConcatProperties
<1> DEFINE c == a \o b
<1>2. /\ Len(c) = Len(a) + Len(b) /\ Holds(body, offset, c)
      /\ \A i \in 1..(Len(a) + Len(b)) : c[i] = IF i <= Len(a) THEN a[i] ELSE b[i - Len(a)]
  BY <1>1
<1> HIDE DEF c
<1>3. Holds(body, offset, a)
  <2>1. ASSUME NEW i \in 1..Len(a) PROVE body[offset + i] = a[i]
    <3>1. i \in 1..Len(c) /\ i <= Len(a) /\ i \in 1..(Len(a) + Len(b))
      BY <1>1, <1>2
    <3> QED BY <1>2, <3>1 DEF Holds
  <2> QED BY <1>1, <1>2, <2>1 DEF Holds
<1>4. Holds(body, offset + Len(a), b)
  <2>1. ASSUME NEW i \in 1..Len(b) PROVE body[offset + Len(a) + i] = b[i]
    <3>1. /\ Len(a) + i \in 1..Len(c) /\ ~(Len(a) + i <= Len(a)) /\ (Len(a) + i) - Len(a) = i
          /\ Len(a) + i \in 1..(Len(a) + Len(b)) /\ offset + (Len(a) + i) = offset + Len(a) + i
      BY <1>1, <1>2
    <3>2. body[offset + (Len(a) + i)] = c[Len(a) + i]
      BY <1>2, <3>1 DEF Holds
    <3>3. c[Len(a) + i] = b[(Len(a) + i) - Len(a)]
      BY <1>2, <3>1
    <3> QED BY <3>1, <3>2, <3>3
  <2> QED BY <1>1, <1>2, <2>1 DEF Holds
<1> QED BY <1>3, <1>4

LEMMA FloatRead ==
  ASSUME NEW body \in Seq(Bytes), NEW offset \in Nat
  PROVE  ToNumber(body, offset, 4) \in Nat
<1>1. Len(body) \in Nat
  BY LenProperties
<1>2. CASE Len(body) < offset + 4
  BY <1>2 DEF ToNumber
<1>3. CASE ~(Len(body) < offset + 4)
  <2> DEFINE s == SubSeq(body, offset + 1, offset + 4)
  <2>1. /\ offset + 1 \in Nat \ {0} /\ offset + 4 \in Nat /\ offset + 1 <= (offset + 4) + 1
        /\ offset + 4 <= Len(body) /\ (offset + 4) + 1 - (offset + 1) = 4
    BY <1>1, <1>3
  <2>2. s \in Seq(Bytes) /\ Len(s) = 4
    BY <2>1, Slice
  <2>3. ToNumber(body, offset, 4) = Number(s)
    BY <1>3 DEF ToNumber
  <2> HIDE DEF s
  <2>4. s[1] \in Nat /\ s[2] \in Nat /\ s[3] \in Nat /\ s[4] \in Nat
    BY <2>2, ElementOfSeq, WordFacts
  <2>5. Radix * Radix \in Nat /\ Radix * (Radix * Radix) \in Nat /\ Radix \in Nat
    BY WordFacts
  <2>6. \A a \in Nat, b \in Nat : a * b \in Nat
    OBVIOUS
  <2>7. Number(s) = s[1] * (Radix * (Radix * Radix)) + s[2] * (Radix * Radix)
                       + s[3] * Radix + s[4]
    BY <2>2, NumberFour
  <2>8. /\ s[1] * (Radix * (Radix * Radix)) \in Nat /\ s[2] * (Radix * Radix) \in Nat
        /\ s[3] * Radix \in Nat
    BY <2>4, <2>5, <2>6, Zenon
  <2>9. Number(s) \in Nat
    BY <2>4, <2>7, <2>8
  <2> QED BY <2>3, <2>9
<1> QED BY <1>2, <1>3

LEMMA FloatIsRead ==
  ASSUME NEW body \in Seq(Bytes), NEW offset \in Nat, NEW v \in Nat, v < Quad,
         Holds(body, offset, BigEndian(v, 4))
  PROVE  ToNumber(body, offset, 4) = v
<1> DEFINE s == SubSeq(body, offset + 1, offset + 4)
           t == BigEndian(v, 4)
<1>1. /\ t \in Seq(Bytes) /\ Len(t) = 4
      /\ v = t[1] * (Radix * (Radix * Radix)) + t[2] * (Radix * Radix) + t[3] * Radix + t[4]
  BY DigitsOfFloat
<1>2. Len(body) \in Nat /\ Holds(body, offset, t)
  BY LenProperties
<1> HIDE DEF t
<1>3. offset + 4 <= Len(body) /\ \A i \in 1..4 : body[offset + i] = t[i]
  BY <1>1, <1>2 DEF Holds
<1>4. /\ offset + 1 \in Nat \ {0} /\ offset + 4 \in Nat /\ offset + 1 <= (offset + 4) + 1
      /\ (offset + 4) + 1 - (offset + 1) = 4
      /\ \A i \in 1..4 : (offset + 1) + i - 1 = offset + i
  OBVIOUS
<1>5. /\ s \in Seq(Bytes) /\ Len(s) = 4
      /\ \A i \in 1..4 : s[i] = body[(offset + 1) + i - 1]
  BY <1>3, <1>4, Slice
<1>6. ToNumber(body, offset, 4) = Number(s)
  BY <1>2, <1>3 DEF ToNumber
<1> HIDE DEF s
<1>7. \A i \in 1..4 : s[i] = t[i]
  BY <1>3, <1>4, <1>5
<1>8. s[1] = t[1] /\ s[2] = t[2] /\ s[3] = t[3] /\ s[4] = t[4]
  BY <1>7
<1> QED BY <1>1, <1>5, <1>6, <1>8, NumberFour, Zenon

LEMMA TextAsBytes ==
  ASSUME NEW s \in Seq(Bytes)
  PROVE  /\ FromText(s) \in Seq(Bytes) /\ Len(FromText(s)) = Even(Len(s)) + 2
         /\ \A body \in Seq(Bytes), offset \in Nat : Holds(body, offset, FromText(s)) =>
              /\ Holds(body, offset, BigEndian(Len(s) % Word, 2))
              /\ Holds(body, offset + 2, s)
<1> DEFINE a == BigEndian(Len(s) % Word, 2)
           z == Zeros(Len(s) % 2)
<1>1. /\ Len(s) \in Nat /\ Len(s) % Word \in Nat /\ Len(s) % 2 \in Nat /\ 0 \in Bytes
  BY LenProperties, Division, WordFacts
<1>2. a \in Seq(Bytes) /\ Len(a) = 2
  BY <1>1, DigitsOfWord
<1>3. z \in Seq(Bytes) /\ Len(z) = Len(s) % 2
  <2>1. z \in [1..(Len(s) % 2) -> Bytes]
    BY <1>1 DEF Zeros
  <2> HIDE DEF z
  <2> QED BY <1>1, <2>1, ListIs
<1>4. FromText(s) = (a \o s) \o z
  BY DEF FromText
<1> HIDE DEF a, z
<1>5. /\ a \o s \in Seq(Bytes) /\ Len(a \o s) = 2 + Len(s)
      /\ (a \o s) \o z \in Seq(Bytes) /\ Len((a \o s) \o z) = 2 + Len(s) + (Len(s) % 2)
  <2>1. a \o s \in Seq(Bytes) /\ Len(a \o s) = 2 + Len(s)
    <3>1. a \o s \in Seq(Bytes) /\ Len(a \o s) = Len(a) + Len(s)
      BY <1>2, ConcatProperties, Zenon
    <3> QED BY <1>2, <3>1
  <2> DEFINE b == a \o s
  <2>2. b \in Seq(Bytes) /\ Len(b) = 2 + Len(s)
    BY <2>1
  <2> HIDE DEF b
  <2>3. b \o z \in Seq(Bytes) /\ Len(b \o z) = 2 + Len(s) + (Len(s) % 2)
    <3>1. b \o z \in Seq(Bytes) /\ Len(b \o z) = Len(b) + Len(z)
      BY <1>3, <2>2, ConcatProperties, Zenon
    <3> QED BY <1>3, <2>2, <3>1, Zenon
  <2> QED BY <2>1, <2>3 DEF b
<1>6. Even(Len(s)) + 2 = 2 + Len(s) + (Len(s) % 2)
  BY <1>1 DEF Even
<1>7. ASSUME NEW body \in Seq(Bytes), NEW offset \in Nat, Holds(body, offset, FromText(s))
      PROVE  Holds(body, offset, a) /\ Holds(body, offset + 2, s)
  <2>1. Holds(body, offset, a \o s)
    BY <1>3, <1>4, <1>5, <1>7, HoldsBoth
  <2> QED BY <1>2, <2>1, HoldsBoth
<1> QED BY <1>4, <1>5, <1>6, <1>7 DEF a

LEMMA TextRead ==
  ASSUME NEW body \in Seq(Bytes), NEW offset \in Nat
  PROVE  ToText(body, offset).value \in Seq(Bytes) /\ ToText(body, offset).size \in Nat
<1>1. Len(body) \in Nat /\ <<>> \in Seq(Bytes)
  BY LenProperties, EmptySeq
<1>2. CASE Len(body) < offset + 2
  BY <1>1, <1>2 DEF ToText
<1>3. CASE ~(Len(body) < offset + 2)
  <2> DEFINE w == ToWord(body, offset)
             end == offset + 2 + w
             last == IF end < Len(body) THEN end ELSE Len(body)
             s == SubSeq(body, offset + 3, last)
  <2>1. w \in Nat
    BY WordRead
  <2>2. ToText(body, offset) = [value |-> s, size |-> Even(Len(s) + 2)]
    BY <1>3 DEF ToText
  <2> HIDE DEF w
  <2>3. /\ offset + 3 \in Nat \ {0} /\ last \in Nat /\ offset + 3 <= last + 1 /\ last <= Len(body)
    BY <1>1, <1>3, <2>1
  <2> HIDE DEF last
  <2>4. s \in Seq(Bytes)
    BY <2>3, Slice
  <2> HIDE DEF s
  <2>5. Even(Len(s) + 2) \in Nat
    BY <2>4, LenProperties DEF Even
  <2> QED BY <2>2, <2>4, <2>5
<1> QED BY <1>2, <1>3

LEMMA TextIsRead ==
  ASSUME NEW body \in Seq(Bytes), NEW offset \in Nat, NEW s \in Seq(Bytes), Len(s) < Word,
         Holds(body, offset, FromText(s))
  PROVE  /\ ToText(body, offset) = [value |-> s, size |-> Even(Len(s)) + 2]
         /\ offset + 2 <= Len(body) /\ ToWord(body, offset) = Len(s)
<1>1. Len(body) \in Nat /\ Len(s) \in Nat /\ Len(s) % Word = Len(s)
  BY LenProperties, WordFacts, SmallRemainder
<1>2. Holds(body, offset, BigEndian(Len(s), 2)) /\ Holds(body, offset + 2, s)
  BY <1>1, TextAsBytes
<1>3. ToWord(body, offset) = Len(s)
  BY <1>1, <1>2, WordIsRead
<1>4. /\ offset + 2 + Len(s) <= Len(body)
      /\ \A i \in 1..Len(s) : body[offset + 2 + i] = s[i]
  BY <1>1, <1>2 DEF Holds
<1> DEFINE end == offset + 2 + ToWord(body, offset)
           last == IF end < Len(body) THEN end ELSE Len(body)
           t == SubSeq(body, offset + 3, last)
<1>5. last = offset + 2 + Len(s)
  BY <1>1, <1>3, <1>4
<1>6. ToText(body, offset) = [value |-> t, size |-> Even(Len(t) + 2)]
  <2>1. ~(Len(body) < offset + 2)
    BY <1>1, <1>4
  <2> QED BY <2>1 DEF ToText
<1> HIDE DEF last
<1>7. /\ offset + 3 \in Nat \ {0} /\ last \in Nat /\ offset + 3 <= last + 1 /\ last <= Len(body)
      /\ last + 1 - (offset + 3) = Len(s)
      /\ \A i \in 1..Len(s) : (offset + 3) + i - 1 = offset + 2 + i
  <2>1. \A i \in 1..Len(s) : (offset + 3) + i - 1 = offset + 2 + i
    BY <1>1
  <2> DEFINE n == Len(s)
  <2>2. n \in Nat /\ Len(body) \in Nat /\ last = offset + 2 + n /\ offset + 2 + n <= Len(body)
    BY <1>1, <1>4, <1>5
  <2> HIDE DEF n
  <2>3. /\ offset + 3 \in Nat \ {0} /\ last \in Nat /\ offset + 3 <= last + 1
        /\ last <= Len(body) /\ last + 1 - (offset + 3) = n
    BY <2>2
  <2> QED BY <2>1, <2>3 DEF n
<1>8. /\ t \in Seq(Bytes) /\ Len(t) = Len(s)
      /\ \A i \in 1..Len(s) : t[i] = body[(offset + 3) + i - 1]
  BY <1>7, Slice
<1> HIDE DEF t
<1>9. \A i \in 1..Len(s) : t[i] = s[i]
  BY <1>4, <1>7, <1>8
<1>10. t = s
  BY <1>8, <1>9, SeqEqual
<1>11. Even(Len(s) + 2) = Even(Len(s)) + 2
  BY <1>1 DEF Even
<1> QED BY <1>1, <1>3, <1>4, <1>6, <1>10, <1>11

LEMMA HoldsPrefix ==
  ASSUME NEW a \in Seq(Bytes), NEW b \in Seq(Bytes)
  PROVE  /\ Holds(a \o b, Len(a), b)
         /\ \A offset \in Nat, c \in Seq(Bytes) : Holds(a, offset, c) => Holds(a \o b, offset, c)
<1>1. /\ Len(a) \in Nat /\ Len(b) \in Nat /\ Len(a \o b) = Len(a) + Len(b)
      /\ \A i \in 1..(Len(a) + Len(b)) :
            (a \o b)[i] = IF i <= Len(a) THEN a[i] ELSE b[i - Len(a)]
  BY LenProperties, ConcatProperties
<1> DEFINE t == a \o b
<1>2. /\ Len(t) = Len(a) + Len(b)
      /\ \A i \in 1..(Len(a) + Len(b)) : t[i] = IF i <= Len(a) THEN a[i] ELSE b[i - Len(a)]
  BY <1>1
<1> HIDE DEF t
<1>3. Holds(t, Len(a), b)
  <2>1. ASSUME NEW i \in 1..Len(b) PROVE t[Len(a) + i] = b[i]
    <3>1. /\ Len(a) + i \in 1..(Len(a) + Len(b)) /\ ~(Len(a) + i <= Len(a))
          /\ (Len(a) + i) - Len(a) = i
      BY <1>1
    <3> QED BY <1>2, <3>1
  <2> QED BY <1>1, <1>2, <2>1 DEF Holds
<1>4. ASSUME NEW offset \in Nat, NEW c \in Seq(Bytes), Holds(a, offset, c)
      PROVE  Holds(t, offset, c)
  <2>1. Len(c) \in Nat /\ offset + Len(c) <= Len(a)
    BY <1>4, LenProperties DEF Holds
  <2>2. ASSUME NEW i \in 1..Len(c) PROVE t[offset + i] = c[i]
    <3>1. offset + i \in 1..(Len(a) + Len(b)) /\ offset + i <= Len(a)
      BY <1>1, <2>1
    <3>2. a[offset + i] = c[i]
      BY <1>4 DEF Holds
    <3> QED BY <1>2, <3>1, <3>2
  <2> QED BY <1>1, <1>2, <2>1, <2>2 DEF Holds
<1> QED BY <1>3, <1>4 DEF t

\* Where sequences are found in the sequence they are put together to.
LEMMA FlattenPlaces ==
  ASSUME NEW ss \in Seq(Seq(Bytes))
  PROVE  /\ FlattenSeq(ss) \in Seq(Bytes)
         /\ \E place \in [0..Len(ss) -> Nat] :
              /\ place[0] = 0 /\ place[Len(ss)] = Len(FlattenSeq(ss))
              /\ SumFunction([i \in 1..Len(ss) |-> Len(ss[i])]) = place[Len(ss)]
              /\ \A n \in 1..Len(ss) : /\ place[n] = place[n - 1] + Len(ss[n])
                                       /\ Holds(FlattenSeq(ss), place[n - 1], ss[n])
<1> DEFINE N == Len(ss)
           lens == [i \in 1..N |-> Len(ss[i])]
<1>1. /\ N \in Nat /\ \A n \in 1..N : ss[n] \in Seq(Bytes) /\ Len(ss[n]) \in Nat
      /\ Len(<<>>) = 0
  BY LenProperties, ElementOfSeq, EmptySeq
<1>2. lens \in [1..N -> Int]
  BY <1>1
<1>3. \A n \in 1..N : lens[n] = Len(ss[n])
  OBVIOUS
<1>4. PICK f \in [0..N -> Seq(Bytes)] :
             /\ f[0] = <<>> /\ \A n \in 1..N : f[n] = f[n - 1] \o ss[n]
             /\ FlattenSeq(ss) = f[N]
  BY FlattenAsFunction
<1> HIDE DEF lens
<1>5. PICK P \in [0..N -> Int] :
             /\ P[0] = 0 /\ \A n \in 1..N : P[n] = P[n - 1] + lens[n]
             /\ SumFunction(lens) = P[N]
  <2> HIDE DEF N
  <2> QED BY <1>1, <1>2, SumAsFunction
<1> HIDE DEF N
<1>5a. \A n \in 0..N : P[n] \in Nat
  <2> DEFINE T == {j \in Nat : j <= N => P[j] \in Nat}
  <2>1. 0 \in T
    BY <1>5
  <2>2. ASSUME NEW j \in T PROVE j + 1 \in T
    <3>1. ASSUME j + 1 <= N PROVE P[j + 1] \in Nat
      <4>1. j + 1 \in 1..N /\ (j + 1) - 1 = j /\ P[j] \in Nat
        BY <1>1, <3>1
      <4>2. P[j + 1] = P[j] + Len(ss[j + 1]) /\ Len(ss[j + 1]) \in Nat
        BY <1>1, <1>3, <1>5, <4>1
      <4> QED BY <4>1, <4>2
    <3> QED BY <3>1
  <2> HIDE DEF T
  <2>3. T \in SUBSET Nat
    BY DEF T
  <2>4. \A j \in Nat : j \in T
    BY <2>1, <2>2, <2>3, NumbersInduction
  <2>5. ASSUME NEW n \in 0..N PROVE P[n] \in Nat
    <3>1. n \in Nat /\ n <= N /\ n \in T
      BY <1>1, <2>4
    <3> QED BY <3>1 DEF T
  <2> QED BY <2>5
<1> DEFINE Good(n) == n <= N => /\ Len(f[n]) = P[n]
                                /\ \A k \in 1..n : Holds(f[n], P[k - 1], ss[k])
           S == {n \in Nat : Good(n)}
<1>6. 0 \in S
  BY <1>1, <1>4, <1>5
<1>7. ASSUME NEW n \in S PROVE n + 1 \in S
  <2>1. n \in Nat /\ n + 1 \in Nat /\ Good(n)
    OBVIOUS
  <2>2. ASSUME n + 1 <= N
        PROVE  /\ Len(f[n + 1]) = P[n + 1]
               /\ \A k \in 1..(n + 1) : Holds(f[n + 1], P[k - 1], ss[k])
    <3>1. n + 1 \in 1..N /\ n \in 0..N /\ (n + 1) - 1 = n /\ n <= N
      BY <1>1, <2>1, <2>2
    <3>2. Len(f[n]) = P[n] /\ \A k \in 1..n : Holds(f[n], P[k - 1], ss[k])
      BY <2>1, <3>1
    <3>3. /\ f[n + 1] = f[n] \o ss[n + 1] /\ P[n + 1] = P[n] + Len(ss[n + 1])
          /\ f[n] \in Seq(Bytes) /\ ss[n + 1] \in Seq(Bytes) /\ P[n] \in Int
          /\ Len(ss[n + 1]) \in Nat
      BY <1>1, <1>3, <1>4, <1>5, <3>1
    <3>4. Len(f[n + 1]) = Len(f[n]) + Len(ss[n + 1])
      <4>1. \A a \in Seq(Bytes), b \in Seq(Bytes) : Len(a \o b) = Len(a) + Len(b)
        BY ConcatProperties
      <4> QED BY <3>3, <4>1, Zenon
    <3>5. ASSUME NEW k \in 1..(n + 1) PROVE Holds(f[n + 1], P[k - 1], ss[k])
      <4>1. CASE k = n + 1
        <5>1. Holds(f[n] \o ss[n + 1], Len(f[n]), ss[n + 1])
          BY <3>3, HoldsPrefix, Zenon
        <5> QED BY <3>1, <3>2, <3>3, <4>1, <5>1
      <4>2. CASE k # n + 1
        <5>1. k \in 1..n /\ k - 1 \in 0..N /\ k - 1 \in 0..n /\ k \in 1..N
          BY <2>1, <2>2, <4>2, <1>1
        <5>2. Holds(f[n], P[k - 1], ss[k])
          BY <3>2, <5>1
        <5>3. P[k - 1] \in Nat
          BY <1>5a, <5>1
        <5>4. ss[k] \in Seq(Bytes)
          BY <1>1, <5>1
        <5>5. Holds(f[n] \o ss[n + 1], P[k - 1], ss[k])
          BY <3>3, <5>2, <5>3, <5>4, HoldsPrefix
        <5> QED BY <3>3, <5>5
      <4> QED BY <4>1, <4>2
    <3> QED BY <3>2, <3>3, <3>4, <3>5
  <2> HIDE DEF Good
  <2>3. Good(n + 1)
    BY <2>2 DEF Good
  <2> QED BY <2>1, <2>3
<1> HIDE DEF S
<1>8. S \in SUBSET Nat
  BY DEF S
<1>9. \A n \in Nat : n \in S
  BY <1>6, <1>7, <1>8, NumbersInduction
<1>10. \A n \in 0..N : Len(f[n]) = P[n]
  <2>1. ASSUME NEW n \in 0..N PROVE Len(f[n]) = P[n]
    <3>1. n \in Nat /\ n <= N /\ n \in S
      BY <1>1, <1>9
    <3> QED BY <3>1 DEF S
  <2> QED BY <2>1
<1>11. P \in [0..N -> Nat]
  <2>1. P = [n \in 0..N |-> P[n]]
    BY <1>5
  <2> QED BY <1>5a, <2>1
<1>12. N \in 0..N /\ N \in S /\ N <= N /\ f[N] \in Seq(Bytes)
  BY <1>1, <1>4, <1>9
<1>13. \A n \in 1..N : Holds(f[N], P[n - 1], ss[n])
  BY <1>12 DEF S
<1>14. P[N] = Len(f[N])
  BY <1>10, <1>12
<1> QED BY <1>3, <1>4, <1>5, <1>11, <1>12, <1>13, <1>14 DEF N, lens

LEMMA HoldsWithin ==
  ASSUME NEW body \in Seq(Bytes), NEW offset \in Nat, NEW a \in Seq(Bytes),
         NEW p \in Nat, NEW c \in Seq(Bytes), Holds(body, offset, a), Holds(a, p, c)
  PROVE  Holds(body, offset + p, c)
<1>1. /\ Len(body) \in Nat /\ Len(a) \in Nat /\ Len(c) \in Nat
      /\ offset + Len(a) <= Len(body) /\ p + Len(c) <= Len(a)
  BY LenProperties DEF Holds
<1>2. ASSUME NEW i \in 1..Len(c) PROVE body[offset + p + i] = c[i]
  <2>1. p + i \in 1..Len(a) /\ offset + (p + i) = offset + p + i
    BY <1>1
  <2>2. body[offset + (p + i)] = a[p + i] /\ a[p + i] = c[i]
    BY <2>1 DEF Holds
  <2> QED BY <2>1, <2>2
<1>3. offset + p + Len(c) <= Len(body)
  BY <1>1
<1> QED BY <1>2, <1>3 DEF Holds

\* What can be put in a list.
ProperItems == [type : {"u16"}, value : 0..(Word - 1)] \cup
               [type : {"f32"}, value : 0..(Quad - 1)] \cup
               [type : {"text"}, value : Seq(Bytes)]

LEMMA QuadFacts == Quad \in Nat /\ Quad > 0
<1>1. Word \in Nat \ {0}
  BY WordFacts
<1> QED BY <1>1 DEF Quad

LEMMA EvenEven ==
  ASSUME NEW n \in Nat
  PROVE  Even(n) \in Nat /\ Even(n) % 2 = 0 /\ n <= Even(n) /\ Even(n) <= n + 1
BY DEF Even

LEMMA WidthIs == Width["u16"] = 2 /\ Width["f32"] = 4
BY DEF Width

LEMMA ItemAsBytes ==
  ASSUME NEW item \in ProperItems
  PROVE  /\ FromItem(item) \in Seq(Bytes) /\ Len(FromItem(item)) = ItemSize(item)
         /\ ItemSize(item) \in Nat /\ ItemSize(item) % 2 = 0 /\ ItemSize(item) >= 2
<1>1. CASE item \in [type : {"u16"}, value : 0..(Word - 1)]
  <2>1. item.type = "u16" /\ item.value \in Nat
    BY <1>1, WordFacts
  <2>2. FromItem(item) = BigEndian(item.value, 2) /\ ItemSize(item) = 2
    BY <2>1, WidthIs DEF FromItem, ItemSize
  <2> QED BY <2>1, <2>2, DigitsOfWord
<1>2. CASE item \in [type : {"f32"}, value : 0..(Quad - 1)]
  <2>1. item.type = "f32" /\ item.value \in Nat
    BY <1>2, QuadFacts
  <2>2. FromItem(item) = BigEndian(item.value, 4) /\ ItemSize(item) = 4
    BY <2>1, WidthIs DEF FromItem, ItemSize
  <2> QED BY <2>1, <2>2, DigitsOfFloat
<1>3. CASE item \in [type : {"text"}, value : Seq(Bytes)]
  <2>1. item.type = "text" /\ item.value \in Seq(Bytes)
    BY <1>3
  <2>2. FromItem(item) = FromText(item.value) /\ ItemSize(item) = Even(Len(item.value)) + 2
    BY <2>1 DEF FromItem, ItemSize
  <2> DEFINE n == Even(Len(item.value))
  <2>3. n \in Nat /\ n % 2 = 0
    BY <2>1, LenProperties, EvenEven
  <2> HIDE DEF n
  <2>4. n + 2 \in Nat /\ (n + 2) % 2 = 0 /\ n + 2 >= 2
    BY <2>3
  <2> QED BY <2>1, <2>2, <2>4, TextAsBytes DEF n
<1> QED BY <1>1, <1>2, <1>3 DEF ProperItems

\* Where the items of a list are.
ItemPlaces(place, items) ==
  /\ place \in [0..Len(items) -> Nat]
  /\ place[0] = 0 /\ place[Len(items)] = DataListSize(items)
  /\ \A n \in 1..Len(items) : /\ place[n] = place[n - 1] + ItemSize(items[n])
                              /\ Holds(DataListToBody(items), place[n - 1], FromItem(items[n]))

LEMMA ListAsBytes ==
  ASSUME NEW items \in Seq(ProperItems)
  PROVE  /\ DataListToBody(items) \in Seq(Bytes)
         /\ Len(DataListToBody(items)) = DataListSize(items)
         /\ DataListSize(items) \in Nat /\ DataListSize(items) % 2 = 0
         /\ \E place : ItemPlaces(place, items)
<1> DEFINE N == Len(items)
           ss == [i \in DOMAIN items |-> FromItem(items[i])]
           sizes == [i \in DOMAIN items |-> ItemSize(items[i])]
<1>1. /\ N \in Nat /\ DOMAIN items = 1..N
      /\ \A n \in 1..N : /\ items[n] \in ProperItems
                         /\ FromItem(items[n]) \in Seq(Bytes)
                         /\ Len(FromItem(items[n])) = ItemSize(items[n])
                         /\ ItemSize(items[n]) \in Nat /\ ItemSize(items[n]) % 2 = 0
  BY LenProperties, ElementOfSeq, ItemAsBytes
<1>2. ss \in [1..N -> Seq(Bytes)] /\ \A n \in 1..N : ss[n] = FromItem(items[n])
  BY <1>1
<1>3. FlattenSeq(ss) = DataListToBody(items) /\ SumFunction(sizes) = DataListSize(items)
  BY DEF DataListToBody, DataListSize
<1>4. sizes = [i \in 1..N |-> ItemSize(items[i])]
  BY <1>1
<1> HIDE DEF ss, sizes, N
<1>5. ss \in Seq(Seq(Bytes)) /\ Len(ss) = N
  BY <1>1, <1>2, ListIs
<1>6. [i \in 1..Len(ss) |-> Len(ss[i])] = sizes
  <2>1. \A i \in 1..N : Len(ss[i]) = ItemSize(items[i])
    BY <1>1, <1>2
  <2> QED BY <1>4, <1>5, <2>1
<1>7. PICK P \in [0..Len(ss) -> Nat] :
              /\ P[0] = 0 /\ P[Len(ss)] = Len(FlattenSeq(ss))
              /\ SumFunction([i \in 1..Len(ss) |-> Len(ss[i])]) = P[Len(ss)]
              /\ \A n \in 1..Len(ss) : /\ P[n] = P[n - 1] + Len(ss[n])
                                       /\ Holds(FlattenSeq(ss), P[n - 1], ss[n])
  BY <1>5, FlattenPlaces
<1>8. /\ FlattenSeq(ss) \in Seq(Bytes) /\ P \in [0..N -> Nat]
      /\ P[N] = Len(FlattenSeq(ss)) /\ P[N] = SumFunction(sizes)
      /\ \A n \in 1..N : /\ P[n] = P[n - 1] + ItemSize(items[n])
                         /\ Holds(FlattenSeq(ss), P[n - 1], FromItem(items[n]))
  BY <1>1, <1>2, <1>5, <1>6, <1>7, FlattenPlaces
<1>9. ItemPlaces(P, items)
  BY <1>3, <1>7, <1>8 DEF ItemPlaces, N
<1>10. P[N] % 2 = 0
  <2> DEFINE T == {j \in Nat : j <= N => P[j] % 2 = 0}
  <2>1. 0 \in T
    BY <1>7
  <2>2. ASSUME NEW j \in T PROVE j + 1 \in T
    <3>1. ASSUME j + 1 <= N PROVE P[j + 1] % 2 = 0
      <4>1. j + 1 \in 1..N /\ (j + 1) - 1 = j /\ P[j] % 2 = 0 /\ P[j] \in Nat
        BY <1>1, <1>8, <3>1
      <4>2. /\ P[j + 1] = P[j] + ItemSize(items[j + 1]) /\ ItemSize(items[j + 1]) \in Nat
            /\ ItemSize(items[j + 1]) % 2 = 0
        BY <1>1, <1>8, <4>1
      <4> QED BY <4>1, <4>2
    <3> QED BY <3>1
  <2> HIDE DEF T
  <2>3. T \in SUBSET Nat
    BY DEF T
  <2>4. \A j \in Nat : j \in T
    BY <2>1, <2>2, <2>3, NumbersInduction
  <2>5. N \in T /\ N <= N
    BY <1>1, <2>4
  <2> QED BY <2>5 DEF T
<1>11. P[N] \in Nat
  BY <1>1, <1>8
<1> QED BY <1>3, <1>8, <1>9, <1>10, <1>11

-----------------------------------------------------------------------------
(* What the server sends.                                                     *)

ItemTypes == {"u16", "f32", "text"}

LEMMA ServerItemsFit == ServerItems \subseteq ProperItems
<1>1. /\ Words \subseteq 0..(Word - 1) /\ Floats \subseteq 0..(Quad - 1)
      /\ Texts \subseteq Seq(Bytes)
  BY ServerAssumption DEF Quad
<1>2. /\ [type : {"u16"}, value : Words] \subseteq [type : {"u16"}, value : 0..(Word - 1)]
      /\ [type : {"f32"}, value : Floats] \subseteq [type : {"f32"}, value : 0..(Quad - 1)]
      /\ [type : {"text"}, value : Texts] \subseteq [type : {"text"}, value : Seq(Bytes)]
  BY <1>1
<1> QED BY <1>2, Zenon DEF ServerItems, ProperItems

LEMMA ItemsAre ==
  ASSUME NEW n \in Nat, NEW types \in [1..n -> ItemTypes], NEW list \in Items(types)
  PROVE  /\ list \in Seq(ProperItems) /\ Len(list) = n
         /\ \A i \in 1..n : list[i].type = types[i]
<1>1. /\ list \in [1..n -> ServerItems] /\ DOMAIN types = 1..n
      /\ \A i \in DOMAIN types : list[i].type = types[i]
  BY DEF Items
<1>2. list \in [1..n -> ProperItems]
  BY <1>1, ServerItemsFit
<1> QED BY <1>1, <1>2, ListIs

\* The types of the items of a response with status OK, for commands without lists.
LEMMA OkTypes ==
  ASSUME NEW c \in DOMAIN OkResponse
  PROVE  OkResponse[c] \in Seq(ItemTypes)
<1>1. c \in {"INIT", "IDENTIFY", "DEFINE_DESC", "SELECT_DESC", "EXECUTE_SERVICE"}
  BY DEF OkResponse
<1>2. /\ OkResponse["INIT"] = <<>> /\ OkResponse["IDENTIFY"] = <<"u16", "text">>
      /\ OkResponse["DEFINE_DESC"] = <<"u16", "text", "text", "text">>
      /\ OkResponse["SELECT_DESC"] = <<"u16">> /\ OkResponse["EXECUTE_SERVICE"] = <<"text">>
  BY DEF OkResponse
<1>3. /\ <<>> \in Seq(ItemTypes) /\ <<"u16", "text">> \in Seq(ItemTypes)
      /\ <<"u16", "text", "text", "text">> \in Seq(ItemTypes)
      /\ <<"u16">> \in Seq(ItemTypes) /\ <<"text">> \in Seq(ItemTypes)
  BY DEF ItemTypes
<1> QED BY <1>1, <1>2, <1>3, Zenon

LEMMA EntryTypes ==
  ASSUME NEW c \in DOMAIN Entry
  PROVE  Entry[c] \in Seq(ItemTypes) /\ Len(Entry[c]) \in Nat \ {0}
<1>1. c \in {"GET_CALPAGE_INFO", "GET_USER_DEFINED_VALUE_LIST", "QUERY_AVAILABLE_SERVICE"}
  BY DEF Entry
<1>2. /\ Entry["GET_CALPAGE_INFO"] = <<"u16", "text", "u16">>
      /\ Entry["GET_USER_DEFINED_VALUE_LIST"] = <<"u16", "text">>
      /\ Entry["QUERY_AVAILABLE_SERVICE"] = <<"text">>
  BY DEF Entry
<1>3. /\ <<"u16", "text", "u16">> \in Seq(ItemTypes) /\ <<"u16", "text">> \in Seq(ItemTypes)
      /\ <<"text">> \in Seq(ItemTypes)
  BY DEF ItemTypes
<1>4. /\ Len(<<"u16", "text", "u16">>) = 3 /\ Len(<<"u16", "text">>) = 2
      /\ Len(<<"text">>) = 1
  OBVIOUS
<1>5. Entry[c] \in Seq(ItemTypes)
  BY <1>1, <1>2, <1>3, Zenon
<1>6. Len(Entry[c]) = 3 \/ Len(Entry[c]) = 2 \/ Len(Entry[c]) = 1
  BY <1>1, <1>2, <1>4, Zenon
<1> QED BY <1>5, <1>6

LEMMA RepeatedTypes ==
  ASSUME NEW types \in Seq(ItemTypes), Len(types) > 0, NEW n \in Nat
  PROVE  /\ n * Len(types) \in Nat
         /\ Repeated(types, n) \in [1..(n * Len(types)) -> ItemTypes]
<1> DEFINE d == Len(types)
<1>1. d \in Nat \ {0} /\ \A i \in 1..d : types[i] \in ItemTypes
  BY LenProperties, ElementOfSeq
<1>2. Repeated(types, n) = [i \in 1..(n * d) |-> types[((i - 1) % d) + 1]]
  BY DEF Repeated
<1> HIDE DEF d
<1>3. n * d \in Nat
  BY <1>1
<1>4. ASSUME NEW i \in 1..(n * d) PROVE ((i - 1) % d) + 1 \in 1..d
  <2>1. i - 1 \in Nat
    BY <1>3
  <2>2. (i - 1) % d \in Nat /\ (i - 1) % d < d
    BY <1>1, <2>1, Division
  <2> QED BY <1>1, <2>2
<1>5. ASSUME NEW i \in 1..(n * d) PROVE types[((i - 1) % d) + 1] \in ItemTypes
  BY <1>1, <1>4
<1> QED BY <1>2, <1>3, <1>5 DEF d

LEMMA ListsAre ==
  ASSUME NEW types \in Seq(ItemTypes), Len(types) > 0, NEW items \in Lists(types)
  PROVE  /\ items \in Seq(ProperItems)
         /\ \E n \in 0..(Word - 1) :
              /\ n * Len(types) \in Nat
              /\ Len(items) = 1 + n * Len(types)
              /\ items[1] = [type |-> "u16", value |-> n]
              /\ \A i \in 1..(n * Len(types)) : items[i + 1].type = Repeated(types, n)[i]
<1>1. PICK n \in Counts : items \in {<<[type |-> "u16", value |-> n]>> \o list :
                                      list \in Items(Repeated(types, n))}
  BY DEF Lists
<1>2. PICK list \in Items(Repeated(types, n)) : items = <<[type |-> "u16", value |-> n]>> \o list
  BY <1>1
<1> DEFINE N == n * Len(types)
           R == Repeated(types, n)
           x == [type |-> "u16", value |-> n]
<1>3. n \in 0..(Word - 1) /\ n \in Nat
  BY ServerAssumption, WordFacts
<1>4. N \in Nat /\ R \in [1..N -> ItemTypes]
  BY <1>3, RepeatedTypes
<1>5. x \in ProperItems
  <2>1. x \in [type : {"u16"}, value : 0..(Word - 1)]
    BY <1>3
  <2> QED BY <2>1 DEF ProperItems
<1>6. items = <<x>> \o list /\ list \in Items(R)
  BY <1>2
<1> HIDE DEF N, R, x
<1>7. list \in Seq(ProperItems) /\ Len(list) = N /\ \A i \in 1..N : list[i].type = R[i]
  BY <1>4, <1>6, ItemsAre
<1>8. <<x>> \in Seq(ProperItems) /\ Len(<<x>>) = 1 /\ <<x>>[1] = x
  BY <1>5
<1> DEFINE a == <<x>>
<1>9. a \in Seq(ProperItems) /\ Len(a) = 1 /\ a[1] = x /\ items = a \o list
  BY <1>6, <1>8
<1> HIDE DEF a
<1>10. /\ items \in Seq(ProperItems) /\ Len(items) = Len(a) + Len(list)
       /\ \A i \in 1..(Len(a) + Len(list)) :
             items[i] = IF i <= Len(a) THEN a[i] ELSE list[i - Len(a)]
  BY <1>7, <1>9, ConcatProperties
<1>11. Len(items) = 1 + N /\ items[1] = x
  BY <1>4, <1>7, <1>9, <1>10
<1>12. ASSUME NEW i \in 1..N PROVE items[i + 1].type = R[i]
  <2>1. i + 1 \in 1..(Len(a) + Len(list)) /\ ~(i + 1 <= Len(a)) /\ (i + 1) - Len(a) = i
    BY <1>4, <1>7, <1>9
  <2>2. items[i + 1] = list[i]
    BY <1>10, <2>1
  <2> QED BY <1>7, <2>2
<1> QED BY <1>3, <1>4, <1>10, <1>11, <1>12 DEF N, R, x

\* The fields of a message.
LEMMA MessageFields ==
  ASSUME NEW m \in Messages
  PROVE  /\ m.cmd \in ToSet(Cmds) /\ m.status \in ToSet(Stats)
         /\ m.items \in Payloads(m.cmd, m.status)
<1>1. PICK s \in ToSet(Stats) :
        m \in UNION {{[cmd |-> c, status |-> s, items |-> p] : p \in Payloads(c, s)} :
                       c \in ToSet(Cmds)}
  BY DEF Messages
<1>2. PICK c \in ToSet(Cmds) :
        m \in {[cmd |-> c, status |-> s, items |-> p] : p \in Payloads(c, s)}
  BY <1>1
<1>3. PICK p \in Payloads(c, s) : m = [cmd |-> c, status |-> s, items |-> p]
  BY <1>2
<1> QED BY <1>3

LEMMA CommandNames ==
  /\ ToSet(Cmds) = {"INIT", "IDENTIFY", "DEFINE_DESC", "SELECT_DESC", "GET_CALPAGE_INFO",
                    "GET_USER_DEFINED_VALUE", "GET_USER_DEFINED_VALUE_LIST",
                    "QUERY_AVAILABLE_SERVICE", "EXECUTE_SERVICE"}
  /\ ToSet(Stats) = {"OK", "ACK", "ERROR"}
<1>1. DOMAIN Stats = 1..3 /\ DOMAIN Cmds = 1..9
  BY DEF Stats, Cmds
<1>2. \A i : i \in 1..3 <=> i \in {1, 2, 3}
  OBVIOUS
<1>3. \A i : i \in 1..9 <=> i \in {1, 2, 3, 4, 5, 6, 7, 8, 9}
  OBVIOUS
<1>4. Stats[1] = "OK" /\ Stats[2] = "ACK" /\ Stats[3] = "ERROR"
  BY DEF Stats
<1>5. /\ Cmds[1] = "INIT" /\ Cmds[2] = "IDENTIFY" /\ Cmds[3] = "DEFINE_DESC"
      /\ Cmds[4] = "SELECT_DESC" /\ Cmds[5] = "GET_CALPAGE_INFO"
      /\ Cmds[6] = "GET_USER_DEFINED_VALUE" /\ Cmds[7] = "GET_USER_DEFINED_VALUE_LIST"
      /\ Cmds[8] = "QUERY_AVAILABLE_SERVICE" /\ Cmds[9] = "EXECUTE_SERVICE"
  BY DEF Cmds
<1>6. ToSet(Stats) = {Stats[1], Stats[2], Stats[3]}
  BY <1>1, <1>2 DEF ToSet
<1>7. ToSet(Cmds) = {Cmds[1], Cmds[2], Cmds[3], Cmds[4], Cmds[5], Cmds[6], Cmds[7], Cmds[8],
                     Cmds[9]}
  BY <1>1, <1>3 DEF ToSet
<1> QED BY <1>4, <1>5, <1>6, <1>7

LEMMA PayloadsAre ==
  ASSUME NEW m \in Messages
  PROVE  m.items \in Seq(ProperItems)
<1>1. m.cmd \in ToSet(Cmds) /\ m.status \in ToSet(Stats)
      /\ m.items \in Payloads(m.cmd, m.status)
  BY MessageFields
<1>2. ASSUME NEW types \in Seq(ItemTypes), NEW items \in Items(types)
      PROVE  items \in Seq(ProperItems)
  <2>1. Len(types) \in Nat /\ types \in [1..Len(types) -> ItemTypes]
    BY LenProperties
  <2> QED BY <2>1, ItemsAre
<1>3. CASE m.status = "ACK"
  BY <1>1, <1>3, EmptySeq DEF Payloads
<1>4. CASE m.status = "ERROR"
  <2>1. ErrorResponse \in Seq(ItemTypes)
    BY DEF ErrorResponse, ItemTypes
  <2>2. m.items \in Items(ErrorResponse)
    BY <1>1, <1>4 DEF Payloads
  <2> QED BY <1>2, <2>1, <2>2
<1>5. CASE m.status = "OK" /\ m.cmd \in DOMAIN Entry
  <2>0. m.cmd # "GET_USER_DEFINED_VALUE"
    BY <1>5 DEF Entry
  <2>1. m.items \in Lists(Entry[m.cmd])
    BY <1>1, <1>5, <2>0 DEF Payloads
  <2>2. Entry[m.cmd] \in Seq(ItemTypes) /\ Len(Entry[m.cmd]) > 0
    BY <1>5, EntryTypes
  <2> QED BY <2>1, <2>2, ListsAre
<1>6. CASE m.status = "OK" /\ m.cmd = "GET_USER_DEFINED_VALUE"
  <2>1. m.cmd \notin DOMAIN Entry
    BY <1>6 DEF Entry
  <2>2. m.items \in Lists(<<"f32">>)
    BY <1>1, <1>6, <2>1 DEF Payloads
  <2>3. <<"f32">> \in Seq(ItemTypes) /\ Len(<<"f32">>) > 0
    BY DEF ItemTypes
  <2> QED BY <2>2, <2>3, ListsAre
<1>7. CASE m.status = "OK" /\ m.cmd \notin DOMAIN Entry /\ m.cmd # "GET_USER_DEFINED_VALUE"
  <2>1. m.items \in Items(OkResponse[m.cmd])
    BY <1>1, <1>7 DEF Payloads
  <2>2. m.cmd \in DOMAIN OkResponse
    BY <1>1, <1>7, CommandNames DEF Entry, OkResponse
  <2> QED BY <1>2, <2>1, <2>2, OkTypes
<1>8. m.status \in {"OK", "ACK", "ERROR"}
  BY <1>1, CommandNames
<1> QED BY <1>3, <1>4, <1>5, <1>6, <1>7, <1>8

-----------------------------------------------------------------------------
(* Codes of commands and status.                                              *)

LEMMA CodeIs ==
  ASSUME NEW names, NEW n \in Nat, Len(names) = n, DOMAIN names = 1..n,
         NEW name \in ToSet(names), \A i, j \in DOMAIN names : names[i] = names[j] => i = j
  PROVE  CodeOf(names, name) \in 1..n /\ NameOf(names, CodeOf(names, name)) = name
<1>1. Len(names) \in Nat /\ DOMAIN names = 1..Len(names)
  OBVIOUS
<1>2. PICK k \in 1..Len(names) : names[k] = name
  BY <1>1 DEF ToSet
<1> DEFINE I == {i \in 1..Len(names) : names[i] = name}
<1>3. I = {k}
  BY <1>1, <1>2
<1>4. CodeOf(names, name) = IF I # {} THEN Min(I) ELSE 0
  BY Zenon DEF CodeOf, SelectInSeq
<1> HIDE DEF I
<1>5. Min({k}) = k
  <2>1. Min({k}) \in {k}
    <3>1. \E x \in {k} : \A y \in {k} : x <= y
      BY <1>1
    <3> QED BY <3>1 DEF Min
  <2> QED BY <2>1
<1>6. CodeOf(names, name) = k
  BY <1>3, <1>4, <1>5
<1> QED BY <1>1, <1>2, <1>6 DEF NameOf

LEMMA CodesAre ==
  ASSUME NEW m \in Messages
  PROVE  /\ CodeOf(Cmds, m.cmd) \in Nat /\ CodeOf(Cmds, m.cmd) < Word
         /\ NameOf(Cmds, CodeOf(Cmds, m.cmd)) = m.cmd
         /\ CodeOf(Stats, m.status) \in Nat /\ CodeOf(Stats, m.status) < Word
         /\ NameOf(Stats, CodeOf(Stats, m.status)) = m.status
<1>1. m.cmd \in ToSet(Cmds) /\ m.status \in ToSet(Stats)
  BY MessageFields
<1>2. Word > 9
  <2>1. Radix \in Nat /\ Radix >= 4
    BY ServerAssumption, RadixAssumption
  <2> QED BY <2>1 DEF Word
<1>3. /\ Len(Cmds) = 9 /\ DOMAIN Cmds = 1..9 /\ Len(Stats) = 3 /\ DOMAIN Stats = 1..3
      /\ 9 \in Nat /\ 3 \in Nat
  BY DEF Cmds, Stats
<1>4. \A i, j \in DOMAIN Cmds : Cmds[i] = Cmds[j] => i = j
  BY DEF Cmds
<1>5. \A i, j \in DOMAIN Stats : Stats[i] = Stats[j] => i = j
  BY DEF Stats
<1>6. CodeOf(Cmds, m.cmd) \in 1..9 /\ NameOf(Cmds, CodeOf(Cmds, m.cmd)) = m.cmd
  BY <1>1, <1>3, <1>4, CodeIs
<1>7. CodeOf(Stats, m.status) \in 1..3 /\ NameOf(Stats, CodeOf(Stats, m.status)) = m.status
  BY <1>1, <1>3, <1>5, CodeIs
<1> QED BY <1>2, <1>6, <1>7, WordFacts

-----------------------------------------------------------------------------
(* Sums of words.                                                             *)

WordSum(s, n) == SumFunction([i \in 1..n |-> ToWord(s, 2 * i - 2)])

LEMMA WordSumType ==
  ASSUME NEW s \in Seq(Bytes), NEW n \in Nat
  PROVE  /\ WordSum(s, n) \in Nat
         /\ [i \in 1..n |-> ToWord(s, 2 * i - 2)] \in [1..n -> Nat]
<1> DEFINE f == [i \in 1..n |-> ToWord(s, 2 * i - 2)]
<1>1. \A i \in 1..n : 2 * i - 2 \in Nat
  OBVIOUS
<1>2. f \in [1..n -> Nat]
  BY <1>1, WordRead
<1>3. WordSum(s, n) = SumFunction(f)
  BY DEF WordSum
<1> HIDE DEF f
<1>4. SumFunction(f) \in Nat
  BY <1>2, SumNat
<1> QED BY <1>2, <1>3, <1>4 DEF f

LEMMA SameWords ==
  ASSUME NEW a \in Seq(Bytes), NEW b \in Seq(Bytes), NEW n \in Nat, 2 * n <= Len(a),
         2 * n <= Len(b), \A i \in 1..(2 * n) : a[i] = b[i]
  PROVE  WordSum(a, n) = WordSum(b, n)
<1>1. ASSUME NEW i \in 1..n PROVE ToWord(a, 2 * i - 2) = ToWord(b, 2 * i - 2)
  <2> DEFINE o == 2 * i - 2
  <2>1. /\ o \in Nat /\ o + 2 <= 2 * n /\ o + 1 \in 1..(2 * n) /\ o + 2 \in 1..(2 * n)
        /\ Len(a) \in Nat /\ Len(b) \in Nat
    BY LenProperties
  <2> HIDE DEF o
  <2>2. Len(a) >= o + 2 /\ Len(b) >= o + 2
    BY <2>1
  <2>3. ToWord(a, o) = a[o + 1] * Radix + a[o + 2]
    BY <2>1, <2>2, WordRead
  <2>4. ToWord(b, o) = b[o + 1] * Radix + b[o + 2]
    BY <2>1, <2>2, WordRead
  <2>5. a[o + 1] = b[o + 1] /\ a[o + 2] = b[o + 2]
    BY <2>1
  <2>6. ToWord(a, o) = ToWord(b, o)
    BY <2>3, <2>4, <2>5, Zenon
  <2> QED BY <2>6 DEF o
<1>2. [i \in 1..n |-> ToWord(a, 2 * i - 2)] = [i \in 1..n |-> ToWord(b, 2 * i - 2)]
  BY <1>1
<1> QED BY <1>2 DEF WordSum

-----------------------------------------------------------------------------
(* Frames.                                                                    *)

LEMMA OverlayIs ==
  ASSUME NEW body \in Seq(Bytes), NEW offset \in Nat, NEW bytes \in Seq(Bytes),
         offset + Len(bytes) <= Len(body)
  PROVE  /\ Overlay(body, offset, bytes) \in Seq(Bytes)
         /\ Len(Overlay(body, offset, bytes)) = Len(body)
         /\ Holds(Overlay(body, offset, bytes), offset, bytes)
         /\ \A i \in 1..offset : Overlay(body, offset, bytes)[i] = body[i]
<1> DEFINE end == offset + Len(bytes)
           size == IF Len(body) < end THEN end ELSE Len(body)
           t == Overlay(body, offset, bytes)
<1>1. /\ Len(body) \in Nat /\ Len(bytes) \in Nat /\ end \in Nat /\ 0 \in Bytes
      /\ \A i \in 1..Len(body) : body[i] \in Bytes
      /\ \A i \in 1..Len(bytes) : bytes[i] \in Bytes
  BY SMTT(40), LenProperties, ElementOfSeq, WordFacts
<1>2. size = Len(body)
  BY <1>1
<1>3. t = [i \in 1..size |-> IF i \in (offset + 1)..end THEN bytes[i - offset]
                             ELSE IF i <= Len(body) THEN body[i] ELSE 0]
  BY DEF Overlay
<1> HIDE DEF size, t
<1>4. t = [i \in 1..Len(body) |-> IF i \in (offset + 1)..end THEN bytes[i - offset] ELSE body[i]]
  BY <1>1, <1>2, <1>3
<1>5. ASSUME NEW i \in (offset + 1)..end PROVE i - offset \in 1..Len(bytes)
  BY <1>1
<1>6. t \in [1..Len(body) -> Bytes]
  BY <1>1, <1>4, <1>5
<1>7. t \in Seq(Bytes) /\ Len(t) = Len(body)
  BY <1>1, <1>6, ListIs
<1>8. ASSUME NEW i \in 1..Len(bytes) PROVE t[offset + i] = bytes[i]
  <2>1. /\ offset + i \in 1..Len(body) /\ offset + i \in (offset + 1)..end
        /\ (offset + i) - offset = i
    BY <1>1
  <2> QED BY <1>4, <2>1
<1>9. ASSUME NEW i \in 1..offset PROVE t[i] = body[i]
  <2>1. i \in 1..Len(body) /\ i \notin (offset + 1)..end
    BY <1>1
  <2> QED BY <1>4, <2>1
<1>10. Holds(t, offset, bytes)
  BY <1>7, <1>8 DEF Holds
<1> QED BY <1>7, <1>9, <1>10 DEF t

\* The bytes of a message the server sends, its length L and the sum of its words.
Framed(m, L) ==
  /\ L = 8 + DataListSize(m.items) /\ L \in 8..(Word - 1) /\ L % 2 = 0
  /\ Frame(m) \in Seq(Bytes) /\ Len(Frame(m)) = L
  /\ Holds(Frame(m), 0, BigEndian(L, 2))
  /\ Holds(Frame(m), 2, BigEndian(CodeOf(Cmds, m.cmd), 2))
  /\ Holds(Frame(m), 4, BigEndian(CodeOf(Stats, m.status), 2))
  /\ Holds(Frame(m), 6, DataListToBody(m.items))
  /\ ToWord(Frame(m), L - 2) = WordSum(Frame(m), (L \div 2) - 1) % Word

LEMMA HeaderWords ==
  ASSUME NEW c \in Nat, NEW s \in Nat
  PROVE  LET bytes == FlattenSeq([i \in 1..2 |-> BigEndian(<<c, s>>[i], 2)])
         IN  /\ bytes \in Seq(Bytes) /\ Len(bytes) = 4
             /\ Holds(bytes, 0, BigEndian(c, 2)) /\ Holds(bytes, 2, BigEndian(s, 2))
<1> DEFINE ss == [i \in 1..2 |-> BigEndian(<<c, s>>[i], 2)]
           a == BigEndian(c, 2)
           b == BigEndian(s, 2)
<1>1. ss[1] = a /\ ss[2] = b /\ \A i \in 1..2 : i = 1 \/ i = 2
  OBVIOUS
<1>2. /\ a \in Seq(Bytes) /\ Len(a) = 2
      /\ b \in Seq(Bytes) /\ Len(b) = 2
  BY DigitsOfWord
<1>3. ss = [i \in 1..2 |-> ss[i]]
  OBVIOUS
<1> HIDE DEF ss, a, b
<1>4. ss \in [1..2 -> Seq(Bytes)] /\ 2 \in Nat
  BY <1>1, <1>2, <1>3
<1>5. ss \in Seq(Seq(Bytes)) /\ Len(ss) = 2
  BY <1>4, ListIs
<1>6. PICK P \in [0..Len(ss) -> Nat] :
              /\ P[0] = 0 /\ P[Len(ss)] = Len(FlattenSeq(ss))
              /\ \A n \in 1..Len(ss) : /\ P[n] = P[n - 1] + Len(ss[n])
                                       /\ Holds(FlattenSeq(ss), P[n - 1], ss[n])
  BY <1>5, FlattenPlaces
<1>7. 1 \in 1..2 /\ 2 \in 1..2 /\ 1 - 1 = 0 /\ 2 - 1 = 1
  OBVIOUS
<1>8. /\ P[1] = P[0] + Len(ss[1]) /\ Holds(FlattenSeq(ss), P[0], ss[1])
      /\ P[2] = P[1] + Len(ss[2]) /\ Holds(FlattenSeq(ss), P[1], ss[2])
  BY <1>5, <1>6, <1>7
<1>9. P[1] = 2 /\ P[2] = 4
  <2>1. Len(ss[1]) = 2 /\ Len(ss[2]) = 2
    BY <1>1, <1>2
  <2>2. P[1] = 0 + 2
    BY <1>6, <1>8, <2>1, Zenon
  <2> QED BY <1>8, <2>1, <2>2
<1>10. FlattenSeq(ss) \in Seq(Bytes) /\ Len(FlattenSeq(ss)) = 4
  BY <1>5, <1>6, <1>9, FlattenPlaces
<1>11. Holds(FlattenSeq(ss), 0, a) /\ Holds(FlattenSeq(ss), 2, b)
  BY <1>1, <1>6, <1>8, <1>9
<1> QED BY <1>10, <1>11 DEF ss, a, b

LEMMA FrameIs ==
  ASSUME NEW m \in Messages, Fits(m)
  PROVE  Framed(m, 8 + DataListSize(m.items))
<1> DEFINE D == DataListSize(m.items)
           L == 8 + D
           c == CodeOf(Cmds, m.cmd)
           s == CodeOf(Stats, m.status)
           header == <<c, s>>
           bytes == FlattenSeq([i \in 1..2 |-> BigEndian(header[i], 2)])
           items == DataListToBody(m.items)
           start == BigEndian(L, 2)
           data == (start \o bytes) \o items
           filled == Overlay(Zeros(L), 0, data)
           sum == BigEndian(Checksum(filled), 2)
           frame == Overlay(filled, L - 2, sum)
<1>1. /\ items \in Seq(Bytes) /\ Len(items) = D /\ D \in Nat /\ D % 2 = 0
  BY PayloadsAre, ListAsBytes
<1>2. L \in 8..(Word - 1) /\ L % 2 = 0 /\ L \in Nat /\ L < Word
  BY <1>1, WordFacts DEF Fits
<1>3. c \in Nat /\ c < Word /\ s \in Nat /\ s < Word
  BY CodesAre
<1> HIDE DEF c, s
<1>4. bytes \in Seq(Bytes) /\ Len(bytes) = 4
      /\ Holds(bytes, 0, BigEndian(c, 2)) /\ Holds(bytes, 2, BigEndian(s, 2))
  BY <1>3, HeaderWords
<1>5. start \in Seq(Bytes) /\ Len(start) = 2
  BY <1>2, DigitsOfWord
<1>5a. Len(data) = L - 2 /\ data \in Seq(Bytes) /\ Len(start \o bytes) = 6 /\ start \o bytes \in Seq(Bytes)
  <2>1. Len(start \o bytes) = 6 /\ start \o bytes \in Seq(Bytes)
    <3> HIDE DEF start, bytes
    <3>1. Len(start \o bytes) = Len(start) + Len(bytes) /\ start \o bytes \in Seq(Bytes)
      BY <1>4, <1>5, ConcatProperties, Zenon
    <3> QED BY <1>4, <1>5, <3>1
  <2> DEFINE front == start \o bytes
  <2>2. front \in Seq(Bytes) /\ Len(front) = 6
    BY <2>1
  <2> HIDE DEF front, items, D
  <2>3. Len(front \o items) = Len(front) + Len(items) /\ front \o items \in Seq(Bytes)
    BY <1>1, <2>2, ConcatProperties, Zenon
  <2>4. Len(front \o items) = L - 2
    BY <1>1, <2>2, <2>3
  <2> QED BY <2>1, <2>3, <2>4 DEF front
<1>6. Frame(m) = frame
  <2>1. Len(header) = 2 /\ 2 * 2 + 4 + D = L
    BY <1>1
  <2>2. (2 * Len(header) + 4 + DataListSize(m.items)) % Word = L
    BY <1>1, <1>2, <2>1, SmallRemainder, WordFacts
  <2>3. Frame(m) = CreateBody(header, m.items)
    BY DEF Frame, c, s
  <2> HIDE DEF header
  <2> QED BY <1>5a, <2>1, <2>2, <2>3, Zenon DEF CreateBody
<1>7. Zeros(L) \in Seq(Bytes) /\ Len(Zeros(L)) = L
  <2>1. Zeros(L) \in [1..L -> Bytes]
    BY WordFacts DEF Zeros
  <2> QED BY <1>2, <2>1, ListIs
<1> DEFINE k == (L \div 2) - 1
<1>8. k \in Nat /\ 2 * k = L - 2 /\ Even(L - 2) \div 2 = k /\ L - 2 \in Nat
  <2> HIDE DEF L
  <2> QED BY <1>2 DEF Even
<1>9. Holds(start \o bytes, 0, start) /\ Holds(start \o bytes, 2, bytes)
  <2> HIDE DEF start, bytes
  <2>1. start \in Seq(Bytes) /\ bytes \in Seq(Bytes) /\ Len(start) = 2
    BY <1>4, <1>5
  <2>2. Holds(start, 0, start)
    BY <2>1 DEF Holds
  <2> QED BY <2>1, <2>2, HoldsPrefix
<1>10. Holds(data, 0, start) /\ Holds(data, 2, bytes) /\ Holds(data, 6, items)
  <2> DEFINE front == start \o bytes
  <2>1. /\ front \in Seq(Bytes) /\ Len(front) = 6
        /\ Holds(front, 0, start) /\ Holds(front, 2, bytes)
    BY <1>5a, <1>9
  <2> HIDE DEF front, start, bytes, items
  <2>2. /\ Holds(front \o items, Len(front), items)
        /\ Holds(front \o items, 0, start) /\ Holds(front \o items, 2, bytes)
    BY <1>1, <1>4, <1>5, <2>1, HoldsPrefix
  <2> QED BY <2>1, <2>2 DEF front
<1> HIDE DEF data, start, bytes, items, D
<1>11. /\ filled \in Seq(Bytes) /\ Len(filled) = L /\ Holds(filled, 0, data)
  <2> HIDE DEF L
  <2>1. 0 \in Nat /\ 0 + Len(data) <= Len(Zeros(L)) /\ data \in Seq(Bytes)
    BY <1>2, <1>5a, <1>7
  <2> QED BY <1>7, <2>1, OverlayIs
<1> DEFINE total == Checksum(filled)
<1> HIDE DEF filled, k, L
<1>12. total = WordSum(filled, k) % Word /\ total \in Nat /\ total < Word
  <2>1. Checksum(filled)
          = SumFunction([i \in 1..(Even(Len(filled) - 2) \div 2) |-> ToWord(filled, 2 * i - 2)]) % Word
    BY Zenon DEF Checksum
  <2>2. Even(Len(filled) - 2) \div 2 = k
    BY <1>8, <1>11
  <2>3. total = WordSum(filled, k) % Word
    BY <2>1, <2>2, Zenon DEF WordSum
  <2>4. WordSum(filled, k) \in Nat
    BY <1>8, <1>11, WordSumType
  <2> QED BY <2>3, <2>4, Division, WordFacts
<1> HIDE DEF total
<1>13. sum = BigEndian(total, 2)
  BY DEF total
<1>14. sum \in Seq(Bytes) /\ Len(sum) = 2
  BY <1>12, <1>13, DigitsOfWord
<1> HIDE DEF sum
<1>15. /\ frame \in Seq(Bytes) /\ Len(frame) = L /\ Holds(frame, L - 2, sum)
       /\ \A i \in 1..(L - 2) : frame[i] = filled[i]
  <2>1. L - 2 \in Nat /\ (L - 2) + Len(sum) <= Len(filled)
    BY <1>2, <1>8, <1>11, <1>14
  <2> QED BY <1>11, <1>14, <2>1, OverlayIs
<1> HIDE DEF frame
<1>16. Holds(frame, 0, data)
  <2>1. /\ Len(data) = L - 2 /\ 0 + Len(data) <= Len(frame)
        /\ \A i \in 1..Len(data) : filled[0 + i] = data[i]
    BY <1>2, <1>5a, <1>11, <1>15 DEF Holds
  <2>2. ASSUME NEW i \in 1..Len(data) PROVE frame[0 + i] = data[i]
    <3>1. i \in 1..(L - 2) /\ 0 + i = i
      BY <1>2, <2>1
    <3> QED BY <1>15, <2>1, <3>1
  <2> QED BY <2>1, <2>2 DEF Holds
<1>17. Holds(frame, 0, start) /\ Holds(frame, 2, bytes) /\ Holds(frame, 6, items)
  <2>1. /\ Holds(frame, 0 + 0, start) /\ Holds(frame, 0 + 2, bytes)
        /\ Holds(frame, 0 + 6, items)
    BY <1>1, <1>4, <1>5, <1>5a, <1>10, <1>15, <1>16, HoldsWithin
  <2> QED BY <2>1
<1>18. Holds(frame, 2, BigEndian(c, 2)) /\ Holds(frame, 4, BigEndian(s, 2))
  <2>1. BigEndian(c, 2) \in Seq(Bytes) /\ BigEndian(s, 2) \in Seq(Bytes)
    BY <1>3, DigitsOfWord
  <2>2. Holds(frame, 2 + 0, BigEndian(c, 2)) /\ Holds(frame, 2 + 2, BigEndian(s, 2))
    BY <1>4, <1>15, <1>17, <2>1, HoldsWithin
  <2> QED BY <2>2
<1>19. ToWord(frame, L - 2) = total
  BY <1>8, <1>12, <1>13, <1>15, WordIsRead
<1>20. WordSum(frame, k) = WordSum(filled, k)
  BY <1>2, <1>8, <1>11, <1>15, SameWords
<1>21. L = 8 + DataListSize(m.items)
  BY DEF L, D
<1>22. start = BigEndian(L, 2) /\ items = DataListToBody(m.items)
  BY DEF start, items
<1>23. k = (L \div 2) - 1
  BY DEF k
<1>24. Framed(m, L)
  BY <1>2, <1>6, <1>12, <1>15, <1>17, <1>18, <1>19, <1>20, <1>21, <1>22, <1>23 DEF Framed, c, s
<1> QED BY <1>21, <1>24

-----------------------------------------------------------------------------
(* What the client reads: the items of a list, one after the other.           *)

SizeAt(body, at, type) ==
  IF type # "text" THEN Width[type]
  ELSE Even(2 + (IF at + 2 <= Len(body) THEN ToWord(body, at) ELSE 0))
ReadAt(body, at, type) ==
  IF type = "text" THEN ToText(body, at)
  ELSE [value |-> ToNumber(body, at, Width[type]), size |-> Width[type]]
ReadStep(body, item, before) ==
  IF before.going /\ before.at + SizeAt(body, before.at, item.type) <= Len(body)
  THEN [at |-> before.at + ReadAt(body, before.at, item.type).size, going |-> TRUE,
        list |-> Append(before.list,
                        [item EXCEPT !.value = ReadAt(body, before.at, item.type).value])]
  ELSE [before EXCEPT !.list = Append(@, item), !.going = FALSE]
ReadStates(I) == [at : Nat, going : BOOLEAN, list : Seq(I)]
\* Records that have a type and take any value.
Slots(I) == \A x \in I : /\ x.type \in ItemTypes
                         /\ \A v \in Nat \cup Seq(Bytes) : [x EXCEPT !.value = v] \in I

LEMMA ReadAtType ==
  ASSUME NEW body \in Seq(Bytes), NEW at \in Nat, NEW type \in ItemTypes
  PROVE  /\ ReadAt(body, at, type).value \in Nat \cup Seq(Bytes)
         /\ ReadAt(body, at, type).size \in Nat
<1>1. CASE type = "text"
  <2>1. ReadAt(body, at, type) = ToText(body, at)
    BY <1>1 DEF ReadAt
  <2> QED BY <2>1, TextRead
<1>2. CASE type = "u16"
  <2>1. ReadAt(body, at, type) = [value |-> ToNumber(body, at, 2), size |-> 2]
    BY <1>2, WidthIs DEF ReadAt
  <2>2. ToNumber(body, at, 2) \in Nat
    BY WordRead DEF ToWord
  <2> QED BY <2>1, <2>2
<1>3. CASE type = "f32"
  <2>1. ReadAt(body, at, type) = [value |-> ToNumber(body, at, 4), size |-> 4]
    BY <1>3, WidthIs DEF ReadAt
  <2> QED BY <2>1, FloatRead
<1> QED BY <1>1, <1>2, <1>3 DEF ItemTypes

LEMMA ReadStepType ==
  ASSUME NEW I, Slots(I), NEW body \in Seq(Bytes), NEW item \in I, NEW before \in ReadStates(I)
  PROVE  ReadStep(body, item, before) \in ReadStates(I)
<1>1. before.at \in Nat /\ before.going \in BOOLEAN /\ before.list \in Seq(I)
      /\ before = [at |-> before.at, going |-> before.going, list |-> before.list]
  BY DEF ReadStates
<1> DEFINE r == ReadAt(body, before.at, item.type)
           x == [item EXCEPT !.value = r.value]
<1>2. item.type \in ItemTypes
  BY DEF Slots
<1>3. r.value \in Nat \cup Seq(Bytes) /\ r.size \in Nat
  BY <1>1, <1>2, ReadAtType
<1> HIDE DEF r
<1>4. x \in I
  BY <1>3 DEF Slots
<1> HIDE DEF x
<1>5. Append(before.list, x) \in Seq(I) /\ Append(before.list, item) \in Seq(I)
  BY <1>1, <1>4, AppendProperties
<1>6. CASE before.going /\ before.at + SizeAt(body, before.at, item.type) <= Len(body)
  <2>1. ReadStep(body, item, before)
          = [at |-> before.at + r.size, going |-> TRUE, list |-> Append(before.list, x)]
    BY <1>6 DEF ReadStep, r, x
  <2>2. before.at + r.size \in Nat
    BY <1>1, <1>3
  <2> QED BY <1>5, <2>1, <2>2 DEF ReadStates
<1>7. CASE ~(before.going /\ before.at + SizeAt(body, before.at, item.type) <= Len(body))
  <2>1. ReadStep(body, item, before)
          = [before EXCEPT !.list = Append(@, item), !.going = FALSE]
    BY <1>7 DEF ReadStep
  <2>2. ReadStep(body, item, before)
          = [at |-> before.at, going |-> FALSE, list |-> Append(before.list, item)]
    BY <1>1, <2>1
  <2> QED BY <1>1, <1>5, <2>2 DEF ReadStates
<1> QED BY <1>6, <1>7

LEMMA BodyRuns ==
  ASSUME NEW I, Slots(I), NEW list \in Seq(I), NEW body \in Seq(Bytes), NEW offset \in Nat
  PROVE  \E f \in [0..Len(list) -> ReadStates(I)] :
           /\ f[0] = [at |-> offset, going |-> TRUE, list |-> <<>>]
           /\ \A n \in 1..Len(list) : f[n] = ReadStep(body, list[n], f[n - 1])
           /\ BodyToDataList(body, offset, list) = f[Len(list)].list
<1> DEFINE N == Len(list)
           V == ReadStates(I)
           b == [at |-> offset, going |-> TRUE, list |-> <<>>]
           h == [p \in (1..N) \X V |-> ReadStep(body, list[p[1]], p[2])]
           Doing(f) == f = [n \in 0..Len(list) |->
                              IF n = 0 THEN [at |-> offset, going |-> TRUE, list |-> <<>>]
                              ELSE ReadStep(body, list[n], f[n - 1])]
           done == CHOOSE f : Doing(f)
<1>1. N \in Nat /\ \A n \in 1..N : list[n] \in I
  BY LenProperties, ElementOfSeq
<1>2. b \in V
  BY EmptySeq DEF ReadStates
<1>3. h \in [(1..N) \X V -> V]
  <2>1. ASSUME NEW p \in (1..N) \X V PROVE ReadStep(body, list[p[1]], p[2]) \in V
    <3>1. list[p[1]] \in I /\ p[2] \in ReadStates(I)
      BY <1>1
    <3> QED BY <3>1, ReadStepType
  <2> HIDE DEF V
  <2> QED BY <2>1
<1>4. PICK f \in [0..N -> V] : Recursive(f, N, b, h)
  <2> HIDE DEF h, b, V, N
  <2> QED BY <1>1, <1>2, <1>3, RecursiveFunction
<1>5. \A n \in 0..N : f[n] = IF n = 0 THEN b ELSE ReadStep(body, list[n], f[n - 1])
  <2>1. ASSUME NEW n \in 0..N PROVE f[n] = IF n = 0 THEN b ELSE ReadStep(body, list[n], f[n - 1])
    <3>1. f[n] = IF n = 0 THEN b ELSE h[<<n, f[n - 1]>>]
      BY <1>4 DEF Recursive
    <3> HIDE DEF V, b, N
    <3>2. n # 0 => n \in 1..N /\ f[n - 1] \in V
      BY <1>1, <1>4
    <3> QED BY <3>1, <3>2
  <2> QED BY <2>1
<1>6. Doing(f)
  <2>1. f = [n \in 0..N |-> f[n]]
    BY <1>4
  <2> QED BY <1>5, <2>1
<1>7. Doing(done)
  <2> HIDE DEF Doing
  <2> QED BY <1>6, Zenon
<1>8. BodyToDataList(body, offset, list) = done[Len(list)].list
  BY Zenon DEF BodyToDataList, ReadStep, ReadAt, SizeAt
<1>9. \A n \in 0..N : done[n] = IF n = 0 THEN b ELSE ReadStep(body, list[n], done[n - 1])
  <2> HIDE DEF done
  <2> QED BY <1>7
<1>10. DOMAIN done = 0..N
  <2> HIDE DEF done
  <2> QED BY <1>7
<1> HIDE DEF done
<1>17. done[0] = b /\ \A n \in 1..N : done[n] = ReadStep(body, list[n], done[n - 1])
  <2> HIDE DEF b, N
  <2>1. 0 \in 0..N /\ \A n \in 1..N : n \in 0..N /\ n # 0
    BY <1>1
  <2> QED BY <1>9, <2>1
<1> DEFINE S == {n \in Nat : n <= N => done[n] \in V}
<1>11. 0 \in S
  <2> HIDE DEF V, b
  <2> QED BY <1>2, <1>17
<1>12. ASSUME NEW n \in S PROVE n + 1 \in S
  <2>1. ASSUME n + 1 <= N PROVE done[n + 1] \in V
    <3>1. n + 1 \in 1..N /\ n + 1 \in 0..N /\ (n + 1) - 1 = n /\ n + 1 # 0 /\ done[n] \in V
      BY <1>1, <2>1
    <3>2. done[n + 1] = ReadStep(body, list[n + 1], done[n])
      BY <1>9, <3>1
    <3> QED BY <1>1, <3>1, <3>2, ReadStepType
  <2> HIDE DEF V
  <2> QED BY <2>1
<1> HIDE DEF S
<1>13. S \in SUBSET Nat
  BY DEF S
<1>14. \A n \in Nat : n \in S
  BY <1>11, <1>12, <1>13, NumbersInduction
<1>15. \A n \in 0..N : done[n] \in V
  BY <1>1, <1>14 DEF S
<1>16. done \in [0..N -> V]
  <2>1. done = [n \in 0..N |-> done[n]]
    BY <1>7, <1>10
  <2> QED BY <1>15, <2>1
<1> QED BY <1>8, <1>16, <1>17

LEMMA ItemIsRead ==
  ASSUME NEW body \in Seq(Bytes), Len(body) < Word, NEW at \in Nat, NEW item \in ProperItems,
         Holds(body, at, FromItem(item))
  PROVE  /\ item.type \in ItemTypes /\ item.value \in Nat \cup Seq(Bytes)
         /\ at + ItemSize(item) <= Len(body)
         /\ SizeAt(body, at, item.type) = ItemSize(item)
         /\ ReadAt(body, at, item.type) = [value |-> item.value, size |-> ItemSize(item)]
<1>1. /\ at + ItemSize(item) <= Len(body) /\ ItemSize(item) \in Nat /\ Len(body) \in Nat
      /\ Word \in Nat
  BY ItemAsBytes, LenProperties, WordFacts DEF Holds
<1>2. CASE item \in [type : {"u16"}, value : 0..(Word - 1)]
  <2>1. item.type = "u16" /\ item.value \in Nat /\ item.value < Word
    BY <1>2, WordFacts
  <2>2. /\ FromItem(item) = BigEndian(item.value, 2) /\ ItemSize(item) = 2
        /\ SizeAt(body, at, item.type) = 2
        /\ ReadAt(body, at, item.type) = [value |-> ToNumber(body, at, 2), size |-> 2]
    BY <2>1, WidthIs DEF FromItem, ItemSize, SizeAt, ReadAt
  <2>3. ToNumber(body, at, 2) = item.value
    BY <2>1, <2>2, WordIsRead DEF ToWord
  <2> QED BY <1>1, <2>1, <2>2, <2>3 DEF ItemTypes
<1>3. CASE item \in [type : {"f32"}, value : 0..(Quad - 1)]
  <2>1. item.type = "f32" /\ item.value \in Nat /\ item.value < Quad
    BY <1>3, QuadFacts
  <2>2. /\ FromItem(item) = BigEndian(item.value, 4) /\ ItemSize(item) = 4
        /\ SizeAt(body, at, item.type) = 4
        /\ ReadAt(body, at, item.type) = [value |-> ToNumber(body, at, 4), size |-> 4]
    BY <2>1, WidthIs DEF FromItem, ItemSize, SizeAt, ReadAt
  <2>3. ToNumber(body, at, 4) = item.value
    BY <2>1, <2>2, FloatIsRead
  <2> QED BY <1>1, <2>1, <2>2, <2>3 DEF ItemTypes
<1>4. CASE item \in [type : {"text"}, value : Seq(Bytes)]
  <2>1. item.type = "text" /\ item.value \in Seq(Bytes)
    BY <1>4
  <2> DEFINE n == Len(item.value)
  <2>2. /\ FromItem(item) = FromText(item.value) /\ ItemSize(item) = Even(n) + 2
        /\ ReadAt(body, at, item.type) = ToText(body, at)
        /\ SizeAt(body, at, item.type)
             = Even(2 + (IF at + 2 <= Len(body) THEN ToWord(body, at) ELSE 0))
    BY <2>1 DEF FromItem, ItemSize, SizeAt, ReadAt
  <2>3. n \in Nat
    BY <2>1, LenProperties
  <2>4. n < Word
    <3> HIDE DEF n
    <3>1. n <= Even(n) /\ Even(n) \in Nat
      BY <2>3, EvenEven
    <3> QED BY <1>1, <2>2, <2>3, <3>1
  <2>5. /\ ToText(body, at) = [value |-> item.value, size |-> Even(n) + 2]
        /\ at + 2 <= Len(body) /\ ToWord(body, at) = n
    BY <2>1, <2>2, <2>4, TextIsRead
  <2>6. Even(2 + n) = Even(n) + 2
    <3> HIDE DEF n
    <3> QED BY <2>3 DEF Even
  <2> QED BY <1>1, <2>1, <2>2, <2>5, <2>6 DEF ItemTypes
<1> QED BY <1>2, <1>3, <1>4 DEF ProperItems

\* Items that keep all but their values.
KeepsItems(result, list, I) ==
  /\ result \in Seq(I) /\ Len(result) = Len(list)
  /\ \A n \in 1..Len(list) :
       \/ result[n] = list[n]
       \/ \E v \in Nat \cup Seq(Bytes) : result[n] = [list[n] EXCEPT !.value = v]

\* Items keep all but their values, whatever the body is.
LEMMA BodyKeepsItems ==
  ASSUME NEW I, Slots(I), NEW list \in Seq(I), NEW body \in Seq(Bytes), NEW offset \in Nat
  PROVE  KeepsItems(BodyToDataList(body, offset, list), list, I)
<1> DEFINE N == Len(list)
           Kin(r, n) == \/ r = list[n]
                        \/ \E v \in Nat \cup Seq(Bytes) : r = [list[n] EXCEPT !.value = v]
<1>1. N \in Nat /\ \A n \in 1..N : list[n] \in I
  BY LenProperties, ElementOfSeq
<1>2. PICK f \in [0..N -> ReadStates(I)] :
             /\ f[0] = [at |-> offset, going |-> TRUE, list |-> <<>>]
             /\ \A n \in 1..N : f[n] = ReadStep(body, list[n], f[n - 1])
             /\ BodyToDataList(body, offset, list) = f[N].list
  BY BodyRuns
<1> HIDE DEF N
<1> DEFINE Good(n) == n <= N => /\ Len(f[n].list) = n
                                /\ \A k \in 1..n : Kin(f[n].list[k], k)
           S == {n \in Nat : Good(n)}
<1>3. 0 \in S
  <2> HIDE DEF Kin
  <2>1. f[0].list = <<>> /\ Len(<<>>) = 0
    BY <1>2
  <2>2. Good(0)
    BY <2>1
  <2> QED BY <2>2
<1>4. ASSUME NEW n \in S PROVE n + 1 \in S
  <2> HIDE DEF Kin
  <2>1. n \in Nat /\ n + 1 \in Nat /\ Good(n)
    OBVIOUS
  <2>2. ASSUME n + 1 <= N
        PROVE  /\ Len(f[n + 1].list) = n + 1
               /\ \A k \in 1..(n + 1) : Kin(f[n + 1].list[k], k)
    <3> DEFINE before == f[n]
               item == list[n + 1]
               r == ReadAt(body, before.at, item.type)
               x == [item EXCEPT !.value = r.value]
    <3>1. n + 1 \in 1..N /\ (n + 1) - 1 = n /\ n <= N /\ n \in 0..N
      BY <1>1, <2>1, <2>2
    <3>2. f[n + 1] = ReadStep(body, item, before) /\ before \in ReadStates(I) /\ item \in I
      BY <1>1, <1>2, <3>1
    <3>3. Len(before.list) = n /\ \A k \in 1..n : Kin(before.list[k], k)
      BY <2>1, <3>1
    <3> HIDE DEF before, Good
    <3>4. /\ before.at \in Nat /\ before.list \in Seq(I)
          /\ before = [at |-> before.at, going |-> before.going, list |-> before.list]
      BY <3>2 DEF ReadStates
    <3>5. item.type \in ItemTypes
      BY <3>2 DEF Slots
    <3>6. r.value \in Nat \cup Seq(Bytes)
      BY <3>4, <3>5, ReadAtType
    <3>7. x \in I /\ Kin(x, n + 1) /\ Kin(item, n + 1)
      BY <3>2, <3>6 DEF Slots, Kin
    <3>8. f[n + 1].list = Append(before.list, x) \/ f[n + 1].list = Append(before.list, item)
      BY <3>2, <3>4 DEF ReadStep
    <3> HIDE DEF x, item
    <3>9. PICK y \in I : f[n + 1].list = Append(before.list, y) /\ Kin(y, n + 1)
      BY <3>2, <3>7, <3>8
    <3>10. /\ Len(f[n + 1].list) = Len(before.list) + 1
           /\ \A k \in 1..Len(before.list) : f[n + 1].list[k] = before.list[k]
           /\ f[n + 1].list[Len(before.list) + 1] = y
      BY <3>4, <3>9, AppendProperties
    <3>11. \A k \in 1..(n + 1) : k \in 1..n \/ k = n + 1
      BY <2>1
    <3> QED BY <3>3, <3>9, <3>10, <3>11
  <2> HIDE DEF Good
  <2>3. Good(n + 1)
    BY <2>2 DEF Good
  <2> QED BY <2>1, <2>3
<1> HIDE DEF S
<1>5. S \in SUBSET Nat
  BY DEF S
<1>6. \A n \in Nat : n \in S
  BY <1>3, <1>4, <1>5, NumbersInduction
<1>7. N \in S /\ N <= N /\ N \in 0..N
  BY <1>1, <1>6
<1>8. Len(f[N].list) = N /\ \A k \in 1..N : Kin(f[N].list[k], k)
  <2> HIDE DEF Kin
  <2> QED BY <1>7 DEF S
<1>9. f[N].list \in Seq(I)
  <2>1. f[N] \in ReadStates(I)
    BY <1>2, <1>7
  <2> QED BY <2>1 DEF ReadStates
<1> QED BY <1>2, <1>8, <1>9 DEF N, KeepsItems

\* What K items become.
ReadTo(result, list, items, K) ==
  /\ \A k \in 1..K : result[k] = [list[k] EXCEPT !.value = items[k].value]
  /\ \A k \in (K + 1)..Len(list) : result[k] = list[k]

\* Items that were sent are read, as many as the list of the reader has places of
\* their types; places after them are left when they take more than a checksum.
LEMMA BodyReads ==
  ASSUME NEW I, Slots(I), NEW list \in Seq(I), NEW body \in Seq(Bytes), NEW offset \in Nat,
         Len(body) < Word, NEW items \in Seq(ProperItems),
         Holds(body, offset, DataListToBody(items)),
         NEW K \in Nat, K <= Len(items), K <= Len(list),
         \A k \in 1..K : list[k].type = items[k].type,
         K < Len(list) => /\ K = Len(items) /\ list[K + 1].type = "f32"
                          /\ Len(body) <= offset + DataListSize(items) + 2
  PROVE  ReadTo(BodyToDataList(body, offset, list), list, items, K)
<1>0. \E f \in [0..Len(list) -> ReadStates(I)] :
        /\ f[0] = [at |-> offset, going |-> TRUE, list |-> <<>>]
        /\ \A n \in 1..Len(list) : f[n] = ReadStep(body, list[n], f[n - 1])
        /\ BodyToDataList(body, offset, list) = f[Len(list)].list
  BY BodyRuns
<1> DEFINE N == Len(list)
           M == Len(items)
           D == DataListSize(items)
<1>1. /\ N \in Nat /\ \A n \in 1..N : list[n] \in I
      /\ M \in Nat /\ \A n \in 1..M : items[n] \in ProperItems
      /\ K <= N /\ K <= M
  BY LenProperties, ElementOfSeq
<1>2. PICK f \in [0..N -> ReadStates(I)] :
             /\ f[0] = [at |-> offset, going |-> TRUE, list |-> <<>>]
             /\ \A n \in 1..N : f[n] = ReadStep(body, list[n], f[n - 1])
             /\ BodyToDataList(body, offset, list) = f[N].list
  BY <1>0
<1>3. /\ DataListToBody(items) \in Seq(Bytes) /\ Len(DataListToBody(items)) = D
      /\ \E P : ItemPlaces(P, items)
  BY ListAsBytes
<1>4. PICK P : ItemPlaces(P, items)
  BY <1>3
<1>5. /\ P \in [0..M -> Nat] /\ P[0] = 0 /\ P[M] = D
      /\ \A n \in 1..M : /\ P[n] = P[n - 1] + ItemSize(items[n])
                         /\ Holds(DataListToBody(items), P[n - 1], FromItem(items[n]))
  BY <1>4 DEF ItemPlaces
<1>6. K < N => K = M /\ list[K + 1].type = "f32" /\ Len(body) <= offset + D + 2
  OBVIOUS
<1> HIDE DEF N, M, D
<1>7. ASSUME NEW n \in 1..M PROVE Holds(body, offset + P[n - 1], FromItem(items[n]))
  <2>1. P[n - 1] \in Nat
    BY <1>1, <1>5
  <2>2. FromItem(items[n]) \in Seq(Bytes) /\ Holds(DataListToBody(items), P[n - 1], FromItem(items[n]))
    BY <1>1, <1>5, ItemAsBytes
  <2> QED BY <1>3, <2>1, <2>2, HoldsWithin
<1> DEFINE Is(r, k) == r = IF k <= K THEN [list[k] EXCEPT !.value = items[k].value] ELSE list[k]
           Good(n) == n <= N => /\ Len(f[n].list) = n
                                /\ \A k \in 1..n : Is(f[n].list[k], k)
                                /\ n <= K => f[n].at = offset + P[n] /\ f[n].going
                                /\ n > K => ~f[n].going
           S == {n \in Nat : Good(n)}
<1>8. 0 \in S
  <2> HIDE DEF Is
  <2>1. f[0].list = <<>> /\ Len(<<>>) = 0 /\ f[0].at = offset + P[0] /\ f[0].going
    BY <1>2, <1>5
  <2>2. Good(0)
    BY <2>1
  <2> HIDE DEF Good
  <2> QED BY <2>2
<1>9. ASSUME NEW n \in S PROVE n + 1 \in S
  <2> HIDE DEF Is
  <2>1. n \in Nat /\ n + 1 \in Nat /\ Good(n)
    OBVIOUS
  <2>2. ASSUME n + 1 <= N
        PROVE  /\ Len(f[n + 1].list) = n + 1
               /\ \A k \in 1..(n + 1) : Is(f[n + 1].list[k], k)
               /\ n + 1 <= K => f[n + 1].at = offset + P[n + 1] /\ f[n + 1].going
               /\ n + 1 > K => ~f[n + 1].going
    <3> DEFINE before == f[n]
               item == list[n + 1]
               r == ReadAt(body, before.at, item.type)
               x == [item EXCEPT !.value = r.value]
    <3>1. n + 1 \in 1..N /\ (n + 1) - 1 = n /\ n <= N /\ n \in 0..N
      BY <1>1, <2>1, <2>2
    <3>2. f[n + 1] = ReadStep(body, item, before) /\ before \in ReadStates(I) /\ item \in I
      BY <1>1, <1>2, <3>1
    <3>3. /\ Len(before.list) = n /\ \A k \in 1..n : Is(before.list[k], k)
          /\ n <= K => before.at = offset + P[n] /\ before.going
          /\ n > K => ~before.going
      BY <2>1, <3>1
    <3> HIDE DEF before, Good
    <3>4. /\ before.at \in Nat /\ before.list \in Seq(I) /\ before.going \in BOOLEAN
          /\ before = [at |-> before.at, going |-> before.going, list |-> before.list]
      BY <3>2 DEF ReadStates
    <3>5. item.type \in ItemTypes
      BY <3>2 DEF Slots
    <3>6. r.value \in Nat \cup Seq(Bytes)
      BY <3>4, <3>5, ReadAtType
    <3>7. x \in I
      BY <3>2, <3>6 DEF Slots
    <3> DEFINE Adds(y) == /\ f[n + 1].list = Append(before.list, y)
                          /\ y \in I /\ Is(y, n + 1)
    <3>8. CASE n + 1 <= K
      <4>1. n + 1 \in 1..K /\ n + 1 \in 1..M /\ n <= K /\ P[n] \in Nat
        BY <1>1, <1>5, <2>1, <3>8
      <4>2. before.at = offset + P[n] /\ before.going
        BY <3>3, <4>1
      <4>3. Holds(body, before.at, FromItem(items[n + 1])) /\ items[n + 1] \in ProperItems
        BY <1>1, <1>7, <3>1, <4>1, <4>2
      <4>4. item.type = items[n + 1].type
        BY <4>1
      <4>5. /\ before.at + SizeAt(body, before.at, item.type) <= Len(body)
            /\ r = [value |-> items[n + 1].value, size |-> ItemSize(items[n + 1])]
        BY <3>4, <4>3, <4>4, ItemIsRead
      <4>6. f[n + 1] = [at |-> before.at + r.size, going |-> TRUE, list |-> Append(before.list, x)]
        BY <3>2, <4>2, <4>5 DEF ReadStep
      <4>7. f[n + 1].at = before.at + ItemSize(items[n + 1]) /\ f[n + 1].going
            /\ f[n + 1].list = Append(before.list, x)
        BY <4>5, <4>6
      <4>8. /\ P[n + 1] = P[n] + ItemSize(items[n + 1]) /\ ItemSize(items[n + 1]) \in Nat
        BY <1>5, <3>1, <4>1, <4>3, ItemAsBytes
      <4>9. f[n + 1].at = offset + P[n + 1]
        BY <4>1, <4>2, <4>7, <4>8
      <4>10. Is(x, n + 1)
        <5>1. x = [item EXCEPT !.value = items[n + 1].value]
          BY <4>5
        <5> QED BY <3>8, <5>1 DEF Is
      <4>11. Adds(x)
        BY <3>7, <4>7, <4>10
      <4> HIDE DEF x, item, r, Adds
      <4>12. \E y : Adds(y)
        BY <4>11
      <4>13. ~(n + 1 > K)
        BY <2>1, <3>8
      <4> HIDE DEF before
      <4>14. PICK y : Adds(y)
        BY <4>12
      <4>15. /\ Len(f[n + 1].list) = Len(before.list) + 1
             /\ \A k \in 1..Len(before.list) : f[n + 1].list[k] = before.list[k]
             /\ f[n + 1].list[Len(before.list) + 1] = y /\ Is(y, n + 1)
        BY <3>4, <4>14, AppendProperties DEF Adds
      <4>16. \A k \in 1..(n + 1) : k \in 1..n \/ k = n + 1
        BY <2>1
      <4> QED BY <3>3, <4>7, <4>9, <4>13, <4>15, <4>16
    <3>9. CASE ~(n + 1 <= K)
      <4>1. n >= K /\ K < N /\ n + 1 > K
        BY <1>1, <2>1, <2>2, <3>9
      <4>2. ~(before.going /\ before.at + SizeAt(body, before.at, item.type) <= Len(body))
        <5>1. CASE n > K
          BY <3>3, <5>1
        <5>2. CASE n = K
          <6>1. /\ K = M /\ item.type = "f32" /\ Len(body) <= offset + D + 2
            BY <1>6, <4>1, <5>2
          <6>2. SizeAt(body, before.at, item.type) = 4
            BY <6>1, WidthIs DEF SizeAt
          <6>3. before.at = offset + D /\ D \in Nat
            BY <1>1, <1>5, <3>3, <5>2, <6>1
          <6>4. Len(body) \in Nat
            BY LenProperties
          <6> QED BY <6>1, <6>2, <6>3, <6>4
        <5> QED BY <2>1, <4>1, <5>1, <5>2
      <4>3. f[n + 1] = [before EXCEPT !.list = Append(@, item), !.going = FALSE]
        BY <3>2, <4>2 DEF ReadStep
      <4>4. f[n + 1].list = Append(before.list, item) /\ ~f[n + 1].going
        BY <3>4, <4>3
      <4>5. Is(item, n + 1)
        BY <3>9 DEF Is
      <4> HIDE DEF x, item, r, Adds
      <4>6. /\ Len(f[n + 1].list) = Len(before.list) + 1
            /\ \A k \in 1..Len(before.list) : f[n + 1].list[k] = before.list[k]
            /\ f[n + 1].list[Len(before.list) + 1] = item
        BY <3>2, <3>4, <4>4, AppendProperties
      <4>7. \A k \in 1..(n + 1) : k \in 1..n \/ k = n + 1
        BY <2>1
      <4> QED BY <3>3, <3>9, <4>4, <4>5, <4>6, <4>7
    <3> QED BY <3>8, <3>9
  <2> HIDE DEF Good
  <2>3. Good(n + 1)
    BY <2>2 DEF Good
  <2> QED BY <2>1, <2>3
<1> HIDE DEF S
<1>10. S \in SUBSET Nat
  BY DEF S
<1>11. \A n \in Nat : n \in S
  BY <1>8, <1>9, <1>10, NumbersInduction
<1>12. N \in S /\ N <= N
  BY <1>1, <1>11
<1>13. \A k \in 1..N : Is(f[N].list[k], k)
  <2> HIDE DEF Is
  <2> QED BY <1>12 DEF S
<1>14. \A k \in 1..K : f[N].list[k] = [list[k] EXCEPT !.value = items[k].value]
  BY SMTT(40), <1>1, <1>13
<1>15. ASSUME NEW k \in (K + 1)..N PROVE f[N].list[k] = list[k]
  <2>1. k \in 1..N /\ ~(k <= K)
    BY <1>1
  <2> QED BY <1>13, <2>1
<1> QED BY <1>2, <1>14, <1>15 DEF N, ReadTo

-----------------------------------------------------------------------------
(* Lists whose entries are read one by one.                                   *)

AnyItems == [type : ItemTypes, value : Nat \cup Seq(Bytes)]
LunsAt(body, cmd, at) == IF Entry[cmd][1] = "u16"
                         THEN <<[type |-> "u16", value |-> ToWord(body, at)]>> ELSE <<>>
NameAt(body, cmd, at) == ToText(body, at + 2 * Len(LunsAt(body, cmd, at)))
EntryStep(body, cmd, least, before) ==
  IF before.at + least > Len(body) - 2 THEN before
  ELSE [at |-> before.at + 2 * Len(LunsAt(body, cmd, before.at))
                 + NameAt(body, cmd, before.at).size,
        list |-> before.list \o LunsAt(body, cmd, before.at)
                   \o <<[type |-> "text", value |-> NameAt(body, cmd, before.at).value]>>]
EntryStates == [at : Nat, list : Seq(AnyItems) \ {<<>>}]

LEMMA LunsType ==
  ASSUME NEW body \in Seq(Bytes), NEW cmd, NEW at \in Nat
  PROVE  /\ LunsAt(body, cmd, at) \in Seq(AnyItems)
         /\ Len(LunsAt(body, cmd, at)) \in Nat
         /\ NameAt(body, cmd, at).value \in Seq(Bytes) /\ NameAt(body, cmd, at).size \in Nat
<1> DEFINE x == [type |-> "u16", value |-> ToWord(body, at)]
           luns == LunsAt(body, cmd, at)
<1>1. x \in AnyItems
  BY WordRead DEF AnyItems, ItemTypes
<1>2. luns = <<x>> \/ luns = <<>>
  BY DEF LunsAt
<1> HIDE DEF x, luns
<1>3. luns \in Seq(AnyItems)
  <2>1. <<x>> \in Seq(AnyItems) /\ <<>> \in Seq(AnyItems)
    BY <1>1, EmptySeq
  <2> QED BY <1>2, <2>1
<1>4. Len(luns) \in Nat
  BY <1>3, LenProperties
<1>5. at + 2 * Len(luns) \in Nat
  BY <1>4
<1>6. NameAt(body, cmd, at) = ToText(body, at + 2 * Len(luns))
  BY DEF NameAt, luns
<1> QED BY <1>3, <1>4, <1>5, <1>6, TextRead DEF luns

LEMMA EntryStepType ==
  ASSUME NEW body \in Seq(Bytes), NEW cmd, NEW least \in Nat, NEW before \in EntryStates
  PROVE  EntryStep(body, cmd, least, before) \in EntryStates
<1> DEFINE luns == LunsAt(body, cmd, before.at)
           name == NameAt(body, cmd, before.at)
           x == [type |-> "text", value |-> name.value]
<1>1. before.at \in Nat /\ before.list \in Seq(AnyItems) /\ before.list # <<>>
  BY DEF EntryStates
<1>2. luns \in Seq(AnyItems) /\ Len(luns) \in Nat /\ name.value \in Seq(Bytes) /\ name.size \in Nat
  BY <1>1, LunsType
<1>3. EntryStep(body, cmd, least, before)
        = IF before.at + least > Len(body) - 2 THEN before
          ELSE [at |-> before.at + 2 * Len(luns) + name.size, list |-> before.list \o luns \o <<x>>]
  BY DEF EntryStep
<1> HIDE DEF luns, name
<1>4. x \in AnyItems
  BY <1>2 DEF AnyItems, ItemTypes
<1> HIDE DEF x
<1>5. /\ <<x>> \in Seq(AnyItems) /\ Len(<<x>>) = 1
      /\ before.at + 2 * Len(luns) + name.size \in Nat
  BY <1>1, <1>2, <1>4
<1>6. before.list \o luns \in Seq(AnyItems)
  BY <1>1, <1>2, ConcatProperties, Zenon
<1>7. before.list \o luns \o <<x>> \in Seq(AnyItems)
  BY <1>5, <1>6, ConcatProperties, Zenon
<1>8. before.list \o luns \o <<x>> # <<>>
  <2>1. Len(before.list \o luns \o <<x>>) = Len(before.list \o luns) + Len(<<x>>)
    BY <1>5, <1>6, ConcatProperties, Zenon
  <2>2. Len(before.list \o luns) \in Nat /\ Len(<<>>) = 0
    BY <1>6, LenProperties
  <2> QED BY <1>5, <2>1, <2>2
<1> QED BY <1>1, <1>3, <1>5, <1>7, <1>8 DEF EntryStates

LEMMA EntriesRun ==
  ASSUME NEW body \in Seq(Bytes), NEW cmd, NEW least \in Nat
  PROVE  \E f \in [0..ToWord(body, 4) -> EntryStates] :
           /\ f[0] = [at |-> 6, list |-> <<[type |-> "u16", value |-> ToWord(body, 4)]>>]
           /\ \A n \in 1..ToWord(body, 4) : f[n] = EntryStep(body, cmd, least, f[n - 1])
           /\ EntriesToDataList(body, cmd, least) = f[ToWord(body, 4)].list
<1> DEFINE N == ToWord(body, 4)
           V == EntryStates
           b == [at |-> 6, list |-> <<[type |-> "u16", value |-> N]>>]
           h == [p \in (1..N) \X V |-> EntryStep(body, cmd, least, p[2])]
           Doing(f) == f = [n \in 0..N |-> IF n = 0 THEN b
                                           ELSE EntryStep(body, cmd, least, f[n - 1])]
           done == CHOOSE f : Doing(f)
<1>1. N \in Nat
  BY WordRead
<1>2. b \in V
  <2> DEFINE x == [type |-> "u16", value |-> N]
  <2>1. x \in AnyItems
    BY <1>1 DEF AnyItems, ItemTypes
  <2>2. <<x>> \in Seq(AnyItems) /\ <<x>> # <<>>
    BY <2>1
  <2> QED BY <2>2 DEF EntryStates
<1>3. h \in [(1..N) \X V -> V]
  <2>1. ASSUME NEW p \in (1..N) \X V PROVE EntryStep(body, cmd, least, p[2]) \in V
    BY EntryStepType
  <2> HIDE DEF V
  <2> QED BY <2>1
<1>4. PICK f \in [0..N -> V] : Recursive(f, N, b, h)
  <2> HIDE DEF h, b, V, N
  <2> QED BY <1>1, <1>2, <1>3, RecursiveFunction
<1>5. \A n \in 0..N : f[n] = IF n = 0 THEN b ELSE EntryStep(body, cmd, least, f[n - 1])
  <2>1. ASSUME NEW n \in 0..N
        PROVE  f[n] = IF n = 0 THEN b ELSE EntryStep(body, cmd, least, f[n - 1])
    <3>1. f[n] = IF n = 0 THEN b ELSE h[<<n, f[n - 1]>>]
      BY <1>4 DEF Recursive
    <3> HIDE DEF V, b, N
    <3>2. n # 0 => n \in 1..N /\ f[n - 1] \in V
      BY <1>1, <1>4
    <3> QED BY <3>1, <3>2
  <2> QED BY <2>1
<1>6. Doing(f)
  <2>1. f = [n \in 0..N |-> f[n]]
    BY <1>4
  <2> QED BY <1>5, <2>1
<1>7. Doing(done)
  <2> HIDE DEF Doing
  <2> QED BY <1>6, Zenon
<1>8. EntriesToDataList(body, cmd, least) = done[N].list
  BY Zenon DEF EntriesToDataList, EntryStep, LunsAt, NameAt
<1> HIDE DEF N, b
<1>9. \A n \in 0..N : done[n] = IF n = 0 THEN b ELSE EntryStep(body, cmd, least, done[n - 1])
  <2> HIDE DEF done
  <2> QED BY <1>7
<1>10. done = [n \in 0..N |-> done[n]]
  <2> HIDE DEF done
  <2> QED BY <1>7
<1> HIDE DEF done
<1>11. done[0] = b /\ \A n \in 1..N : done[n] = EntryStep(body, cmd, least, done[n - 1])
  <2>1. 0 \in 0..N /\ \A n \in 1..N : n \in 0..N /\ n # 0
    BY <1>1
  <2> QED BY <1>9, <2>1
<1> HIDE DEF V
<1> DEFINE S == {n \in Nat : n <= N => done[n] \in V}
<1>12. 0 \in S
  BY <1>2, <1>11
<1>13. ASSUME NEW n \in S PROVE n + 1 \in S
  <2>1. ASSUME n + 1 <= N PROVE done[n + 1] \in V
    <3>1. n + 1 \in 1..N /\ (n + 1) - 1 = n /\ done[n] \in V
      BY <1>1, <2>1
    <3>2. done[n + 1] = EntryStep(body, cmd, least, done[n])
      BY <1>11, <3>1
    <3> QED BY <3>1, <3>2, EntryStepType DEF V
  <2> QED BY <2>1
<1> HIDE DEF S
<1>14. S \in SUBSET Nat
  BY DEF S
<1>15. \A n \in Nat : n \in S
  BY <1>12, <1>13, <1>14, NumbersInduction
<1>16. \A n \in 0..N : done[n] \in V
  BY <1>1, <1>15 DEF S
<1>17. done \in [0..N -> V]
  BY <1>10, <1>16
<1> QED BY <1>8, <1>11, <1>17 DEF N, b, V

\* Lists in a body that ends with a checksum, and the places of their items.
Carried(body, items) ==
  /\ body \in Seq(Bytes) /\ Len(body) < Word /\ items \in Seq(ProperItems)
  /\ Len(body) = DataListSize(items) + 6 /\ Holds(body, 4, DataListToBody(items))

LEMMA CarriedPlaces ==
  ASSUME NEW body, NEW items, Carried(body, items)
  PROVE  /\ DataListSize(items) \in Nat /\ Len(items) \in Nat
         /\ \E P \in [0..Len(items) -> Nat] :
              /\ P[0] = 0 /\ P[Len(items)] = DataListSize(items)
              /\ \A n \in 1..Len(items) :
                   /\ P[n] = P[n - 1] + ItemSize(items[n]) /\ P[n] <= DataListSize(items)
                   /\ ItemSize(items[n]) \in Nat /\ ItemSize(items[n]) >= 2
                   /\ Holds(body, 4 + P[n - 1], FromItem(items[n]))
<1> DEFINE N == Len(items)
           D == DataListSize(items)
           whole == DataListToBody(items)
<1>1. /\ body \in Seq(Bytes) /\ items \in Seq(ProperItems) /\ Holds(body, 4, whole)
  BY DEF Carried
<1>2. whole \in Seq(Bytes) /\ Len(whole) = D /\ D \in Nat /\ \E P : ItemPlaces(P, items)
  BY <1>1, ListAsBytes
<1>3. N \in Nat /\ \A n \in 1..N : items[n] \in ProperItems
  BY <1>1, LenProperties, ElementOfSeq
<1>4. PICK P : ItemPlaces(P, items)
  BY <1>2
<1>5. /\ P \in [0..N -> Nat] /\ P[0] = 0 /\ P[N] = D
      /\ \A n \in 1..N : /\ P[n] = P[n - 1] + ItemSize(items[n])
                         /\ Holds(whole, P[n - 1], FromItem(items[n]))
  BY <1>4 DEF ItemPlaces
<1> HIDE DEF N, D, whole
<1>6. ASSUME NEW n \in 1..N
      PROVE  /\ P[n] <= D /\ ItemSize(items[n]) \in Nat /\ ItemSize(items[n]) >= 2
             /\ Holds(body, 4 + P[n - 1], FromItem(items[n]))
  <2>1. P[n - 1] \in Nat /\ P[n] \in Nat
    BY <1>3, <1>5
  <2>2. /\ FromItem(items[n]) \in Seq(Bytes) /\ Len(FromItem(items[n])) = ItemSize(items[n])
        /\ ItemSize(items[n]) \in Nat /\ ItemSize(items[n]) >= 2
        /\ Holds(whole, P[n - 1], FromItem(items[n]))
        /\ P[n] = P[n - 1] + ItemSize(items[n])
    BY <1>3, <1>5, ItemAsBytes
  <2>3. Holds(body, 4 + P[n - 1], FromItem(items[n]))
    BY <1>1, <1>2, <2>1, <2>2, HoldsWithin
  <2>4. P[n - 1] + ItemSize(items[n]) <= D
    BY <1>2, <2>2 DEF Holds
  <2> QED BY <2>2, <2>3, <2>4
<1> QED BY <1>2, <1>3, <1>5, <1>6 DEF N, D

\* An item of a known type is its type and value.
LEMMA ItemOfType ==
  ASSUME NEW item \in ProperItems
  PROVE  /\ item.type = "u16" =>
              /\ item.value \in Nat /\ item.value < Word /\ ItemSize(item) = 2
              /\ item = [type |-> "u16", value |-> item.value]
              /\ FromItem(item) = BigEndian(item.value, 2)
         /\ item.type = "text" =>
              /\ item.value \in Seq(Bytes) /\ ItemSize(item) = Even(Len(item.value)) + 2
              /\ item = [type |-> "text", value |-> item.value]
              /\ FromItem(item) = FromText(item.value)
<1>1. ASSUME item.type = "u16"
      PROVE  /\ item.value \in Nat /\ item.value < Word /\ ItemSize(item) = 2
             /\ item = [type |-> "u16", value |-> item.value]
             /\ FromItem(item) = BigEndian(item.value, 2)
  <2>1. item \in [type : {"u16"}, value : 0..(Word - 1)]
    BY <1>1 DEF ProperItems
  <2> QED BY <2>1, WordFacts, WidthIs DEF ItemSize, FromItem
<1>2. ASSUME item.type = "text"
      PROVE  /\ item.value \in Seq(Bytes) /\ ItemSize(item) = Even(Len(item.value)) + 2
             /\ item = [type |-> "text", value |-> item.value]
             /\ FromItem(item) = FromText(item.value)
  <2>1. item \in [type : {"text"}, value : Seq(Bytes)]
    BY <1>2 DEF ProperItems
  <2> QED BY <2>1 DEF ItemSize, FromItem
<1> QED BY <1>1, <1>2

LEMMA TextItemRead ==
  ASSUME NEW body \in Seq(Bytes), Len(body) < Word, NEW at \in Nat, NEW item \in ProperItems,
         item.type = "text", Holds(body, at, FromItem(item))
  PROVE  ToText(body, at) = [value |-> item.value, size |-> ItemSize(item)]
BY ItemIsRead DEF ReadAt

\* The services: each name of the list is read.
LEMMA ServicesRead ==
  ASSUME NEW body, NEW items, Carried(body, items), NEW count \in Nat, count < Word,
         Len(items) = 1 + count, items[1] = [type |-> "u16", value |-> count],
         \A i \in 1..count : items[i + 1].type = "text"
  PROVE  EntriesToDataList(body, "QUERY_AVAILABLE_SERVICE", 2) = items
<1>0. \E f \in [0..ToWord(body, 4) -> EntryStates] :
        /\ f[0] = [at |-> 6, list |-> <<[type |-> "u16", value |-> ToWord(body, 4)]>>]
        /\ \A n \in 1..ToWord(body, 4) :
              f[n] = EntryStep(body, "QUERY_AVAILABLE_SERVICE", 2, f[n - 1])
        /\ EntriesToDataList(body, "QUERY_AVAILABLE_SERVICE", 2) = f[ToWord(body, 4)].list
  <2>1. body \in Seq(Bytes) /\ 2 \in Nat
    BY DEF Carried
  <2> QED BY <2>1, EntriesRun
<1> DEFINE D == DataListSize(items)
           N == Len(items)
           cmd == "QUERY_AVAILABLE_SERVICE"
           values == ToWord(body, 4)
<1>1. /\ body \in Seq(Bytes) /\ Len(body) < Word /\ items \in Seq(ProperItems)
      /\ Len(body) = D + 6
  BY DEF Carried
<1>2. D \in Nat /\ N \in Nat /\ N = 1 + count /\ \A n \in 1..N : items[n] \in ProperItems
  BY <1>1, CarriedPlaces, ElementOfSeq
<1>3. PICK P \in [0..N -> Nat] :
              /\ P[0] = 0 /\ P[N] = D
              /\ \A n \in 1..N :
                   /\ P[n] = P[n - 1] + ItemSize(items[n]) /\ P[n] <= D
                   /\ ItemSize(items[n]) \in Nat /\ ItemSize(items[n]) >= 2
                   /\ Holds(body, 4 + P[n - 1], FromItem(items[n]))
  BY CarriedPlaces
<1>4. values = count /\ P[1] = 2
  <2>1. /\ 1 \in 1..N /\ 1 - 1 = 0 /\ items[1] \in ProperItems /\ items[1].type = "u16"
        /\ items[1].value = count
    BY <1>2
  <2>2. ItemSize(items[1]) = 2 /\ FromItem(items[1]) = BigEndian(count, 2)
    BY <2>1, ItemOfType
  <2>3. P[1] = P[0] + 2 /\ Holds(body, 4 + P[0], BigEndian(count, 2))
    BY <1>3, <2>1, <2>2
  <2>4. Holds(body, 4, BigEndian(count, 2)) /\ P[1] = 2
    BY <1>3, <2>3
  <2> QED BY <1>1, <2>4, WordIsRead
<1>5. PICK f \in [0..values -> EntryStates] :
             /\ f[0] = [at |-> 6, list |-> <<[type |-> "u16", value |-> values]>>]
             /\ \A n \in 1..values : f[n] = EntryStep(body, cmd, 2, f[n - 1])
             /\ EntriesToDataList(body, cmd, 2) = f[values].list
  BY <1>0
<1>6. \A at : LunsAt(body, cmd, at) = <<>> /\ NameAt(body, cmd, at) = ToText(body, at + 0)
  <2>1. Entry[cmd][1] # "u16"
    BY DEF Entry
  <2>2. Len(<<>>) = 0 /\ 2 * 0 = 0
    OBVIOUS
  <2>3. \A at : LunsAt(body, cmd, at) = <<>>
    BY <2>1 DEF LunsAt
  <2> QED BY <2>2, <2>3 DEF NameAt
<1> HIDE DEF D, N, values
<1> DEFINE Good(n) == n <= count => /\ f[n].at = 4 + P[n + 1] /\ Len(f[n].list) = n + 1
                                    /\ \A k \in 1..(n + 1) : f[n].list[k] = items[k]
           S == {n \in Nat : Good(n)}
<1>7. 0 \in S
  <2>1. f[0].at = 4 + P[0 + 1]
    BY <1>4, <1>5
  <2> DEFINE x == [type |-> "u16", value |-> count]
             l == <<x>>
  <2>2. f[0].list = l /\ Len(l) = 1 /\ l[1] = x /\ x = items[1]
    BY <1>4, <1>5
  <2> HIDE DEF l
  <2>3. Len(f[0].list) = 0 + 1 /\ \A k \in 1..(0 + 1) : f[0].list[k] = items[k]
    BY <2>2
  <2>4. Good(0)
    BY <2>1, <2>3
  <2> HIDE DEF Good
  <2> QED BY <2>4
<1>8. ASSUME NEW n \in S PROVE n + 1 \in S
  <2>1. n \in Nat /\ n + 1 \in Nat /\ Good(n)
    OBVIOUS
  <2>2. ASSUME n + 1 <= count
        PROVE  /\ f[n + 1].at = 4 + P[(n + 1) + 1] /\ Len(f[n + 1].list) = (n + 1) + 1
               /\ \A k \in 1..((n + 1) + 1) : f[n + 1].list[k] = items[k]
    <3> DEFINE before == f[n]
               item == items[n + 2]
               at == before.at
    <3>1. /\ n + 1 \in 1..values /\ (n + 1) - 1 = n /\ n <= count /\ n \in 0..values
          /\ n + 2 \in 1..N /\ (n + 2) - 1 = n + 1 /\ n + 1 \in 0..N /\ n + 1 \in 1..count
          /\ (n + 1) + 1 = n + 2 /\ n + 2 \in 0..N
      <4>1. values = count /\ N = 1 + count
        BY <1>2, <1>4
      <4> QED BY SMTT(40), <2>1, <2>2, <4>1
    <3>2. f[n + 1] = EntryStep(body, cmd, 2, before) /\ before \in EntryStates
      BY <1>5, <3>1
    <3>3. /\ at = 4 + P[n + 1] /\ Len(before.list) = n + 1
          /\ \A k \in 1..(n + 1) : before.list[k] = items[k]
      BY <2>1, <3>1
    <3>4. item \in ProperItems /\ item.type = "text"
      BY <1>2, <3>1
    <3>5. /\ P[n + 2] = P[n + 1] + ItemSize(item) /\ P[n + 2] <= D /\ ItemSize(item) \in Nat
          /\ ItemSize(item) >= 2 /\ P[n + 1] \in Nat
          /\ Holds(body, 4 + P[n + 1], FromItem(item))
      BY <1>3, <3>1
    <3> HIDE DEF before, item, Good
    <3>6. at \in Nat /\ Holds(body, at, FromItem(item))
      BY <3>3, <3>5
    <3>7. ToText(body, at) = [value |-> item.value, size |-> ItemSize(item)]
      BY <1>1, <3>4, <3>6, TextItemRead
    <3>8. ~(before.at + 2 > Len(body) - 2)
      BY SMTT(40), <1>1, <1>2, <3>3, <3>5
    <3>9. LunsAt(body, cmd, at) = <<>> /\ NameAt(body, cmd, at) = [value |-> item.value, size |-> ItemSize(item)]
      <4>1. at + 0 = at
        BY <3>6
      <4> QED BY <1>6, <3>7, <4>1
    <3>10. f[n + 1] = [at |-> at + 2 * Len(<<>>) + ItemSize(item),
                       list |-> before.list \o <<>> \o <<[type |-> "text", value |-> item.value]>>]
      <4>1. /\ NameAt(body, cmd, before.at).value = item.value
            /\ NameAt(body, cmd, before.at).size = ItemSize(item)
        BY <3>9
      <4> QED BY <3>2, <3>8, <3>9, <4>1, Zenon DEF EntryStep
    <3>11. item = [type |-> "text", value |-> item.value]
      BY <3>4, ItemOfType
    <3>12. before.list \in Seq(AnyItems) /\ item \in AnyItems
      <4>1. before.list \in Seq(AnyItems)
        BY <3>2 DEF EntryStates
      <4>2. item.value \in Seq(Bytes)
        BY <3>4, ItemOfType
      <4> QED BY <3>11, <4>1, <4>2 DEF AnyItems, ItemTypes
    <3>13. f[n + 1].list = Append(before.list, item)
      <4>1. before.list \o <<>> = before.list
        BY <3>12, ConcatEmptySeq
      <4>2. Append(before.list, item) = before.list \o <<item>>
        BY <3>12, AppendIsConcat
      <4>3. f[n + 1].list = before.list \o <<>> \o <<[type |-> "text", value |-> item.value]>>
        BY <3>10
      <4> QED BY <3>11, <4>1, <4>2, <4>3, Zenon
    <3>14. f[n + 1].at = 4 + P[n + 2]
      <4>1. Len(<<>>) = 0 /\ f[n + 1].at = at + 2 * Len(<<>>) + ItemSize(item)
        BY <3>10
      <4> QED BY <3>3, <3>5, <4>1
    <3>15. /\ Len(f[n + 1].list) = Len(before.list) + 1
           /\ \A k \in 1..Len(before.list) : f[n + 1].list[k] = before.list[k]
           /\ f[n + 1].list[Len(before.list) + 1] = item
      BY <3>12, <3>13, AppendProperties
    <3>16. \A k \in 1..((n + 1) + 1) : k \in 1..(n + 1) \/ k = n + 2
      BY <2>1
    <3>17. item = items[n + 2]
      BY DEF item
    <3> QED BY <3>1, <3>3, <3>14, <3>15, <3>16, <3>17
  <2> HIDE DEF Good
  <2>3. Good(n + 1)
    BY <2>2 DEF Good
  <2> QED BY <2>1, <2>3
<1> HIDE DEF S
<1>9. S \in SUBSET Nat
  BY DEF S
<1>10. \A n \in Nat : n \in S
  BY <1>7, <1>8, <1>9, NumbersInduction
<1>11. count \in S /\ count <= count
  BY <1>10
<1>12. /\ Len(f[count].list) = count + 1 /\ \A k \in 1..(count + 1) : f[count].list[k] = items[k]
  BY <1>11 DEF S
<1>13. f[count].list \in Seq(AnyItems)
  <2>1. f[count] \in EntryStates
    BY <1>4, <1>5
  <2> QED BY <2>1 DEF EntryStates
<1> DEFINE r == f[count].list
<1>14. /\ r \in Seq(AnyItems) /\ Len(r) = N /\ \A k \in 1..N : r[k] = items[k]
  BY <1>2, <1>12, <1>13
<1> HIDE DEF r
<1>15. r = items
  <2>1. r = [k \in 1..Len(r) |-> r[k]]
    BY <1>14
  <2>2. items = [k \in 1..Len(items) |-> items[k]]
    BY <1>1
  <2> QED BY <1>14, <2>1, <2>2 DEF N
<1> QED BY <1>4, <1>5, <1>15 DEF r, values

\* The same of the names of user defined values.
LEMMA NamesRun ==
  ASSUME NEW body \in Seq(Bytes)
  PROVE  \E f \in [0..ToWord(body, 4) -> EntryStates] :
           /\ f[0] = [at |-> 6, list |-> <<[type |-> "u16", value |-> ToWord(body, 4)]>>]
           /\ \A n \in 1..ToWord(body, 4) :
                 f[n] = EntryStep(body, "GET_USER_DEFINED_VALUE_LIST", 6, f[n - 1])
           /\ EntriesToDataList(body, "GET_USER_DEFINED_VALUE_LIST", 6) = f[ToWord(body, 4)].list
<1>1. 6 \in Nat
  OBVIOUS
<1> QED BY <1>1, EntriesRun

\* The names of user defined values: an empty name is lost if it is the last.
LEMMA UserListRead ==
  ASSUME NEW body, NEW items, Carried(body, items), NEW count \in Nat, count < Word,
         Len(items) = 1 + 2 * count, items[1] = [type |-> "u16", value |-> count],
         \A i \in 1..count : items[2 * i].type = "u16" /\ items[2 * i + 1].type = "text",
         NEW want \in Nat, want <= count,
         want = IF count > 0 /\ items[Len(items)].value = <<>> THEN count - 1 ELSE count
  PROVE  EntriesToDataList(body, "GET_USER_DEFINED_VALUE_LIST", 6)
           = [k \in 1..(2 * want + 1) |-> items[k]]
<1>0. /\ body \in Seq(Bytes) /\ 6 \in Nat
  BY DEF Carried
<1> DEFINE D == DataListSize(items)
           N == Len(items)
           cmd == "GET_USER_DEFINED_VALUE_LIST"
           values == ToWord(body, 4)
<1>1. /\ body \in Seq(Bytes) /\ Len(body) < Word /\ items \in Seq(ProperItems)
      /\ Len(body) = D + 6
  BY DEF Carried
<1>2. D \in Nat /\ N \in Nat /\ N = 1 + 2 * count /\ \A n \in 1..N : items[n] \in ProperItems
  BY <1>1, CarriedPlaces, ElementOfSeq
<1>3. PICK P \in [0..N -> Nat] :
              /\ P[0] = 0 /\ P[N] = D
              /\ \A n \in 1..N :
                   /\ P[n] = P[n - 1] + ItemSize(items[n]) /\ P[n] <= D
                   /\ ItemSize(items[n]) \in Nat /\ ItemSize(items[n]) >= 2
                   /\ Holds(body, 4 + P[n - 1], FromItem(items[n]))
  BY CarriedPlaces
<1>4. values = count /\ P[1] = 2
  <2>1. /\ 1 \in 1..N /\ 1 - 1 = 0 /\ items[1] \in ProperItems /\ items[1].type = "u16"
        /\ items[1].value = count
    BY <1>2
  <2>2. ItemSize(items[1]) = 2 /\ FromItem(items[1]) = BigEndian(count, 2)
    BY <2>1, ItemOfType
  <2>3. P[1] = P[0] + 2 /\ Holds(body, 4 + P[0], BigEndian(count, 2))
    BY <1>3, <2>1, <2>2
  <2>4. Holds(body, 4, BigEndian(count, 2)) /\ P[1] = 2
    BY <1>3, <2>3
  <2> QED BY <1>1, <2>4, WordIsRead
<1>5. PICK f \in [0..values -> EntryStates] :
             /\ f[0] = [at |-> 6, list |-> <<[type |-> "u16", value |-> values]>>]
             /\ \A n \in 1..values : f[n] = EntryStep(body, cmd, 6, f[n - 1])
             /\ EntriesToDataList(body, cmd, 6) = f[values].list
  <2>1. \E f \in [0..ToWord(body, 4) -> EntryStates] :
          /\ f[0] = [at |-> 6, list |-> <<[type |-> "u16", value |-> ToWord(body, 4)]>>]
          /\ \A n \in 1..ToWord(body, 4) :
                f[n] = EntryStep(body, "GET_USER_DEFINED_VALUE_LIST", 6, f[n - 1])
          /\ EntriesToDataList(body, "GET_USER_DEFINED_VALUE_LIST", 6) = f[ToWord(body, 4)].list
    BY <1>0, NamesRun
  <2> QED BY <2>1
<1>6. \A at : /\ LunsAt(body, cmd, at) = <<[type |-> "u16", value |-> ToWord(body, at)]>>
              /\ NameAt(body, cmd, at) = ToText(body, at + 2 * 1)
  <2>1. Entry[cmd][1] = "u16"
    BY DEF Entry
  <2>2. \A x : Len(<<x>>) = 1
    OBVIOUS
  <2>3. \A at : LunsAt(body, cmd, at) = <<[type |-> "u16", value |-> ToWord(body, at)]>>
    BY <2>1 DEF LunsAt
  <2> QED BY <2>2, <2>3 DEF NameAt
<1> HIDE DEF D, N, values
<1> DEFINE Read(n, j) == /\ f[n].at = 4 + P[2 * j + 1] /\ Len(f[n].list) = 2 * j + 1
                         /\ \A k \in 1..(2 * j + 1) : f[n].list[k] = items[k]
           Good(n) == n <= count => /\ n <= want => Read(n, n)
                                    /\ n > want => Read(n, want)
           S == {n \in Nat : Good(n)}
<1>7. 0 \in S
  <2>1. f[0].at = 4 + P[2 * 0 + 1] /\ ~(0 > want)
    BY <1>4, <1>5
  <2> DEFINE x == [type |-> "u16", value |-> count]
             l == <<x>>
  <2>2. f[0].list = l /\ Len(l) = 1 /\ l[1] = x /\ x = items[1]
    BY <1>4, <1>5
  <2> HIDE DEF l
  <2>3. Len(f[0].list) = 2 * 0 + 1 /\ \A k \in 1..(2 * 0 + 1) : f[0].list[k] = items[k]
    BY <2>2
  <2>4. Good(0)
    BY <2>1, <2>3
  <2> HIDE DEF Good
  <2> QED BY <2>4
<1>8. ASSUME NEW n \in S PROVE n + 1 \in S
  <2>1. n \in Nat /\ n + 1 \in Nat /\ Good(n)
    OBVIOUS
  <2>2. ASSUME n + 1 <= count
        PROVE  (n + 1 <= want => Read(n + 1, n + 1)) /\ (n + 1 > want => Read(n + 1, want))
    <3> DEFINE before == f[n]
               lun == items[2 * n + 2]
               item == items[2 * n + 3]
               at == before.at
    <3>0. n + 1 \in 1..values /\ (n + 1) - 1 = n /\ n \in 0..values /\ n + 1 \in 1..count
      <4>1. values = count
        BY <1>4
      <4> QED BY <2>1, <2>2, <4>1
    <3>1. /\ 2 * n + 2 \in 1..N /\ (2 * n + 2) - 1 = 2 * n + 1 /\ 2 * n + 1 \in 0..N
          /\ 2 * n + 3 \in 1..N /\ (2 * n + 3) - 1 = 2 * n + 2 /\ 2 * n + 2 \in 0..N
          /\ 2 * (n + 1) = 2 * n + 2 /\ 2 * (n + 1) + 1 = 2 * n + 3
      <4>1. N = 1 + 2 * count
        BY <1>2
      <4> QED BY <2>1, <2>2, <4>1
    <3>2. f[n + 1] = EntryStep(body, cmd, 6, before) /\ before \in EntryStates
      BY <1>5, <3>0
    <3>3. n <= want
      BY <2>1, <2>2
    <3>4. /\ at = 4 + P[2 * n + 1] /\ Len(before.list) = 2 * n + 1
          /\ \A k \in 1..(2 * n + 1) : before.list[k] = items[k]
      BY <2>1, <2>2, <3>3
    <3>5. /\ lun \in ProperItems /\ lun.type = "u16" /\ item \in ProperItems /\ item.type = "text"
      <4>1. items[2 * (n + 1)].type = "u16" /\ items[2 * (n + 1) + 1].type = "text"
        BY <3>0
      <4> QED BY <1>2, <3>1, <4>1
    <3>6. /\ P[2 * n + 2] = P[2 * n + 1] + ItemSize(lun) /\ P[2 * n + 1] \in Nat
          /\ Holds(body, 4 + P[2 * n + 1], FromItem(lun))
      BY <1>3, <3>1
    <3>7. /\ P[2 * n + 3] = P[2 * n + 2] + ItemSize(item) /\ P[2 * n + 3] <= D
          /\ ItemSize(item) \in Nat /\ ItemSize(item) >= 2
          /\ Holds(body, 4 + P[2 * n + 2], FromItem(item))
      BY <1>3, <3>1
    <3>8. /\ lun.value \in Nat /\ lun.value < Word /\ ItemSize(lun) = 2
          /\ lun = [type |-> "u16", value |-> lun.value]
          /\ FromItem(lun) = BigEndian(lun.value, 2)
          /\ item.value \in Seq(Bytes) /\ ItemSize(item) = Even(Len(item.value)) + 2
          /\ item = [type |-> "text", value |-> item.value]
      BY <3>5, ItemOfType
    <3>9. /\ item = items[2 * n + 3] /\ lun = items[2 * n + 2]
      OBVIOUS
    <3> HIDE DEF before, item, lun, Good
    <3>10. /\ at \in Nat /\ 4 + P[2 * n + 2] = at + 2 * 1 /\ at + 2 * 1 \in Nat
           /\ P[2 * n + 2] = P[2 * n + 1] + 2
      <4> DEFINE p == P[2 * n + 1]
                 q == P[2 * n + 2]
      <4>1. at = 4 + p /\ p \in Nat
        BY <3>4, <3>6
      <4>2. q = p + 2
        BY <3>6, <3>8, Zenon
      <4> HIDE DEF p, q
      <4>3. at \in Nat /\ 4 + q = at + 2 * 1 /\ at + 2 * 1 \in Nat /\ q = p + 2
        BY <4>1, <4>2
      <4> QED BY <4>3 DEF p, q
    <3>10a. /\ at + 2 + ItemSize(item) = 4 + P[2 * n + 3] /\ P[2 * n + 3] <= D
            /\ ItemSize(item) \in Nat /\ ItemSize(item) >= 2 /\ at \in Nat /\ D \in Nat
            /\ Len(body) = D + 6 /\ P[2 * n + 3] \in Nat
      <4> DEFINE q == P[2 * n + 2]
                 p == P[2 * n + 3]
                 z == ItemSize(item)
      <4>1. 4 + q = at + 2 * 1 /\ at \in Nat
        BY <3>10
      <4>2. p = q + z /\ p <= D /\ z \in Nat /\ z >= 2
        BY <3>7
      <4>3. p \in Nat /\ D \in Nat /\ Len(body) = D + 6
        <5>1. 2 * n + 3 \in 0..N
          BY <2>1, <3>1
        <5>2. p \in Nat
          BY <1>3, <5>1
        <5> QED BY <1>1, <1>2, <5>2
      <4>4. q \in Nat
        BY <1>3, <3>1
      <4> HIDE DEF p, q, z
      <4>5. at + 2 + z = 4 + p
        BY <4>1, <4>2, <4>3, <4>4
      <4> QED BY <4>1, <4>2, <4>3, <4>5 DEF p, z
    <3>10b. N = 1 + 2 * count /\ (n + 1 = count => N = 2 * n + 3)
      <4>1. N = 1 + 2 * count
        BY <1>2
      <4> QED BY <2>1, <4>1
    <3>11. ToWord(body, at) = lun.value
      BY <1>1, <3>4, <3>6, <3>8, <3>10, WordIsRead
    <3>12. ToText(body, at + 2 * 1) = [value |-> item.value, size |-> ItemSize(item)]
      BY <1>1, <3>5, <3>7, <3>10, TextItemRead
    <3>13. /\ LunsAt(body, cmd, at) = <<lun>>
           /\ NameAt(body, cmd, at).value = item.value
           /\ NameAt(body, cmd, at).size = ItemSize(item)
      BY <1>6, <3>8, <3>11, <3>12
    <3>14. CASE ~(at + 6 > Len(body) - 2)
      <4>1. f[n + 1] = [at |-> at + 2 * Len(<<lun>>) + ItemSize(item),
                        list |-> before.list \o <<lun>> \o <<[type |-> "text", value |-> item.value]>>]
        BY <3>2, <3>13, <3>14, Zenon DEF EntryStep
      <4>2. before.list \in Seq(AnyItems) /\ item \in AnyItems /\ lun \in AnyItems
        <5>1. before.list \in Seq(AnyItems)
          BY <3>2 DEF EntryStates
        <5> QED BY <3>8, <5>1 DEF AnyItems, ItemTypes
      <4>3. f[n + 1].list = Append(Append(before.list, lun), item)
        <5>0. Append(before.list, lun) = before.list \o <<lun>>
          BY <4>2, AppendIsConcat, Zenon
        <5>1. /\ Append(before.list, lun) = before.list \o <<lun>>
              /\ Append(before.list, lun) \in Seq(AnyItems)
          BY <4>2, <5>0, AppendProperties, Zenon
        <5> DEFINE more == Append(before.list, lun)
        <5>2. more \in Seq(AnyItems) /\ more = before.list \o <<lun>>
          BY <5>1
        <5> HIDE DEF more
        <5>3. Append(more, item) = more \o <<item>>
          BY <4>2, <5>2, AppendIsConcat
        <5>4. f[n + 1].list = before.list \o <<lun>> \o <<[type |-> "text", value |-> item.value]>>
          BY <4>1
        <5>5. f[n + 1].list = Append(more, item)
          BY <3>8, <5>2, <5>3, <5>4, Zenon
        <5> QED BY <5>5 DEF more
      <4>4. f[n + 1].at = 4 + P[2 * n + 3]
        <5>1. Len(<<lun>>) = 1 /\ f[n + 1].at = at + 2 * Len(<<lun>>) + ItemSize(item)
          BY <4>1
        <5> QED BY <3>4, <3>6, <3>7, <3>10, <5>1
      <4>5. /\ Append(before.list, lun) \in Seq(AnyItems)
            /\ Len(Append(before.list, lun)) = 2 * n + 2
            /\ \A k \in 1..(2 * n + 1) : Append(before.list, lun)[k] = before.list[k]
            /\ Append(before.list, lun)[2 * n + 2] = lun
        <5>1. /\ Append(before.list, lun) \in Seq(AnyItems)
              /\ Len(Append(before.list, lun)) = Len(before.list) + 1
              /\ \A k \in 1..Len(before.list) : Append(before.list, lun)[k] = before.list[k]
              /\ Append(before.list, lun)[Len(before.list) + 1] = lun
          BY <4>2, AppendProperties
        <5>2. Len(before.list) = 2 * n + 1 /\ (2 * n + 1) + 1 = 2 * n + 2
          BY <2>1, <3>4
        <5> QED BY <5>1, <5>2
      <4> DEFINE more == Append(before.list, lun)
      <4>6. /\ more \in Seq(AnyItems) /\ Len(more) = 2 * n + 2
            /\ \A k \in 1..(2 * n + 1) : more[k] = before.list[k]
            /\ more[2 * n + 2] = lun /\ f[n + 1].list = Append(more, item)
        BY <4>3, <4>5
      <4> HIDE DEF more
      <4>7. /\ Len(f[n + 1].list) = Len(more) + 1
            /\ \A k \in 1..Len(more) : f[n + 1].list[k] = more[k]
            /\ f[n + 1].list[Len(more) + 1] = item
        <5> DEFINE l == f[n + 1].list
        <5>1. l = Append(more, item) /\ more \in Seq(AnyItems) /\ item \in AnyItems
          BY <4>2, <4>6
        <5> HIDE DEF l
        <5>2. Len(l) = Len(more) + 1 /\ (\A k \in 1..Len(more) : l[k] = more[k])
              /\ l[Len(more) + 1] = item
          BY <5>1, AppendProperties
        <5> QED BY <5>2 DEF l
      <4>8. Len(more) + 1 = 2 * n + 3 /\ \A k \in 1..(2 * n + 3) :
                 k \in 1..(2 * n + 1) \/ k = 2 * n + 2 \/ k = 2 * n + 3
        BY <2>1, <4>6
      <4>9. \A k \in 1..(2 * n + 3) : f[n + 1].list[k] = items[k]
        <5>1. \A k \in 1..(2 * n + 1) : k \in 1..Len(more)
          BY <2>1, <4>6
        <5>2. 2 * n + 2 \in 1..Len(more)
          BY <2>1, <4>6
        <5>3. \A k \in 1..(2 * n + 1) : f[n + 1].list[k] = items[k]
          BY <3>4, <4>6, <4>7, <5>1
        <5>4. f[n + 1].list[2 * n + 2] = lun
          BY <4>6, <4>7, <5>2
        <5>5. f[n + 1].list[2 * n + 3] = item
          BY <4>7, <4>8
        <5> QED BY <3>9, <4>8, <5>3, <5>4, <5>5
      <4>10. Read(n + 1, n + 1)
        <5>1. Len(f[n + 1].list) = 2 * n + 3
          BY <4>7, <4>8
        <5> QED BY <3>1, <4>4, <4>9, <5>1
      <4>11. n + 1 <= want
        <5>1. CASE n + 1 = count
          <6>1. N = 2 * n + 3
            BY <3>10b, <5>1
          <6>2. P[2 * n + 3] = D /\ items[N] = item
            BY <1>3, <3>9, <6>1
          <6>3. ItemSize(item) # 2
            BY <3>10a, <3>14, <6>2
          <6>4. Even(0) = 0
            BY DEF Even
          <6>5. item.value # <<>>
            BY <3>8, <6>3, <6>4, EmptySeq
          <6> QED BY <5>1, <6>2, <6>5 DEF N
        <5>2. CASE n + 1 # count
          BY <2>1, <2>2, <5>2
        <5> QED BY <5>1, <5>2
      <4>12. ~(n + 1 > want)
        BY <2>1, <4>11
      <4> HIDE DEF Read
      <4> QED BY <4>10, <4>12
    <3>15. CASE at + 6 > Len(body) - 2
      <4>1. f[n + 1] = before
        BY <3>2, <3>15 DEF EntryStep
      <4>2. n = want
        <5>1. n + 1 = count
          <6>1. SUFFICES ASSUME n + 1 # count PROVE FALSE
            OBVIOUS
          <6>2. 2 * n + 4 \in 1..N /\ (2 * n + 4) - 1 = 2 * n + 3 /\ 2 * n + 3 \in 0..N
            <7>1. n + 2 <= count /\ N = 1 + 2 * count
              BY <1>2, <2>1, <2>2, <6>1
            <7> QED BY SMTT(40), <2>1, <7>1
          <6>3. /\ P[2 * n + 4] = P[2 * n + 3] + ItemSize(items[2 * n + 4])
                /\ P[2 * n + 4] <= D /\ ItemSize(items[2 * n + 4]) >= 2
                /\ ItemSize(items[2 * n + 4]) \in Nat /\ P[2 * n + 3] \in Nat
            BY <1>3, <6>2
          <6>4. Len(body) = D + 6 /\ D \in Nat
            BY <1>1, <1>2
          <6> DEFINE p == P[2 * n + 3]
                     q == P[2 * n + 4]
                     y == ItemSize(items[2 * n + 4])
                     z == ItemSize(item)
          <6> DEFINE size == Len(body)
          <6>5. q = p + y /\ q <= D /\ y >= 2 /\ y \in Nat /\ p \in Nat
            BY <6>3
          <6>6. at + 2 + z = 4 + p /\ z >= 2 /\ z \in Nat /\ at \in Nat
            BY <3>10a
          <6>7. at + 6 > size - 2 /\ size = D + 6
            BY <3>15, <6>4
          <6> HIDE DEF p, q, y, z, size, at
          <6>8. p + 2 <= D
            BY <6>4, <6>5
          <6>9. at <= p
            BY <6>5, <6>6
          <6> QED BY <6>4, <6>5, <6>6, <6>7, <6>8, <6>9
        <5>2. N = 2 * n + 3
          BY <3>10b, <5>1
        <5>3. P[2 * n + 3] = D /\ items[N] = item
          BY <1>3, <3>9, <5>2
        <5>4. ItemSize(item) < 4
          <6> DEFINE z == ItemSize(item)
          <6>1. /\ at + 2 + z = 4 + D /\ z \in Nat /\ at \in Nat /\ D \in Nat
                /\ Len(body) = D + 6
            BY <3>10a, <5>3
          <6> HIDE DEF z
          <6>2. z < 4
            BY SMTT(40), <3>15, <6>1
          <6> QED BY <6>2 DEF z
        <5>5. Len(item.value) = 0
          <6>1. Len(item.value) \in Nat
            BY <3>8, LenProperties
          <6>2. Len(item.value) <= Even(Len(item.value)) /\ Even(Len(item.value)) % 2 = 0
                /\ Even(Len(item.value)) \in Nat
            BY <6>1, EvenEven
          <6> DEFINE e == Even(Len(item.value))
                     z == ItemSize(item)
                     l == Len(item.value)
          <6>3. z = e + 2 /\ z < 4 /\ z \in Nat
            BY <3>8, <3>10a, <5>4
          <6>4. e % 2 = 0 /\ e \in Nat /\ l <= e /\ l \in Nat
            BY <6>1, <6>2
          <6> HIDE DEF e, z, l
          <6>5. e = 0
            BY <6>3, <6>4
          <6>6. l = 0
            BY <6>4, <6>5
          <6> QED BY <6>6 DEF l
        <5>6. item.value = <<>>
          BY <3>8, <5>5, EmptySeq
        <5> QED BY <2>1, <5>1, <5>3, <5>6 DEF N
      <4>3. Read(n, n)
        BY <3>4 DEF before
      <4>4. Read(n + 1, want) /\ ~(n + 1 <= want)
        BY <2>1, <4>1, <4>2, <4>3 DEF before
      <4> HIDE DEF Read
      <4> QED BY <4>4
    <3> QED BY <3>14, <3>15
  <2> HIDE DEF Good
  <2>3. Good(n + 1)
    BY <2>2 DEF Good
  <2> QED BY <2>1, <2>3
<1> HIDE DEF S
<1>9. S \in SUBSET Nat
  BY DEF S
<1>10. \A n \in Nat : n \in S
  BY <1>7, <1>8, <1>9, NumbersInduction
<1>11. count \in S /\ count <= count
  BY <1>10
<1>12. Read(count, want)
  <2>1. count <= want => want = count
    OBVIOUS
  <2>2. count > want \/ count <= want
    OBVIOUS
  <2>3. Good(count)
    BY <1>11 DEF S
  <2> QED BY <1>11, <2>1, <2>2, <2>3
<1>13. f[count].list \in Seq(AnyItems)
  <2>1. f[count] \in EntryStates
    BY <1>4, <1>5
  <2> QED BY <2>1 DEF EntryStates
<1> DEFINE r == f[count].list
<1>14. /\ r \in Seq(AnyItems) /\ Len(r) = 2 * want + 1
       /\ \A k \in 1..(2 * want + 1) : r[k] = items[k]
  BY <1>12, <1>13
<1> HIDE DEF r
<1>15. r = [k \in 1..(2 * want + 1) |-> items[k]]
  <2>1. r = [k \in 1..Len(r) |-> r[k]]
    BY <1>14
  <2> QED BY <1>14, <2>1
<1> QED BY <1>4, <1>5, <1>15 DEF r, values

-----------------------------------------------------------------------------
(* What the client reads of a message.                                       *)

\* When BodyReads applies: K items of the list have the types of those in the body.
Readable(I, list, body, offset, items, K) ==
  /\ Slots(I) /\ list \in Seq(I) /\ body \in Seq(Bytes) /\ offset \in Nat
  /\ Len(body) < Word /\ items \in Seq(ProperItems)
  /\ Holds(body, offset, DataListToBody(items))
  /\ K \in Nat /\ K <= Len(items) /\ K <= Len(list)
  /\ \A k \in 1..K : list[k].type = items[k].type
  /\ K < Len(list) => /\ K = Len(items) /\ list[K + 1].type = "f32"
                      /\ Len(body) <= offset + DataListSize(items) + 2

\* BodyReads, with its hypotheses together.
LEMMA ReadsOf ==
  ASSUME NEW I, NEW list, NEW body, NEW offset, NEW items, NEW K,
         Readable(I, list, body, offset, items, K)
  PROVE  ReadTo(BodyToDataList(body, offset, list), list, items, K)
BY BodyReads DEF Readable

\* A list of a fixed form is read as the server filled it.
LEMMA FilledAsSent ==
  ASSUME NEW n \in Nat, NEW types \in [1..n -> ItemTypes], NEW body, NEW items,
         Carried(body, items), Len(items) = n, \A i \in 1..n : items[i].type = types[i]
  PROVE  BodyToDataList(body, 4, [i \in DOMAIN types |-> Default(types[i])]) = items
<1> DEFINE list == [i \in DOMAIN types |-> Default(types[i])]
           result == BodyToDataList(body, 4, list)
<1>1. /\ body \in Seq(Bytes) /\ Len(body) < Word /\ items \in Seq(ProperItems)
      /\ Holds(body, 4, DataListToBody(items)) /\ DOMAIN types = 1..n
  BY DEF Carried
<1>2. ASSUME NEW i \in 1..n PROVE Default(types[i]) \in AnyItems /\ Default(types[i]).type = types[i]
  <2>1. types[i] \in ItemTypes /\ <<>> \in Seq(Bytes) /\ 0 \in Nat
    BY EmptySeq
  <2> QED BY <2>1 DEF Default, AnyItems
<1>3. /\ list \in Seq(AnyItems) /\ Len(list) = n
      /\ \A i \in 1..n : list[i] \in AnyItems /\ list[i].type = types[i]
  <2>1. list \in [1..n -> AnyItems]
    BY <1>1, <1>2
  <2>2. \A i \in 1..n : list[i].type = types[i]
    BY <1>1, <1>2
  <2> HIDE DEF list
  <2> QED BY <2>1, <2>2, ListIs
<1>4. Slots(AnyItems)
  BY DEF Slots, AnyItems
<1> HIDE DEF list
<1>5. 4 \in Nat /\ n <= Len(items) /\ n <= Len(list) /\ ~(n < Len(list))
      /\ \A k \in 1..n : list[k].type = items[k].type
  BY <1>3
<1>5a. n < Len(list) => /\ n = Len(items) /\ list[n + 1].type = "f32"
                        /\ Len(body) <= 4 + DataListSize(items) + 2
  BY <1>5
<1>6. \A k \in 1..n : result[k] = [list[k] EXCEPT !.value = items[k].value]
  <2>1. Readable(AnyItems, list, body, 4, items, n)
    BY <1>1, <1>3, <1>4, <1>5, <1>5a DEF Readable
  <2>2. ReadTo(result, list, items, n)
    BY <2>1, ReadsOf
  <2> QED BY <2>2 DEF ReadTo
<1>7. result \in Seq(AnyItems) /\ Len(result) = n
  BY <1>1, <1>3, <1>4, <1>5, BodyKeepsItems DEF KeepsItems
<1> HIDE DEF result
<1>8. ASSUME NEW k \in 1..n PROVE result[k] = items[k]
  <2>1. list[k] \in AnyItems /\ list[k].type = items[k].type
    BY <1>3
  <2>2. items[k] \in ProperItems
    BY <1>1, ElementOfSeq
  <2>3. items[k] = [type |-> items[k].type, value |-> items[k].value]
    BY <2>2 DEF ProperItems
  <2>4. [list[k] EXCEPT !.value = items[k].value] = [type |-> list[k].type, value |-> items[k].value]
    BY <2>1 DEF AnyItems
  <2> QED BY <1>6, <2>1, <2>3, <2>4
<1>9. result = [k \in 1..n |-> result[k]] /\ items = [k \in 1..n |-> items[k]]
  BY <1>1, <1>7
<1>10. [k \in 1..n |-> result[k]] = [k \in 1..n |-> items[k]]
  BY <1>8
<1>11. result = items
  BY <1>9, <1>10, Zenon
<1> QED BY <1>11 DEF result, list

\* The number at the head of a list.
LEMMA CountIsRead ==
  ASSUME NEW body, NEW items, Carried(body, items), NEW n \in Nat, n < Word,
         Len(items) >= 1, items[1] = [type |-> "u16", value |-> n]
  PROVE  ToWord(body, 4) = n
<1>1. PICK P \in [0..Len(items) -> Nat] :
             /\ P[0] = 0
             /\ \A k \in 1..Len(items) : Holds(body, 4 + P[k - 1], FromItem(items[k]))
  BY CarriedPlaces
<1>2. 1 \in 1..Len(items) /\ 1 - 1 = 0 /\ items[1] \in ProperItems
  <2>1. items \in Seq(ProperItems) /\ Len(items) \in Nat
    BY LenProperties DEF Carried
  <2>2. 1 \in 1..Len(items)
    BY <2>1
  <2> QED BY <2>1, <2>2, ElementOfSeq
<1>3. Holds(body, 4 + P[0], FromItem(items[1]))
  BY <1>1, <1>2
<1>4. 4 + P[0] = 4 /\ FromItem(items[1]) = BigEndian(n, 2)
  <2>1. items[1].type = "u16" /\ items[1].value = n
    OBVIOUS
  <2>2. FromItem(items[1]) = BigEndian(items[1].value, 2)
    BY <1>2, <2>1, ItemOfType
  <2> QED BY <1>1, <2>1, <2>2
<1>5. body \in Seq(Bytes) /\ 4 \in Nat /\ Holds(body, 4, BigEndian(n, 2))
  BY <1>3, <1>4 DEF Carried
<1> QED BY <1>5, WordIsRead

\* The types of the items of a list: that of its number and then those of its entries.
LEMMA HeadAndEntries ==
  ASSUME NEW types \in Seq(ItemTypes), Len(types) > 0, NEW n \in Nat
  PROVE  LET all == <<"u16">> \o Repeated(types, n)
         IN  /\ 1 + n * Len(types) \in Nat
             /\ all \in [1..(1 + n * Len(types)) -> ItemTypes] /\ all[1] = "u16"
             /\ \A i \in 1..(n * Len(types)) : all[i + 1] = Repeated(types, n)[i]
<1> DEFINE N == n * Len(types)
           R == Repeated(types, n)
           a == <<"u16">>
           all == a \o R
<1>1. N \in Nat /\ R \in [1..N -> ItemTypes]
  BY RepeatedTypes
<1>2. a \in Seq(ItemTypes) /\ Len(a) = 1 /\ a[1] = "u16"
  BY DEF ItemTypes
<1> HIDE DEF N, R, a
<1>3. R \in Seq(ItemTypes) /\ Len(R) = N
  BY <1>1, ListIs
<1>4. /\ all \in Seq(ItemTypes) /\ Len(all) = Len(a) + Len(R)
      /\ \A i \in 1..(Len(a) + Len(R)) : all[i] = IF i <= Len(a) THEN a[i] ELSE R[i - Len(a)]
  BY <1>2, <1>3, ConcatProperties
<1> HIDE DEF all
<1>5. Len(all) = 1 + N /\ 1 + N \in Nat /\ all[1] = "u16"
  BY <1>1, <1>2, <1>3, <1>4
<1>6. all \in [1..(1 + N) -> ItemTypes]
  BY <1>4, <1>5
<1>7. ASSUME NEW i \in 1..N PROVE all[i + 1] = R[i]
  <2>1. i + 1 \in 1..(Len(a) + Len(R)) /\ ~(i + 1 <= Len(a)) /\ (i + 1) - Len(a) = i
    BY <1>1, <1>2, <1>3
  <2> QED BY <1>4, <2>1
<1> QED BY <1>5, <1>6, <1>7 DEF all, a, N, R

\* What a response whose list has a fixed form is read as.
LEMMA FixedFormRead ==
  ASSUME NEW types \in Seq(ItemTypes), NEW items \in Items(types), NEW body,
         Carried(body, items)
  PROVE  BodyToDataList(body, 4, [i \in DOMAIN types |-> Default(types[i])]) = items
<1> DEFINE n == Len(types)
<1>1. n \in Nat /\ types \in [1..n -> ItemTypes]
  BY LenProperties
<1> HIDE DEF n
<1>2. Len(items) = n /\ \A i \in 1..n : items[i].type = types[i]
  BY <1>1, ItemsAre
<1> QED BY <1>1, <1>2, FilledAsSent

\* The information on calibration pages.
LEMMA PagesRead ==
  ASSUME NEW body, NEW items \in Lists(Entry["GET_CALPAGE_INFO"]), Carried(body, items)
  PROVE  LET types == <<"u16">> \o Repeated(Entry["GET_CALPAGE_INFO"], ToWord(body, 4))
         IN  BodyToDataList(body, 4, [i \in DOMAIN types |-> Default(types[i])]) = items
<1> DEFINE entry == Entry["GET_CALPAGE_INFO"]
<1>1. entry \in Seq(ItemTypes) /\ Len(entry) > 0 /\ Len(entry) \in Nat
  <2>1. "GET_CALPAGE_INFO" \in DOMAIN Entry
    BY DEF Entry
  <2> QED BY <2>1, EntryTypes
<1> HIDE DEF entry
<1>2. items \in Lists(entry)
  BY DEF entry
<1>3. PICK n \in 0..(Word - 1) :
             /\ n * Len(entry) \in Nat /\ Len(items) = 1 + n * Len(entry)
             /\ items[1] = [type |-> "u16", value |-> n]
             /\ \A i \in 1..(n * Len(entry)) : items[i + 1].type = Repeated(entry, n)[i]
  BY <1>1, <1>2, ListsAre
<1>4. n \in Nat /\ n < Word /\ Len(items) >= 1
  BY <1>3, WordFacts
<1>5. ToWord(body, 4) = n
  BY <1>3, <1>4, CountIsRead
<1> DEFINE all == <<"u16">> \o Repeated(entry, n)
           N == n * Len(entry)
<1>6. /\ 1 + N \in Nat /\ all \in [1..(1 + N) -> ItemTypes] /\ all[1] = "u16"
      /\ \A i \in 1..N : all[i + 1] = Repeated(entry, n)[i]
  BY <1>1, <1>4, HeadAndEntries
<1>7. N \in Nat /\ Len(items) = 1 + N /\ \A i \in 1..N : items[i + 1].type = Repeated(entry, n)[i]
  BY <1>3
<1> HIDE DEF all, N
<1>8. ASSUME NEW i \in 1..(1 + N) PROVE items[i].type = all[i]
  <2>1. CASE i = 1
    BY <1>3, <1>6, <2>1
  <2>2. CASE i # 1
    <3>1. i - 1 \in 1..N /\ (i - 1) + 1 = i
      BY <1>7, <2>2
    <3>2. items[(i - 1) + 1].type = all[(i - 1) + 1]
      BY <1>6, <1>7, <3>1
    <3> QED BY <3>1, <3>2
  <2> QED BY <2>1, <2>2
<1>9. BodyToDataList(body, 4, [i \in DOMAIN all |-> Default(all[i])]) = items
  BY <1>6, <1>7, <1>8, FilledAsSent
<1> QED BY <1>5, <1>9 DEF all, entry

\* The names of services.
LEMMA ServiceListRead ==
  ASSUME NEW body, NEW items \in Lists(Entry["QUERY_AVAILABLE_SERVICE"]), Carried(body, items)
  PROVE  EntriesToDataList(body, "QUERY_AVAILABLE_SERVICE", 2) = items
<1> DEFINE entry == Entry["QUERY_AVAILABLE_SERVICE"]
<1>1. entry = <<"text">> /\ Len(entry) = 1 /\ entry[1] = "text"
  BY DEF Entry
<1>2. entry \in Seq(ItemTypes) /\ Len(entry) > 0
  BY <1>1 DEF ItemTypes
<1> HIDE DEF entry
<1>3. items \in Lists(entry)
  BY DEF entry
<1>4. PICK n \in 0..(Word - 1) :
             /\ n * Len(entry) \in Nat /\ Len(items) = 1 + n * Len(entry)
             /\ items[1] = [type |-> "u16", value |-> n]
             /\ \A i \in 1..(n * Len(entry)) : items[i + 1].type = Repeated(entry, n)[i]
  BY <1>2, <1>3, ListsAre
<1>5. n \in Nat /\ n < Word /\ n * Len(entry) = n
  BY <1>1, <1>4, WordFacts
<1>6. ASSUME NEW i \in 1..n PROVE items[i + 1].type = "text"
  <2>1. i \in 1..(n * Len(entry)) /\ ((i - 1) % 1) + 1 = 1
    BY <1>5
  <2>2. Repeated(entry, n)[i] = entry[((i - 1) % Len(entry)) + 1]
    BY <2>1 DEF Repeated
  <2> QED BY <1>1, <1>4, <2>1, <2>2
<1>7. Len(items) = 1 + n
  BY <1>4, <1>5
<1>8. /\ Carried(body, items) /\ n \in Nat /\ n < Word /\ Len(items) = 1 + n
      /\ items[1] = [type |-> "u16", value |-> n] /\ \A i \in 1..n : items[i + 1].type = "text"
  BY <1>4, <1>5, <1>6, <1>7
<1> QED BY <1>8, ServicesRead, SMTT(30)

\* The names of user defined values, but for a last one that is empty.
LEMMA NameListRead ==
  ASSUME NEW body, NEW items \in Lists(Entry["GET_USER_DEFINED_VALUE_LIST"]),
         Carried(body, items)
  PROVE  \E want \in Nat :
           /\ 2 * want + 1 <= Len(items)
           /\ EntriesToDataList(body, "GET_USER_DEFINED_VALUE_LIST", 6)
                = [k \in 1..(2 * want + 1) |-> items[k]]
           /\ (IF Len(items) > 1 /\ Last(items).value = <<>>
               THEN SubSeq(items, 1, Len(items) - 2) ELSE items)
                = [k \in 1..(2 * want + 1) |-> items[k]]
           /\ items[1].type = "u16" /\ \A j \in 1..want : items[2 * j + 1].type = "text"
<1> DEFINE entry == Entry["GET_USER_DEFINED_VALUE_LIST"]
<1>1. entry = <<"u16", "text">> /\ Len(entry) = 2 /\ entry[1] = "u16" /\ entry[2] = "text"
  BY DEF Entry
<1>2. entry \in Seq(ItemTypes) /\ Len(entry) > 0
  BY <1>1 DEF ItemTypes
<1> HIDE DEF entry
<1>3. items \in Lists(entry)
  BY DEF entry
<1>4. PICK n \in 0..(Word - 1) :
             /\ n * Len(entry) \in Nat /\ Len(items) = 1 + n * Len(entry)
             /\ items[1] = [type |-> "u16", value |-> n]
             /\ \A i \in 1..(n * Len(entry)) : items[i + 1].type = Repeated(entry, n)[i]
  BY <1>2, <1>3, ListsAre
<1>5. n \in Nat /\ n < Word /\ n * Len(entry) = 2 * n /\ Len(items) = 1 + 2 * n
  BY <1>1, <1>4, WordFacts
<1>6. ASSUME NEW i \in 1..n PROVE items[2 * i].type = "u16" /\ items[2 * i + 1].type = "text"
  <2>1. /\ 2 * i - 1 \in 1..(n * Len(entry)) /\ 2 * i \in 1..(n * Len(entry))
        /\ (2 * i - 1) + 1 = 2 * i
        /\ (((2 * i - 1) - 1) % 2) + 1 = 1 /\ ((2 * i - 1) % 2) + 1 = 2
    BY <1>5
  <2>2. /\ Repeated(entry, n)[2 * i - 1] = entry[(((2 * i - 1) - 1) % Len(entry)) + 1]
        /\ Repeated(entry, n)[2 * i] = entry[((2 * i - 1) % Len(entry)) + 1]
    BY <2>1 DEF Repeated
  <2>3. items[(2 * i - 1) + 1].type = "u16" /\ items[2 * i + 1].type = "text"
    BY <1>1, <1>4, <2>1, <2>2
  <2> QED BY <2>1, <2>3
<1> DEFINE lost == n > 0 /\ items[Len(items)].value = <<>>
           want == IF lost THEN n - 1 ELSE n
           kept == IF Len(items) > 1 /\ Last(items).value = <<>>
                   THEN SubSeq(items, 1, Len(items) - 2) ELSE items
<1>7. want \in Nat /\ want <= n /\ 2 * want + 1 <= Len(items)
  BY <1>5
<1>8. EntriesToDataList(body, "GET_USER_DEFINED_VALUE_LIST", 6)
        = [k \in 1..(2 * want + 1) |-> items[k]]
  BY SMTT(40), <1>4, <1>5, <1>6, <1>7, UserListRead
<1>9. items \in Seq(ProperItems) /\ Len(items) \in Nat
  BY LenProperties DEF Carried
<1>10. (Len(items) > 1 /\ Last(items).value = <<>>) <=> lost
  BY <1>5 DEF Last
<1>11. kept = [k \in 1..(2 * want + 1) |-> items[k]]
  <2>1. CASE lost
    <3>1. kept = SubSeq(items, 1, Len(items) - 2) /\ 2 * want + 1 = Len(items) - 2
      BY <1>5, <1>10, <2>1
    <3> DEFINE r == SubSeq(items, 1, Len(items) - 2)
               l == Len(items) - 2
    <3>2. 1 \in Nat \ {0} /\ l \in Nat /\ 1 <= l + 1 /\ l <= Len(items) /\ l + 1 - 1 = l
          /\ \A k \in 1..l : 1 + k - 1 = k
      BY <1>5, <2>1
    <3>3. r \in Seq(ProperItems) /\ Len(r) = l /\ \A k \in 1..l : r[k] = items[k]
      BY <1>9, <3>2, Slice
    <3> HIDE DEF r, l
    <3>4. r = [k \in 1..l |-> r[k]]
      BY <3>3
    <3>5. r = [k \in 1..l |-> items[k]]
      BY <3>3, <3>4
    <3> QED BY <3>1, <3>5 DEF r, l
  <2>2. CASE ~lost
    <3>1. kept = items /\ 2 * want + 1 = Len(items)
      BY <1>5, <1>10, <2>2
    <3>2. items = [k \in 1..Len(items) |-> items[k]]
      BY <1>9
    <3> HIDE DEF kept, want
    <3> QED BY <3>1, <3>2, Zenon
  <2> QED BY <2>1, <2>2
<1>12. items[1].type = "u16" /\ \A j \in 1..want : items[2 * j + 1].type = "text"
  BY <1>4, <1>6, <1>7
<1> HIDE DEF want, kept
<1>13. kept = (IF Len(items) > 1 /\ Last(items).value = <<>>
               THEN SubSeq(items, 1, Len(items) - 2) ELSE items)
  BY DEF kept
<1> QED BY <1>7, <1>8, <1>11, <1>12, <1>13

\* The body of a message: its bytes after the length word.
BodyOf(body, frame) ==
  /\ body \in Seq(Bytes) /\ frame \in Seq(Bytes) /\ Len(frame) >= 8
  /\ Len(body) = Len(frame) - 2 /\ \A i \in 1..Len(body) : body[i] = frame[i + 2]

LEMMA HeldInBody ==
  ASSUME NEW body, NEW frame, BodyOf(body, frame), NEW p \in Nat, NEW a \in Seq(Bytes),
         Holds(frame, p + 2, a)
  PROVE  Holds(body, p, a)
<1>1. Len(body) \in Nat /\ Len(frame) \in Nat /\ Len(a) \in Nat
  BY LenProperties DEF BodyOf
<1>2. p + Len(a) <= Len(body)
  BY <1>1 DEF Holds, BodyOf
<1>3. ASSUME NEW i \in 1..Len(a) PROVE body[p + i] = a[i]
  <2>1. p + i \in 1..Len(body) /\ (p + i) + 2 = (p + 2) + i
    BY <1>1, <1>2
  <2>2. frame[(p + 2) + i] = a[i]
    BY DEF Holds
  <2>3. body[p + i] = frame[(p + i) + 2]
    BY <2>1 DEF BodyOf
  <2> QED BY <2>1, <2>2, <2>3
<1> QED BY <1>2, <1>3 DEF Holds

\* What the body of a message holds.
LEMMA BodyOfMessage ==
  ASSUME NEW m \in Messages, Fits(m), NEW body, BodyOf(body, Frame(m))
  PROVE  /\ Carried(body, m.items)
         /\ NameOf(Cmds, ToWord(body, 0)) = m.cmd /\ NameOf(Stats, ToWord(body, 2)) = m.status
<1> DEFINE F == Frame(m)
           c == CodeOf(Cmds, m.cmd)
           s == CodeOf(Stats, m.status)
           D == DataListSize(m.items)
<1>1. Framed(m, 8 + D)
  BY FrameIs
<1>2. /\ c \in Nat /\ c < Word /\ NameOf(Cmds, c) = m.cmd
      /\ s \in Nat /\ s < Word /\ NameOf(Stats, s) = m.status
  BY CodesAre
<1>3. m.items \in Seq(ProperItems)
  BY PayloadsAre
<1>4. DataListToBody(m.items) \in Seq(Bytes) /\ D \in Nat
  BY <1>3, ListAsBytes
<1>5. BigEndian(c, 2) \in Seq(Bytes) /\ BigEndian(s, 2) \in Seq(Bytes)
  BY <1>2, DigitsOfWord
<1>6. /\ Holds(F, 2, BigEndian(c, 2)) /\ Holds(F, 4, BigEndian(s, 2))
      /\ Holds(F, 6, DataListToBody(m.items)) /\ Len(F) = 8 + D /\ 8 + D \in 8..(Word - 1)
  BY <1>1 DEF Framed
<1>7. body \in Seq(Bytes) /\ Len(body) = Len(F) - 2 /\ BodyOf(body, F)
  BY DEF BodyOf
<1> HIDE DEF F, c, s, D
<1>8. 0 + 2 = 2 /\ 2 + 2 = 4 /\ 4 + 2 = 6
  OBVIOUS
<1>9. Holds(body, 0, BigEndian(c, 2))
  BY <1>5, <1>6, <1>7, <1>8, HeldInBody
<1>10. Holds(body, 2, BigEndian(s, 2))
  BY <1>5, <1>6, <1>7, <1>8, HeldInBody
<1>11. Holds(body, 4, DataListToBody(m.items))
  BY <1>4, <1>6, <1>7, <1>8, HeldInBody
<1>12. ToWord(body, 0) = c /\ ToWord(body, 2) = s
  BY <1>2, <1>7, <1>9, <1>10, WordIsRead
<1>13. Len(body) = D + 6 /\ Len(body) < Word
  BY <1>4, <1>6, <1>7, WordFacts
<1>14. Carried(body, m.items)
  BY <1>3, <1>7, <1>11, <1>13 DEF Carried, D
<1> QED BY <1>2, <1>12, <1>14

\* The list of a response, whatever its command and status, is that of the server.
LEMMA ListIsRead ==
  ASSUME NEW m \in Messages, NEW body, Carried(body, m.items), ~UserValues(m)
  PROVE  ToDataList(body, m.cmd, m.status) = Kept(m)
<1>1. /\ m.cmd \in ToSet(Cmds) /\ m.status \in ToSet(Stats)
      /\ m.items \in Payloads(m.cmd, m.status)
  BY MessageFields
<1> DEFINE Filled(types) ==
             BodyToDataList(body, 4, [i \in DOMAIN types |-> Default(types[i])])
<1>2. DOMAIN Entry = {"GET_CALPAGE_INFO", "GET_USER_DEFINED_VALUE_LIST", "QUERY_AVAILABLE_SERVICE"}
  BY DEF Entry
<1>3. DOMAIN OkResponse = {"INIT", "IDENTIFY", "DEFINE_DESC", "SELECT_DESC", "EXECUTE_SERVICE"}
  BY DEF OkResponse
<1>4. CASE m.status = "ACK"
  <2>1. m.items = <<>>
    BY <1>1, <1>4 DEF Payloads
  <2>2. ToDataList(body, m.cmd, m.status) = <<>>
    BY <1>4 DEF ToDataList
  <2>3. Kept(m) = m.items
    BY <1>4 DEF Kept, UserList
  <2> QED BY <2>1, <2>2, <2>3
<1>5. CASE m.status = "ERROR"
  <2>1. m.items \in Items(ErrorResponse)
    BY <1>1, <1>5 DEF Payloads
  <2>2. ToDataList(body, m.cmd, m.status) = Filled(ErrorResponse)
    BY <1>5 DEF ToDataList
  <2>3. ErrorResponse \in Seq(ItemTypes)
    BY DEF ErrorResponse, ItemTypes
  <2>4. Filled(ErrorResponse) = m.items
    BY <2>1, <2>3, FixedFormRead
  <2>5. Kept(m) = m.items
    BY <1>5 DEF Kept, UserList
  <2> QED BY <2>2, <2>4, <2>5
<1>6. CASE m.status = "OK"
  <2>1. CASE m.cmd \in DOMAIN OkResponse
    <3>1. m.items \in Items(OkResponse[m.cmd])
      BY <1>1, <1>2, <1>3, <1>6, <2>1 DEF Payloads
    <3>2. ToDataList(body, m.cmd, m.status) = Filled(OkResponse[m.cmd])
      BY <1>3, <1>6, <2>1 DEF ToDataList
    <3>3. OkResponse[m.cmd] \in Seq(ItemTypes)
      BY <2>1, OkTypes
    <3>4. Filled(OkResponse[m.cmd]) = m.items
      BY <3>1, <3>3, FixedFormRead
    <3>5. Kept(m) = m.items
      BY <1>3, <2>1 DEF Kept, UserList
    <3> QED BY <3>2, <3>4, <3>5
  <2>2. CASE m.cmd = "GET_CALPAGE_INFO"
    <3>1. m.items \in Lists(Entry["GET_CALPAGE_INFO"])
      BY <1>1, <1>2, <1>6, <2>2 DEF Payloads
    <3> DEFINE types == <<"u16">> \o Repeated(Entry["GET_CALPAGE_INFO"], ToWord(body, 4))
    <3>2. ToDataList(body, m.cmd, m.status) = Filled(types)
      <4>1. ~(m.cmd \in DOMAIN OkResponse)
        BY <1>3, <2>2
      <4> QED BY <1>6, <2>2, <4>1 DEF ToDataList
    <3>3. Filled(types) = m.items
      BY <3>1, PagesRead
    <3>4. Kept(m) = m.items
      BY <2>2 DEF Kept, UserList
    <3> QED BY <3>2, <3>3, <3>4
  <2>3. CASE m.cmd = "QUERY_AVAILABLE_SERVICE"
    <3>1. m.items \in Lists(Entry["QUERY_AVAILABLE_SERVICE"])
      BY <1>1, <1>2, <1>6, <2>3 DEF Payloads
    <3>2. ToDataList(body, m.cmd, m.status) = EntriesToDataList(body, "QUERY_AVAILABLE_SERVICE", 2)
      <4>1. ~(m.cmd \in DOMAIN OkResponse)
        BY <1>3, <2>3
      <4> QED BY <1>6, <2>3, <4>1 DEF ToDataList
    <3>3. EntriesToDataList(body, "QUERY_AVAILABLE_SERVICE", 2) = m.items
      BY <3>1, ServiceListRead
    <3>4. Kept(m) = m.items
      BY <2>3 DEF Kept, UserList
    <3> QED BY <3>2, <3>3, <3>4
  <2>4. CASE m.cmd = "GET_USER_DEFINED_VALUE_LIST"
    <3>1. m.items \in Lists(Entry["GET_USER_DEFINED_VALUE_LIST"])
      BY <1>1, <1>2, <1>6, <2>4 DEF Payloads
    <3>2. ToDataList(body, m.cmd, m.status)
            = EntriesToDataList(body, "GET_USER_DEFINED_VALUE_LIST", 6)
      <4>1. ~(m.cmd \in DOMAIN OkResponse)
        BY <1>3, <2>4
      <4> QED BY <1>6, <2>4, <4>1 DEF ToDataList
    <3>3. Kept(m) = IF Len(m.items) > 1 /\ Last(m.items).value = <<>>
                    THEN SubSeq(m.items, 1, Len(m.items) - 2) ELSE m.items
      BY <1>6, <2>4 DEF Kept, UserList
    <3>4. EntriesToDataList(body, "GET_USER_DEFINED_VALUE_LIST", 6)
            = IF Len(m.items) > 1 /\ Last(m.items).value = <<>>
              THEN SubSeq(m.items, 1, Len(m.items) - 2) ELSE m.items
      <4> DEFINE items == m.items
      <4>1. items \in Lists(Entry["GET_USER_DEFINED_VALUE_LIST"]) /\ Carried(body, items)
        BY <3>1
      <4> HIDE DEF items
      <4>2. \E want \in Nat :
              /\ EntriesToDataList(body, "GET_USER_DEFINED_VALUE_LIST", 6)
                   = [k \in 1..(2 * want + 1) |-> items[k]]
              /\ (IF Len(items) > 1 /\ Last(items).value = <<>>
                  THEN SubSeq(items, 1, Len(items) - 2) ELSE items)
                   = [k \in 1..(2 * want + 1) |-> items[k]]
        BY <4>1, NameListRead
      <4>3. EntriesToDataList(body, "GET_USER_DEFINED_VALUE_LIST", 6)
              = IF Len(items) > 1 /\ Last(items).value = <<>>
                THEN SubSeq(items, 1, Len(items) - 2) ELSE items
        BY <4>2, Zenon
      <4> QED BY <4>3 DEF items
    <3> QED BY <3>2, <3>3, <3>4, Zenon
  <2> QED BY <1>1, <1>3, <1>6, <2>1, <2>2, <2>3, <2>4, CommandNames DEF UserValues
<1> QED BY <1>1, <1>4, <1>5, <1>6, CommandNames

-----------------------------------------------------------------------------
(* The checksum: the server adds up the words of the frame and cuts the sum,  *)
(* the client cuts that of the body and then adds the length.                 *)

LEMMA NearMultiples ==
  ASSUME NEW d \in Nat \ {0}, NEW p \in Nat, NEW q \in Nat,
         d * q - d * p < d, d * p - d * q < d
  PROVE  p = q
<1>1. ASSUME NEW a \in Nat, NEW b \in Nat, a < b PROVE d * b - d * a >= d
  <2>1. PICK r \in Nat : b = a + 1 + r
    <3>1. b - a - 1 \in Nat /\ b = a + 1 + (b - a - 1)
      BY <1>1
    <3> QED BY <3>1
  <2>2. d * b = d * a + d + d * r /\ d * r \in Nat /\ d * a \in Nat
    BY <2>1
  <2> QED BY <2>2
<1>2. d * q \in Nat /\ d * p \in Nat
  OBVIOUS
<1>3. ~(p < q) /\ ~(q < p)
  BY <1>1, <1>2
<1> QED BY <1>3

\* Two words are the same only if their bytes are.
LEMMA WordsDiffer ==
  ASSUME NEW a \in Seq(Bytes), NEW b \in Seq(Bytes), NEW o \in Nat,
         Len(a) >= o + 2, Len(b) >= o + 2, ToWord(a, o) = ToWord(b, o)
  PROVE  a[o + 1] = b[o + 1] /\ a[o + 2] = b[o + 2]
<1> DEFINE x == a[o + 1]
           y == a[o + 2]
           u == b[o + 1]
           v == b[o + 2]
<1>1. /\ x \in Bytes /\ y \in Bytes /\ u \in Bytes /\ v \in Bytes
  <2>1. o + 1 \in 1..Len(a) /\ o + 2 \in 1..Len(a) /\ o + 1 \in 1..Len(b) /\ o + 2 \in 1..Len(b)
    BY LenProperties
  <2> QED BY <2>1, ElementOfSeq
<1>2. ToWord(a, o) = x * Radix + y /\ ToWord(b, o) = u * Radix + v
  BY WordRead
<1> HIDE DEF x, y, u, v
<1>3. /\ x \in Nat /\ u \in Nat /\ y \in Nat /\ y < Radix /\ v \in Nat /\ v < Radix
      /\ Radix \in Nat \ {0}
  BY <1>1, WordFacts
<1>4. x * Radix + y = Radix * x + y /\ u * Radix + v = Radix * u + v
  BY <1>3
<1>5. Radix * x + y = Radix * u + v
  BY <1>2, <1>4
<1>6. (Radix * x + y) \div Radix = x /\ (Radix * x + y) % Radix = y
  BY <1>3, DivisionIs
<1>7. (Radix * u + v) \div Radix = u /\ (Radix * u + v) % Radix = v
  BY <1>3, DivisionIs
<1>8. x = u /\ y = v
  BY <1>5, <1>6, <1>7, Zenon
<1> QED BY <1>8 DEF x, y, u, v

\* The sums of a frame and of its body.
LEMMA SumOfBody ==
  ASSUME NEW body, NEW frame, BodyOf(body, frame), NEW h \in Nat, Len(frame) = 2 * h
  PROVE  /\ h >= 4 /\ h - 1 \in Nat /\ h - 2 \in Nat
         /\ WordSum(frame, h - 1) = ToWord(frame, 0) + WordSum(body, h - 2)
         /\ Checksum(body) = WordSum(body, h - 2) % Word
         /\ ToWord(body, Len(body) - 2) = ToWord(frame, 2 * h - 2)
<1>1. /\ body \in Seq(Bytes) /\ frame \in Seq(Bytes) /\ Len(body) = 2 * h - 2
      /\ \A i \in 1..(2 * h - 2) : body[i] = frame[i + 2]
  BY DEF BodyOf
<1>2. h >= 4 /\ h - 1 \in Nat /\ h - 2 \in Nat /\ h - 1 = (h - 2) + 1
  BY DEF BodyOf
<1>3. ASSUME NEW i \in 1..(h - 1) PROVE ToWord(body, 2 * i - 2) = ToWord(frame, 2 * (i + 1) - 2)
  <2> DEFINE o == 2 * i - 2
             p == 2 * (i + 1) - 2
  <2>1. /\ o \in Nat /\ p = o + 2 /\ o + 2 <= 2 * h - 2
    BY <1>2
  <2> HIDE DEF o, p
  <2>2. /\ p \in Nat /\ Len(body) >= o + 2 /\ Len(frame) >= p + 2
        /\ o + 1 \in 1..(2 * h - 2) /\ o + 2 \in 1..(2 * h - 2)
        /\ (o + 1) + 2 = p + 1 /\ (o + 2) + 2 = p + 2
    BY <1>1, <1>2, <2>1
  <2>3. ToWord(body, o) = body[o + 1] * Radix + body[o + 2]
    BY <1>1, <2>1, <2>2, WordRead
  <2>4. ToWord(frame, p) = frame[p + 1] * Radix + frame[p + 2]
    BY <1>1, <2>2, WordRead
  <2>5. body[o + 1] = frame[p + 1] /\ body[o + 2] = frame[p + 2]
    BY <1>1, <2>2
  <2>6. ToWord(body, o) = ToWord(frame, p)
    BY <2>3, <2>4, <2>5, Zenon
  <2> QED BY <2>6 DEF o, p
<1> DEFINE n == h - 2
           f == [i \in 1..(n + 1) |-> ToWord(frame, 2 * i - 2)]
           g == [i \in 1..n |-> ToWord(body, 2 * i - 2)]
<1>4. n \in Nat /\ f \in [1..(n + 1) -> Nat] /\ g \in [1..n -> Nat]
  <2>1. n \in Nat /\ n + 1 \in Nat
    BY <1>2
  <2> HIDE DEF n
  <2> QED BY <1>1, <2>1, WordSumType
<1>5. \A i \in 1..n : g[i] = f[i + 1]
  <2>1. \A i \in 1..n : i \in 1..(h - 1) /\ i + 1 \in 1..(n + 1)
    BY <1>2
  <2> QED BY <1>3, <2>1
<1>6. f[1] = ToWord(frame, 0)
  <2>1. 1 \in 1..(n + 1) /\ 2 * 1 - 2 = 0
    BY <1>2
  <2> QED BY <2>1
<1>7. WordSum(frame, h - 1) = SumFunction(f) /\ WordSum(body, h - 2) = SumFunction(g)
  <2>1. h - 1 = n + 1
    BY <1>2
  <2>2. WordSum(frame, n + 1) = SumFunction(f) /\ WordSum(body, n) = SumFunction(g)
    BY DEF WordSum
  <2> QED BY <2>1, <2>2
<1>8. SumFunction(f) = f[1] + SumFunction(g)
  <2>1. f \in [1..(n + 1) -> Int] /\ g \in [1..n -> Int]
    BY <1>4
  <2> HIDE DEF f, g, n
  <2> QED BY <1>4, <1>5, <2>1, SumFirst
<1>9. Checksum(body) = WordSum(body, h - 2) % Word
  <2>1. Even(Len(body) - 2) \div 2 = h - 2
    <3>1. Len(body) - 2 = 2 * (h - 2) + 0
      BY <1>1, <1>2
    <3>2. (2 * (h - 2) + 0) % 2 = 0 /\ (2 * (h - 2) + 0) \div 2 = h - 2
      BY <1>2, DivisionIs
    <3>3. Even(Len(body) - 2) = Len(body) - 2
      BY <1>1, <1>2, <3>1, <3>2 DEF Even
    <3> QED BY <3>1, <3>2, <3>3
  <2> QED BY <2>1 DEF Checksum, WordSum
<1>10. ToWord(body, Len(body) - 2) = ToWord(frame, 2 * h - 2)
  <2>1. h - 1 \in 1..(h - 1) /\ 2 * (h - 1) - 2 = Len(body) - 2 /\ 2 * ((h - 1) + 1) - 2 = 2 * h - 2
    BY <1>1, <1>2
  <2> QED BY <1>3, <2>1
<1> QED BY <1>2, <1>6, <1>7, <1>8, <1>9, <1>10

\* The words of the frame of a message.
LEMMA FrameWords ==
  ASSUME NEW m \in Messages, Fits(m)
  PROVE  /\ Frame(m) \in Seq(Bytes) /\ Len(Frame(m)) \in 8..(Word - 1)
         /\ \E h \in Nat : /\ Len(Frame(m)) = 2 * h /\ h >= 4 /\ Len(Frame(m)) \div 2 = h
                           /\ ToWord(Frame(m), 2 * h - 2) = WordSum(Frame(m), h - 1) % Word
         /\ ToWord(Frame(m), 0) = Len(Frame(m)) /\ Holds(Frame(m), 0, BigEndian(Len(Frame(m)), 2))
<1> DEFINE F == Frame(m)
           L == 8 + DataListSize(m.items)
<1>1. Framed(m, L)
  BY FrameIs
<1>2. /\ L \in 8..(Word - 1) /\ L % 2 = 0 /\ F \in Seq(Bytes) /\ Len(F) = L
      /\ Holds(F, 0, BigEndian(L, 2)) /\ ToWord(F, L - 2) = WordSum(F, (L \div 2) - 1) % Word
  BY <1>1 DEF Framed
<1> HIDE DEF F, L
<1>3. L \in Nat /\ L < Word
  BY <1>2, WordFacts
<1>4. /\ L \div 2 \in Nat /\ L = 2 * (L \div 2) /\ L \div 2 >= 4
  BY <1>2, <1>3
<1>5. ToWord(F, 0) = L
  BY <1>2, <1>3, WordIsRead
<1> QED BY <1>2, <1>4, <1>5 DEF F

\* A response is accepted when its words add up to less than a word can hold.
LEMMA SumIsRight ==
  ASSUME NEW m \in Messages, Fits(m), NEW body, BodyOf(body, Frame(m)), SumOf(m) < Word
  PROVE  ~InvalidChecksum(body, Len(Frame(m)))
<1> DEFINE F == Frame(m)
           L == Len(F)
<1>1. /\ F \in Seq(Bytes) /\ L \in 8..(Word - 1) /\ ToWord(F, 0) = L
  BY FrameWords
<1>2. PICK h \in Nat : /\ L = 2 * h /\ h >= 4 /\ L \div 2 = h
                       /\ ToWord(F, 2 * h - 2) = WordSum(F, h - 1) % Word
  BY FrameWords
<1>3. SumOf(m) = WordSum(F, (L \div 2) - 1)
  BY DEF SumOf, WordSum
<1>4. BodyOf(body, F)
  OBVIOUS
<1>5. InvalidChecksum(body, L) <=> L + Checksum(body) # ToWord(body, Len(body) - 2)
  BY DEF InvalidChecksum
<1> HIDE DEF F, L
<1>6. /\ h - 1 \in Nat /\ h - 2 \in Nat
      /\ WordSum(F, h - 1) = ToWord(F, 0) + WordSum(body, h - 2)
      /\ Checksum(body) = WordSum(body, h - 2) % Word
      /\ ToWord(body, Len(body) - 2) = ToWord(F, 2 * h - 2)
  BY <1>2, <1>4, SumOfBody DEF L
<1>7. WordSum(body, h - 2) \in Nat /\ WordSum(F, h - 1) \in Nat /\ body \in Seq(Bytes)
  BY <1>1, <1>4, <1>6, WordSumType DEF BodyOf
<1> DEFINE X == WordSum(F, h - 1)
           S == WordSum(body, h - 2)
<1>8. X = L + S /\ X < Word /\ X \in Nat /\ S \in Nat /\ L \in Nat /\ Word \in Nat
  BY <1>1, <1>2, <1>3, <1>6, <1>7, WordFacts
<1>8a. Checksum(body) = S % Word /\ ToWord(body, Len(body) - 2) = X % Word
  BY <1>2, <1>6
<1> HIDE DEF X, S
<1>9. S < Word
  BY <1>8
<1>10. S % Word = S /\ X % Word = X
  BY <1>8, <1>9, SmallRemainder
<1>11. L + Checksum(body) = ToWord(body, Len(body) - 2)
  BY <1>8, <1>8a, <1>10
<1>12. ~InvalidChecksum(body, L)
  BY <1>5, <1>11
<1> QED BY <1>12 DEF L, F

\* One byte after the length word has changed.
ByteChanged(frame, F, k) ==
  /\ frame \in Seq(Bytes) /\ F \in Seq(Bytes) /\ Len(frame) = Len(F) /\ k \in 3..Len(F)
  /\ frame[k] # F[k] /\ \A j \in 1..Len(F) : j # k => frame[j] = F[j]

\* Then one word has changed, and only that one.
LEMMA WordChanged ==
  ASSUME NEW frame, NEW F, NEW k, ByteChanged(frame, F, k), NEW h \in Nat, Len(F) = 2 * h
  PROVE  \E j \in 2..h :
           /\ ToWord(frame, 2 * j - 2) # ToWord(F, 2 * j - 2)
           /\ \A i \in 1..h : i # j => ToWord(frame, 2 * i - 2) = ToWord(F, 2 * i - 2)
<1>1. /\ frame \in Seq(Bytes) /\ F \in Seq(Bytes) /\ Len(frame) = 2 * h /\ k \in 3..(2 * h)
      /\ frame[k] # F[k] /\ \A i \in 1..(2 * h) : i # k => frame[i] = F[i]
  BY DEF ByteChanged
<1>2. PICK j \in 2..h : k = 2 * j - 1 \/ k = 2 * j
  <2>1. (k + 1) \div 2 \in 2..h /\ (k = 2 * ((k + 1) \div 2) - 1 \/ k = 2 * ((k + 1) \div 2))
    BY <1>1
  <2> QED BY <2>1
<1>3. ToWord(frame, 2 * j - 2) # ToWord(F, 2 * j - 2)
  <2> DEFINE o == 2 * j - 2
  <2>1. /\ o \in Nat /\ Len(frame) >= o + 2 /\ Len(F) >= o + 2 /\ (k = o + 1 \/ k = o + 2)
    BY <1>1, <1>2
  <2> HIDE DEF o
  <2>2. ToWord(frame, o) = ToWord(F, o) => frame[o + 1] = F[o + 1] /\ frame[o + 2] = F[o + 2]
    BY <1>1, <2>1, WordsDiffer
  <2>3. ToWord(frame, o) # ToWord(F, o)
    BY <1>1, <2>1, <2>2
  <2> QED BY <2>3 DEF o
<1>4. ASSUME NEW i \in 1..h, i # j PROVE ToWord(frame, 2 * i - 2) = ToWord(F, 2 * i - 2)
  <2> DEFINE o == 2 * i - 2
  <2>1. /\ o \in Nat /\ o + 1 \in 1..(2 * h) /\ o + 2 \in 1..(2 * h)
        /\ o + 1 # k /\ o + 2 # k
    BY <1>2, <1>4
  <2> HIDE DEF o
  <2>2. Len(frame) >= o + 2 /\ Len(F) >= o + 2
    BY <1>1, <2>1
  <2>3. ToWord(frame, o) = frame[o + 1] * Radix + frame[o + 2]
    BY <1>1, <2>1, <2>2, WordRead
  <2>4. ToWord(F, o) = F[o + 1] * Radix + F[o + 2]
    BY <1>1, <2>1, <2>2, WordRead
  <2>5. frame[o + 1] = F[o + 1] /\ frame[o + 2] = F[o + 2]
    BY <1>1, <2>1
  <2>6. ToWord(frame, o) = ToWord(F, o)
    BY <2>3, <2>4, <2>5, Zenon
  <2> QED BY <2>6 DEF o
<1> QED BY <1>3, <1>4

\* A response with one changed byte is invalid.
LEMMA ChangeIsSeen ==
  ASSUME NEW m \in Messages, Fits(m), NEW frame, NEW k, ByteChanged(frame, Frame(m), k),
         NEW body, BodyOf(body, frame)
  PROVE  InvalidChecksum(body, Len(Frame(m)))
<1> DEFINE F == Frame(m)
           L == Len(F)
<1>1. /\ F \in Seq(Bytes) /\ L \in 8..(Word - 1) /\ ToWord(F, 0) = L
  BY FrameWords
<1>2. PICK h \in Nat : /\ L = 2 * h /\ h >= 4 /\ L \div 2 = h
                       /\ ToWord(F, 2 * h - 2) = WordSum(F, h - 1) % Word
  BY FrameWords
<1>3. ByteChanged(frame, F, k)
  OBVIOUS
<1>4. InvalidChecksum(body, L) <=> L + Checksum(body) # ToWord(body, Len(body) - 2)
  BY DEF InvalidChecksum
<1>5. frame \in Seq(Bytes) /\ Len(frame) = 2 * h /\ Len(F) = 2 * h /\ body \in Seq(Bytes)
  BY <1>2, <1>3 DEF ByteChanged, BodyOf
<1> HIDE DEF F, L
<1>6. PICK j \in 2..h :
             /\ ToWord(frame, 2 * j - 2) # ToWord(F, 2 * j - 2)
             /\ \A i \in 1..h : i # j => ToWord(frame, 2 * i - 2) = ToWord(F, 2 * i - 2)
  BY <1>3, <1>5, WordChanged
<1>7. /\ h - 1 \in Nat /\ h - 2 \in Nat
      /\ WordSum(frame, h - 1) = ToWord(frame, 0) + WordSum(body, h - 2)
      /\ Checksum(body) = WordSum(body, h - 2) % Word
      /\ ToWord(body, Len(body) - 2) = ToWord(frame, 2 * h - 2)
  BY <1>5, SumOfBody
<1>8. ToWord(frame, 0) = L
  <2>1. 1 \in 1..h /\ 1 # j /\ 2 * 1 - 2 = 0
    BY <1>2
  <2>2. ToWord(frame, 2 * 1 - 2) = ToWord(F, 2 * 1 - 2)
    BY <1>6, <2>1
  <2> QED BY <1>1, <2>1, <2>2
<1> DEFINE X == WordSum(F, h - 1)
           Y == WordSum(frame, h - 1)
           S == WordSum(body, h - 2)
           c == ToWord(F, 2 * h - 2)
           d == ToWord(frame, 2 * h - 2)
<1>9. /\ X \in Nat /\ Y \in Nat /\ S \in Nat /\ Y = L + S /\ c = X % Word
      /\ Checksum(body) = S % Word /\ ToWord(body, Len(body) - 2) = d
  <2>1. X \in Nat /\ Y \in Nat /\ S \in Nat
    BY <1>1, <1>5, <1>7, WordSumType
  <2> QED BY <1>2, <1>7, <1>8, <2>1
<1>10. /\ d \in Nat /\ d < Word /\ c \in Nat /\ Word \in Nat \ {0} /\ L \in Nat
  <2>1. 2 * h - 2 \in Nat
    BY <1>2
  <2>2. d \in Nat /\ d < Word /\ c \in Nat
    BY <1>1, <1>5, <2>1, WordRead
  <2> QED BY <1>1, <2>2, WordFacts
<1>11. h = j => c # d /\ X = Y
  <2> SUFFICES ASSUME h = j PROVE c # d /\ X = Y
    OBVIOUS
  <2>1. c # d
    BY <1>6
  <2>2. ASSUME NEW i \in 1..(h - 1) PROVE ToWord(F, 2 * i - 2) = ToWord(frame, 2 * i - 2)
    <3>1. i \in 1..h /\ i # j
      BY <1>2
    <3> QED BY <1>6, <3>1
  <2>3. [i \in 1..(h - 1) |-> ToWord(F, 2 * i - 2)] = [i \in 1..(h - 1) |-> ToWord(frame, 2 * i - 2)]
    BY <2>2
  <2>4. X = Y
    BY <2>3 DEF WordSum
  <2> QED BY <2>1, <2>4
<1>12. h # j => c = d /\ X # Y /\ Y - X < Word /\ X - Y < Word
  <2> SUFFICES ASSUME h # j PROVE c = d /\ X # Y /\ Y - X < Word /\ X - Y < Word
    OBVIOUS
  <2>1. h \in 1..h /\ j \in 1..(h - 1)
    BY <1>2
  <2>2. c = d
    BY <1>6, <2>1
  <2> DEFINE n == h - 1
             f == [i \in 1..n |-> ToWord(F, 2 * i - 2)]
             g == [i \in 1..n |-> ToWord(frame, 2 * i - 2)]
             u == ToWord(F, 2 * j - 2)
             v == ToWord(frame, 2 * j - 2)
  <2>3. X = SumFunction(f) /\ Y = SumFunction(g) /\ f[j] = u /\ g[j] = v
    BY <2>1 DEF WordSum
  <2>4. f \in [1..n -> Int] /\ g \in [1..n -> Int] /\ n \in Nat
    <3>1. n \in Nat
      BY <1>7
    <3>2. f \in [1..n -> Nat] /\ g \in [1..n -> Nat]
      <4> HIDE DEF n
      <4> QED BY <1>1, <1>5, <3>1, WordSumType
    <3> QED BY <3>1, <3>2
  <2>5. \A i \in 1..n : i # j => g[i] = f[i]
    <3>1. \A i \in 1..n : i \in 1..h
      BY <1>2
    <3> QED BY <1>6, <3>1
  <2>6. u # v /\ u \in Nat /\ u < Word /\ v \in Nat /\ v < Word
    <3>1. 2 * j - 2 \in Nat
      BY <1>6
    <3> QED BY <1>1, <1>5, <1>6, <3>1, WordRead
  <2>7. j \in 1..n
    BY <2>1
  <2> HIDE DEF f, g, u, v, n
  <2>8. SumFunction(g) - SumFunction(f) = g[j] - f[j]
    BY <2>4, <2>5, <2>7, SumChange
  <2>9. Y - X = v - u
    BY <2>3, <2>8
  <2> HIDE DEF X, Y, c, d
  <2> QED BY <1>9, <1>10, <2>2, <2>6, <2>9
<1> HIDE DEF X, Y, S, c, d
<1>13. SUFFICES ASSUME L + Checksum(body) = ToWord(body, Len(body) - 2) PROVE FALSE
  <2>1. InvalidChecksum(body, L) => InvalidChecksum(body, Len(Frame(m)))
    BY DEF L, F
  <2> QED BY <1>4, <2>1
<1>14. d = L + (S % Word)
  BY <1>9, <1>13
<1> DEFINE q == S \div Word
           p == X \div Word
           r == S % Word
<1>15. S = Word * q + r /\ q \in Nat /\ r \in Nat
  BY <1>9, <1>10, Division
<1>16. X = Word * p + c /\ p \in Nat
  BY <1>9, <1>10, Division
<1>18. d = L + r
  BY <1>14
<1> HIDE DEF p, q, r
<1>17. Word * q \in Nat /\ Word * p \in Nat
  BY <1>10, <1>15, <1>16
<1>19. Y = Word * q + d
  BY <1>9, <1>10, <1>15, <1>17, <1>18
<1>20. CASE h = j
  <2>1. Word * p + c = Word * q + d /\ c # d
    BY <1>11, <1>16, <1>19, <1>20
  <2>2. (Word * q + d) % Word = d
    BY <1>10, <1>15, DivisionIs
  <2>3. X % Word = d
    BY <1>11, <1>19, <1>20, <2>2
  <2> QED BY <1>9, <2>1, <2>3
<1>21. CASE h # j
  <2>1. c = d /\ X # Y /\ Y - X < Word /\ X - Y < Word
    BY <1>12, <1>21
  <2> DEFINE a == Word * q
             b == Word * p
  <2>2. a \in Nat /\ b \in Nat /\ Y = a + d /\ X = b + c
    BY <1>16, <1>17, <1>19
  <2> HIDE DEF a, b
  <2>3. a - b < Word /\ b - a < Word /\ a # b
    BY <1>10, <2>1, <2>2
  <2>4. p = q
    BY <1>10, <1>15, <1>16, <2>3, NearMultiples DEF a, b
  <2> QED BY <2>3, <2>4 DEF a, b
<1> QED BY <1>20, <1>21

-----------------------------------------------------------------------------
(* The list of user defined values that the client keeps.                     *)

UserSlots == [name : Nat \cup Seq(Bytes), type : ItemTypes, value : Nat \cup Seq(Bytes)]
UserType(u) == /\ u \in Seq(UserSlots)
               /\ \A i \in 1..Len(u) : u[i].type = (IF i = 1 THEN "u16" ELSE "f32")

LEMMA NamesType ==
  ASSUME NEW body \in Seq(Bytes)
  PROVE  /\ EntriesToDataList(body, "GET_USER_DEFINED_VALUE_LIST", 6) \in Seq(AnyItems) \ {<<>>}
         /\ ToDataList(body, "GET_USER_DEFINED_VALUE_LIST", "OK")
              = EntriesToDataList(body, "GET_USER_DEFINED_VALUE_LIST", 6)
<1> DEFINE r == EntriesToDataList(body, "GET_USER_DEFINED_VALUE_LIST", 6)
<1>1. r \in Seq(AnyItems) \ {<<>>}
  <2>1. \E f \in [0..ToWord(body, 4) -> EntryStates] : r = f[ToWord(body, 4)].list
    <3>1. \E f \in [0..ToWord(body, 4) -> EntryStates] :
             /\ f[0] = [at |-> 6, list |-> <<[type |-> "u16", value |-> ToWord(body, 4)]>>]
             /\ \A n \in 1..ToWord(body, 4) :
                   f[n] = EntryStep(body, "GET_USER_DEFINED_VALUE_LIST", 6, f[n - 1])
             /\ EntriesToDataList(body, "GET_USER_DEFINED_VALUE_LIST", 6) = f[ToWord(body, 4)].list
      BY NamesRun
    <3> QED BY <3>1
  <2>2. 4 \in Nat /\ ToWord(body, 4) \in Nat
    BY WordRead
  <2> HIDE DEF r
  <2>3. PICK f \in [0..ToWord(body, 4) -> EntryStates] : r = f[ToWord(body, 4)].list
    BY <2>1
  <2>4. f[ToWord(body, 4)] \in EntryStates
    BY <2>2
  <2> QED BY <2>3, <2>4 DEF EntryStates
<1>2. ~("GET_USER_DEFINED_VALUE_LIST" \in DOMAIN OkResponse)
  BY DEF OkResponse
<1>3. ToDataList(body, "GET_USER_DEFINED_VALUE_LIST", "OK") = r
  BY <1>2 DEF ToDataList
<1> QED BY <1>1, <1>3 DEF r

\* The values that follow a list of names.
LEMMA UserIsDefined ==
  ASSUME NEW list \in Seq(AnyItems), Len(list) >= 1, NEW want \in Nat,
         Len(list) = 2 * want + 1 \/ Len(list) = 2 * want + 2
  PROVE  LET u == DefineUser(list)
         IN  /\ UserType(u) /\ Len(u) = want + 1
             /\ \A j \in 1..want :
                  u[j + 1] = [name |-> list[2 * j + 1].value, type |-> "f32", value |-> 0]
<1> DEFINE x == [name |-> <<>>, type |-> "u16", value |-> list[1].value]
           Slot(j) == [name |-> list[2 * j + 1].value, type |-> "f32", value |-> 0]
           a == <<x>>
           b == [j \in 1..want |-> Slot(j)]
           u == a \o b
<1>1. DefineUser(list) = u
  <2>1. (Len(list) - 1) \div 2 = want
    OBVIOUS
  <2> QED BY <2>1 DEF DefineUser
<1>2. \A k \in 1..Len(list) : list[k].value \in Nat \cup Seq(Bytes)
  <2>1. \A k \in 1..Len(list) : list[k] \in AnyItems
    BY ElementOfSeq
  <2> QED BY <2>1 DEF AnyItems
<1>3. x \in UserSlots /\ x.type = "u16"
  <2>1. 1 \in 1..Len(list) /\ <<>> \in Seq(Bytes)
    BY LenProperties, EmptySeq
  <2> QED BY <1>2, <2>1 DEF UserSlots, ItemTypes
<1>4. ASSUME NEW j \in 1..want PROVE Slot(j) \in UserSlots
  <2>1. 2 * j + 1 \in 1..Len(list)
    OBVIOUS
  <2> QED BY <1>2, <2>1 DEF UserSlots, ItemTypes
<1>5. b \in Seq(UserSlots) /\ Len(b) = want /\ \A j \in 1..want : b[j] = Slot(j)
  <2>1. b \in [1..want -> UserSlots] /\ \A j \in 1..want : b[j] = Slot(j)
    BY <1>4
  <2> HIDE DEF b, Slot
  <2> QED BY <2>1, ListIs
<1>6. a \in Seq(UserSlots) /\ Len(a) = 1 /\ a[1] = x
  <2> HIDE DEF x
  <2> QED BY <1>3
<1> HIDE DEF a, b, x, Slot
<1>7. /\ u \in Seq(UserSlots) /\ Len(u) = Len(a) + Len(b)
      /\ \A i \in 1..(Len(a) + Len(b)) : u[i] = IF i <= Len(a) THEN a[i] ELSE b[i - Len(a)]
  BY <1>5, <1>6, ConcatProperties
<1> HIDE DEF u
<1>8. Len(u) = want + 1 /\ u[1] = x
  BY <1>5, <1>6, <1>7
<1>9. ASSUME NEW j \in 1..want PROVE u[j + 1] = Slot(j)
  <2>1. j + 1 \in 1..(Len(a) + Len(b)) /\ ~(j + 1 <= Len(a)) /\ (j + 1) - Len(a) = j
    BY <1>5, <1>6
  <2> QED BY <1>5, <1>7, <2>1
<1>10. ASSUME NEW i \in 1..Len(u) PROVE u[i].type = (IF i = 1 THEN "u16" ELSE "f32")
  <2>1. CASE i = 1
    BY <1>3, <1>8, <2>1
  <2>2. CASE i # 1
    <3>1. i - 1 \in 1..want /\ (i - 1) + 1 = i
      BY <1>8, <2>2
    <3>2. u[i] = Slot(i - 1)
      BY <1>9, <3>1
    <3> QED BY <2>2, <3>2 DEF Slot
  <2> QED BY <2>1, <2>2
<1>11. UserType(u)
  BY <1>7, <1>10 DEF UserType
<1> QED BY <1>1, <1>8, <1>9, <1>11 DEF Slot

LEMMA SlotsOfUser == Slots(UserSlots)
BY DEF Slots, UserSlots

\* Whatever the body holds, the types of the values stay as they are.
LEMMA UserAfterType ==
  ASSUME NEW body \in Seq(Bytes), NEW cmd, NEW status, UserType(user)
  PROVE  UserType(UserAfter(body, cmd, status))
<1>1. CASE status = "OK" /\ cmd = "GET_USER_DEFINED_VALUE_LIST"
  <2> DEFINE l == ToDataList(body, cmd, status)
  <2>1. UserAfter(body, cmd, status) = DefineUser(l)
    BY <1>1 DEF UserAfter
  <2>2. l \in Seq(AnyItems) /\ l # <<>>
    BY <1>1, NamesType
  <2> HIDE DEF l
  <2>3. Len(l) >= 1 /\ Len(l) \in Nat
    BY <2>2, EmptySeq, LenProperties
  <2>4. PICK want \in Nat : Len(l) = 2 * want + 1 \/ Len(l) = 2 * want + 2
    <3>1. (Len(l) - 1) \div 2 \in Nat
          /\ (Len(l) = 2 * ((Len(l) - 1) \div 2) + 1 \/ Len(l) = 2 * ((Len(l) - 1) \div 2) + 2)
      BY <2>3
    <3> QED BY <3>1
  <2>5. UserType(DefineUser(l))
    BY <2>2, <2>3, <2>4, UserIsDefined
  <2> QED BY <2>1, <2>5
<1>2. CASE status = "OK" /\ cmd = "GET_USER_DEFINED_VALUE"
  <2> DEFINE u == BodyToDataList(body, 4, user)
  <2>1. UserAfter(body, cmd, status) = u
    BY <1>2 DEF UserAfter
  <2>2. user \in Seq(UserSlots) /\ 4 \in Nat /\ Slots(UserSlots)
    BY SlotsOfUser DEF UserType
  <2>3. /\ u \in Seq(UserSlots) /\ Len(u) = Len(user)
        /\ \A n \in 1..Len(user) :
             \/ u[n] = user[n]
             \/ \E v \in Nat \cup Seq(Bytes) : u[n] = [user[n] EXCEPT !.value = v]
    <3>1. KeepsItems(u, user, UserSlots)
      BY <2>2, BodyKeepsItems
    <3> QED BY <3>1 DEF KeepsItems
  <2> HIDE DEF u
  <2>4. ASSUME NEW n \in 1..Len(u) PROVE u[n].type = (IF n = 1 THEN "u16" ELSE "f32")
    <3>1. n \in 1..Len(user) /\ user[n].type = (IF n = 1 THEN "u16" ELSE "f32")
      BY <2>3 DEF UserType
    <3>2. user[n] \in UserSlots
      BY <2>2, <3>1, ElementOfSeq
    <3>3. ASSUME NEW v PROVE [user[n] EXCEPT !.value = v].type = user[n].type
      BY <3>2 DEF UserSlots
    <3>4. u[n].type = user[n].type
      BY <2>3, <3>1, <3>3
    <3> QED BY <3>1, <3>4
  <2>5. UserType(u)
    BY <2>3, <2>4 DEF UserType
  <2> QED BY <2>1, <2>5
<1>3. CASE ~(status = "OK" /\ cmd = "GET_USER_DEFINED_VALUE_LIST")
           /\ ~(status = "OK" /\ cmd = "GET_USER_DEFINED_VALUE")
  <2>1. UserAfter(body, cmd, status) = user
    BY <1>3 DEF UserAfter
  <2> QED BY <2>1
<1> QED BY <1>1, <1>2, <1>3

-----------------------------------------------------------------------------
(* The types of the variables.                                                *)

Sendable == {m \in Messages : Fits(m)}
TypeInv ==
  /\ wire \in Seq(Bytes) /\ phase \in {"length", "body", "closed"}
  /\ length \in {0} \cup 8..(Word - 1) /\ (phase = "body" <=> length # 0)
  /\ UserType(user) /\ damaged \in {"none", "body", "length"}
  /\ sent \in Seq(Sendable) /\ \E S : read \in Seq(S)

\* A list of which nothing is said but that it is one stays one.
LEMMA AppendAny ==
  ASSUME NEW s, \E S : s \in Seq(S), NEW x
  PROVE  /\ \E S : Append(s, x) \in Seq(S)
         /\ Len(s) \in Nat /\ DOMAIN s = 1..Len(s)
         /\ Len(Append(s, x)) = Len(s) + 1 /\ Append(s, x)[Len(s) + 1] = x
         /\ \A i \in 1..Len(s) : Append(s, x)[i] = s[i]
<1>1. PICK S : s \in Seq(S)
  OBVIOUS
<1> DEFINE T == S \cup {x}
<1>2. s \in Seq(T) /\ Len(s) \in Nat
  <2>1. s = [i \in 1..Len(s) |-> s[i]] /\ Len(s) \in Nat /\ \A i \in 1..Len(s) : s[i] \in S
    BY <1>1, ElementOfSeq, LenProperties
  <2>2. s \in [1..Len(s) -> T]
    BY <2>1
  <2> HIDE DEF T
  <2> QED BY <2>1, <2>2, ListIs
<1>3. x \in T
  OBVIOUS
<1> HIDE DEF T
<1>4. /\ Append(s, x) \in Seq(T) /\ Len(Append(s, x)) = Len(s) + 1
      /\ Append(s, x)[Len(s) + 1] = x /\ \A i \in 1..Len(s) : Append(s, x)[i] = s[i]
  BY <1>2, <1>3, AppendProperties
<1>5. DOMAIN s = 1..Len(s)
  BY <1>2
<1> QED BY <1>2, <1>4, <1>5

\* The body that ReadBody takes, and what is left on the wire.
LEMMA BodyTaken ==
  ASSUME TypeInv, phase = "body", Len(wire) >= length - 2
  PROVE  /\ length \in 8..(Word - 1) /\ length \in Nat /\ length >= 8 /\ length < Word
         /\ SubSeq(wire, 1, length - 2) \in Seq(Bytes)
         /\ Len(SubSeq(wire, 1, length - 2)) = length - 2
         /\ \A i \in 1..(length - 2) : SubSeq(wire, 1, length - 2)[i] = wire[i]
         /\ SubSeq(wire, length - 1, Len(wire)) \in Seq(Bytes)
         /\ Len(SubSeq(wire, length - 1, Len(wire))) = Len(wire) - (length - 2)
         /\ \A i \in 1..(Len(wire) - (length - 2)) :
              SubSeq(wire, length - 1, Len(wire))[i] = wire[(length - 2) + i]
<1>1. length \in 8..(Word - 1) /\ wire \in Seq(Bytes) /\ Word \in Nat
  BY WordFacts DEF TypeInv
<1>2. length \in Nat /\ length >= 8 /\ length < Word /\ Len(wire) \in Nat
  BY <1>1, LenProperties
<1>3. /\ SubSeq(wire, 1, length - 2) \in Seq(Bytes)
      /\ Len(SubSeq(wire, 1, length - 2)) = length - 2
      /\ \A i \in 1..(length - 2) : SubSeq(wire, 1, length - 2)[i] = wire[i]
  <2> DEFINE n == length - 2
  <2>1. /\ 1 \in Nat \ {0} /\ n \in Nat /\ 1 <= n + 1 /\ n <= Len(wire) /\ n + 1 - 1 = n
        /\ \A i \in 1..n : 1 + i - 1 = i
    BY <1>2
  <2> HIDE DEF n
  <2>2. /\ SubSeq(wire, 1, n) \in Seq(Bytes) /\ Len(SubSeq(wire, 1, n)) = n
        /\ \A i \in 1..n : SubSeq(wire, 1, n)[i] = wire[i]
    BY <1>1, <2>1, Slice
  <2> QED BY <2>2 DEF n
<1>4. /\ SubSeq(wire, length - 1, Len(wire)) \in Seq(Bytes)
      /\ Len(SubSeq(wire, length - 1, Len(wire))) = Len(wire) - (length - 2)
      /\ \A i \in 1..(Len(wire) - (length - 2)) :
           SubSeq(wire, length - 1, Len(wire))[i] = wire[(length - 2) + i]
  <2> DEFINE m == length - 1
             n == Len(wire)
             k == Len(wire) - (length - 2)
  <2>1. /\ m \in Nat \ {0} /\ n \in Nat /\ m <= n + 1 /\ n <= Len(wire) /\ n + 1 - m = k
        /\ \A i \in 1..k : m + i - 1 = (length - 2) + i
    BY <1>2
  <2> HIDE DEF n, m, k
  <2>2. /\ SubSeq(wire, m, n) \in Seq(Bytes) /\ Len(SubSeq(wire, m, n)) = k
        /\ \A i \in 1..k : SubSeq(wire, m, n)[i] = wire[m + i - 1]
    BY <1>1, <2>1, Slice
  <2>3. \A i \in 1..k : SubSeq(wire, m, n)[i] = wire[(length - 2) + i]
    BY <2>1, <2>2
  <2> QED BY <2>2, <2>3 DEF n, m, k
<1> QED BY <1>1, <1>2, <1>3, <1>4

\* What ReadLength leaves on the wire.
LEMMA LengthTaken ==
  ASSUME wire \in Seq(Bytes), Len(wire) >= 2
  PROVE  /\ SubSeq(wire, 3, Len(wire)) \in Seq(Bytes)
         /\ Len(SubSeq(wire, 3, Len(wire))) = Len(wire) - 2
         /\ \A i \in 1..(Len(wire) - 2) : SubSeq(wire, 3, Len(wire))[i] = wire[i + 2]
<1> DEFINE n == Len(wire)
           k == Len(wire) - 2
<1>1. /\ 3 \in Nat \ {0} /\ n \in Nat /\ 3 <= n + 1 /\ n <= Len(wire) /\ n + 1 - 3 = k
      /\ \A i \in 1..k : 3 + i - 1 = i + 2
  BY LenProperties
<1> HIDE DEF n, k
<1>2. /\ SubSeq(wire, 3, n) \in Seq(Bytes) /\ Len(SubSeq(wire, 3, n)) = k
      /\ \A i \in 1..k : SubSeq(wire, 3, n)[i] = wire[3 + i - 1]
  BY <1>1, Slice
<1>3. \A i \in 1..k : SubSeq(wire, 3, n)[i] = wire[i + 2]
  BY <1>1, <1>2
<1> QED BY <1>2, <1>3 DEF n, k

\* What Respond puts on the wire and notes.
LEMMA FrameSent ==
  ASSUME TypeInv, NEW m \in Messages, Fits(m)
  PROVE  /\ wire \o Frame(m) \in Seq(Bytes) /\ m \in Sendable
         /\ Append(sent, m) \in Seq(Sendable) /\ Len(sent) \in Nat
         /\ Len(Append(sent, m)) = Len(sent) + 1 /\ Append(sent, m)[Len(sent) + 1] = m
         /\ \A i \in 1..Len(sent) : Append(sent, m)[i] = sent[i]
<1>1. wire \in Seq(Bytes) /\ Frame(m) \in Seq(Bytes) /\ m \in Sendable /\ sent \in Seq(Sendable)
  BY FrameWords DEF TypeInv, Sendable
<1>2. wire \o Frame(m) \in Seq(Bytes)
  BY <1>1, ConcatProperties
<1> QED BY <1>1, <1>2, AppendProperties, LenProperties

LEMMA TypeInit == Init => TypeInv
<1> SUFFICES ASSUME Init PROVE TypeInv
  OBVIOUS
<1>1. wire = <<>> /\ phase = "length" /\ length = 0 /\ read = <<>> /\ user = <<>> /\ sent = <<>>
      /\ damaged = "none"
  BY DEF Init
<1>2. <<>> \in Seq(Bytes) /\ <<>> \in Seq(UserSlots) /\ <<>> \in Seq(Sendable) /\ <<>> \in Seq({})
  BY EmptySeq
<1>3. UserType(user)
  <2>1. Len(<<>>) = 0 /\ \A i \in 1..0 : FALSE
    OBVIOUS
  <2> QED BY <1>1, <1>2, <2>1 DEF UserType
<1> QED BY <1>1, <1>2, <1>3 DEF TypeInv

LEMMA TypeStep ==
  ASSUME TypeInv, [Next]_vars
  PROVE  TypeInv'
<1>1. CASE Respond
  <2>1. PICK m \in Messages : Fits(m) /\ wire' = wire \o Frame(m) /\ sent' = Append(sent, m)
    BY <1>1 DEF Respond
  <2>2. wire' \in Seq(Bytes) /\ sent' \in Seq(Sendable)
    BY <2>1, FrameSent
  <2>3. UNCHANGED <<phase, length, read, user, damaged>>
    BY <1>1 DEF Respond
  <2> QED BY <2>2, <2>3 DEF TypeInv, UserType
<1>2. CASE Damage
  <2>1. PICK i \in DOMAIN wire, b \in Bytes : wire' = [wire EXCEPT ![i] = b]
    BY <1>2 DEF Damage
  <2>2. wire' \in Seq(Bytes)
    <3>1. wire \in Seq(Bytes)
      BY DEF TypeInv
    <3>2. wire = [j \in 1..Len(wire) |-> wire[j]] /\ \A j \in 1..Len(wire) : wire[j] \in Bytes
      BY <3>1, ElementOfSeq
    <3>3. wire \in [1..Len(wire) -> Bytes] /\ Len(wire) \in Nat
      BY <3>1, <3>2, LenProperties
    <3>4. [wire EXCEPT ![i] = b] \in [1..Len(wire) -> Bytes]
      BY <3>3
    <3> QED BY <2>1, <3>3, <3>4, ListIs
  <2>3. UNCHANGED <<phase, length, read, user, sent>> /\ damaged' \in {"none", "body", "length"}
    BY <1>2 DEF Damage
  <2> QED BY <2>2, <2>3 DEF TypeInv, UserType
<1>3. CASE ReadLength
  <2>1. /\ phase = "length" /\ Len(wire) >= 2 /\ wire' = SubSeq(wire, 3, Len(wire))
        /\ UNCHANGED <<read, user, sent, damaged>>
        /\ IF ToWord(wire, 0) >= 8
           THEN phase' = "body" /\ length' = ToWord(wire, 0)
           ELSE phase' = "closed" /\ length' = 0
    BY <1>3 DEF ReadLength
  <2>2. wire \in Seq(Bytes) /\ wire' \in Seq(Bytes)
    BY <2>1, LengthTaken DEF TypeInv
  <2>3. ToWord(wire, 0) \in Nat /\ ToWord(wire, 0) < Word /\ Word \in Nat
    BY <2>2, WordRead, WordFacts
  <2>4. /\ length' \in {0} \cup 8..(Word - 1) /\ phase' \in {"length", "body", "closed"}
        /\ (phase' = "body" <=> length' # 0)
    BY <2>1, <2>3
  <2> QED BY <2>1, <2>2, <2>4 DEF TypeInv, UserType
<1>4. CASE ReadBody
  <2> DEFINE body == SubSeq(wire, 1, length - 2)
             cmd == NameOf(Cmds, ToWord(body, 0))
             status == NameOf(Stats, ToWord(body, 2))
             r == [cmd |-> cmd, status |-> status, list |-> ToDataList(body, cmd, status),
                   invalid |-> InvalidChecksum(body, length)]
  <2>1. /\ phase = "body" /\ Len(wire) >= length - 2 /\ read' = Append(read, r)
        /\ user' = UserAfter(body, cmd, status) /\ wire' = SubSeq(wire, length - 1, Len(wire))
        /\ phase' = "length" /\ length' = 0 /\ sent' = sent /\ damaged' = damaged
    BY <1>4 DEF ReadBody
  <2>2. body \in Seq(Bytes) /\ wire' \in Seq(Bytes)
    BY <2>1, BodyTaken
  <2> HIDE DEF body, cmd, status, r
  <2>3. UserType(user')
    BY <2>1, <2>2, UserAfterType DEF TypeInv
  <2>4. \E S : read' \in Seq(S)
    BY <2>1, AppendAny DEF TypeInv
  <2> QED BY <2>1, <2>2, <2>3, <2>4 DEF TypeInv
<1>5. CASE BodyTimeout
  BY <1>5 DEF BodyTimeout, TypeInv, UserType
<1>6. CASE UNCHANGED vars
  BY <1>6 DEF vars, TypeInv, UserType
<1> QED BY <1>1, <1>2, <1>3, <1>4, <1>5, <1>6 DEF Next

\* Whatever bytes arrive, the client waits for messages of a legal length, and
\* the number of the user defined values and the values keep their types.
THEOREM FrameTypes == Spec => []TypeOK
<1>1. TypeInv => TypeOK
  <2> SUFFICES ASSUME TypeInv PROVE TypeOK
    OBVIOUS
  <2>1. user \in Seq(UserSlots) /\ \A i \in 1..Len(user) : user[i].type = (IF i = 1 THEN "u16" ELSE "f32")
    BY DEF TypeInv, UserType
  <2>2. DOMAIN user = 1..Len(user)
    BY <2>1
  <2> QED BY <2>1, <2>2 DEF TypeInv, TypeOK
<1>2. TypeInv /\ [Next]_vars => TypeInv'
  BY TypeStep
<1> QED BY <1>1, <1>2, TypeInit, PTL DEF Spec

-----------------------------------------------------------------------------
(* The stream: the frames of the messages one after another, of which the     *)
(* client has read a part.                                                    *)

\* The bytes sent so far, and where the frame of each message ends in them.
Carries(whole, P, s) ==
  /\ whole \in Seq(Bytes) /\ P \in [0..Len(s) -> Nat] /\ P[0] = 0 /\ P[Len(s)] = Len(whole)
  /\ \A n \in 1..Len(s) : /\ P[n] = P[n - 1] + Len(Frame(s[n]))
                          /\ Holds(whole, P[n - 1], Frame(s[n]))
\* The bytes w are those that follow a place.
Rest(w, whole, at) ==
  /\ w \in Seq(Bytes) /\ at \in Nat /\ Len(whole) = at + Len(w)
  /\ \A i \in 1..Len(w) : w[i] = whole[at + i]

LEMMA CarriesMore ==
  ASSUME NEW whole, NEW P, NEW s \in Seq(Sendable), Carries(whole, P, s),
         NEW m \in Messages, Fits(m)
  PROVE  \E Q : /\ Carries(whole \o Frame(m), Q, Append(s, m))
                /\ \A n \in 0..Len(s) : Q[n] = P[n]
<1> DEFINE N == Len(s)
           F == Frame(m)
           t == Append(s, m)
           more == whole \o F
           Q == [n \in 0..(N + 1) |-> IF n <= N THEN P[n] ELSE Len(whole) + Len(F)]
<1>1. /\ F \in Seq(Bytes) /\ whole \in Seq(Bytes) /\ N \in Nat /\ m \in Sendable
      /\ P \in [0..N -> Nat] /\ P[0] = 0 /\ P[N] = Len(whole)
      /\ \A n \in 1..N : P[n] = P[n - 1] + Len(Frame(s[n])) /\ Holds(whole, P[n - 1], Frame(s[n]))
  BY FrameWords, LenProperties DEF Carries, Sendable
<1>2. Len(t) = N + 1 /\ t[N + 1] = m /\ \A i \in 1..N : t[i] = s[i]
  BY <1>1, AppendProperties
<1>2a. \A n \in 1..N : Frame(s[n]) \in Seq(Bytes)
  <2>1. \A n \in 1..N : s[n] \in Messages /\ Fits(s[n])
    BY ElementOfSeq DEF Sendable
  <2> QED BY <2>1, FrameWords
<1> HIDE DEF N, F, t
<1>3. more \in Seq(Bytes) /\ Len(more) = Len(whole) + Len(F) /\ Len(whole) \in Nat /\ Len(F) \in Nat
  BY <1>1, ConcatProperties, LenProperties
<1>4. /\ Holds(more, Len(whole), F)
      /\ \A o \in Nat, c \in Seq(Bytes) : Holds(whole, o, c) => Holds(more, o, c)
  BY <1>1, HoldsPrefix
<1> HIDE DEF more
<1>5. /\ Q \in [0..(N + 1) -> Nat] /\ Q[0] = 0 /\ Q[N + 1] = Len(more)
      /\ \A n \in 0..N : Q[n] = P[n]
  BY <1>1, <1>3
<1> HIDE DEF Q
<1>6. ASSUME NEW n \in 1..(N + 1)
      PROVE  Q[n] = Q[n - 1] + Len(Frame(t[n])) /\ Holds(more, Q[n - 1], Frame(t[n]))
  <2>1. CASE n = N + 1
    <3>1. /\ n - 1 = N /\ N \in 0..N /\ t[n] = m /\ Frame(t[n]) = F
      BY <1>1, <1>2, <2>1 DEF F
    <3>2. Q[n - 1] = Len(whole) /\ Q[n] = Len(whole) + Len(F)
      BY <1>1, <1>3, <1>5, <2>1, <3>1
    <3> QED BY <1>4, <3>1, <3>2
  <2>2. CASE n # N + 1
    <3>1. n \in 1..N /\ n \in 0..N /\ n - 1 \in 0..N
      BY <1>1, <2>2
    <3>2. t[n] = s[n] /\ Q[n] = P[n] /\ Q[n - 1] = P[n - 1] /\ P[n - 1] \in Nat
      BY <1>1, <1>2, <1>5, <3>1
    <3>3. Holds(more, P[n - 1], Frame(s[n]))
      BY <1>1, <1>2a, <1>4, <3>1, <3>2
    <3> QED BY <1>1, <3>1, <3>2, <3>3
  <2> QED BY <2>1, <2>2
<1>7. Carries(more, Q, t)
  BY <1>2, <1>3, <1>5, <1>6 DEF Carries
<1>8. \E R : Carries(more, R, t) /\ \A n \in 0..N : R[n] = P[n]
  BY <1>5, <1>7
<1> QED BY <1>8 DEF more, t, F, N

LEMMA RestMore ==
  ASSUME NEW whole \in Seq(Bytes), NEW w, NEW at, Rest(w, whole, at), NEW f \in Seq(Bytes)
  PROVE  Rest(w \o f, whole \o f, at)
<1> DEFINE v == w \o f
           more == whole \o f
<1>1. /\ w \in Seq(Bytes) /\ at \in Nat /\ Len(whole) = at + Len(w)
      /\ Len(w) \in Nat /\ Len(f) \in Nat /\ \A i \in 1..Len(w) : w[i] = whole[at + i]
  BY LenProperties DEF Rest
<1>2. /\ v \in Seq(Bytes) /\ Len(v) = Len(w) + Len(f)
      /\ \A i \in 1..(Len(w) + Len(f)) : v[i] = IF i <= Len(w) THEN w[i] ELSE f[i - Len(w)]
  BY <1>1, ConcatProperties
<1>3. /\ Len(more) = Len(whole) + Len(f)
      /\ \A i \in 1..(Len(whole) + Len(f)) :
           more[i] = IF i <= Len(whole) THEN whole[i] ELSE f[i - Len(whole)]
  BY ConcatProperties
<1> HIDE DEF v, more
<1>4. ASSUME NEW i \in 1..(Len(w) + Len(f)) PROVE v[i] = more[at + i]
  <2>1. at + i \in 1..(Len(whole) + Len(f))
    BY <1>1
  <2>2. CASE i <= Len(w)
    <3>1. at + i <= Len(whole) /\ i \in 1..Len(w)
      BY <1>1, <2>2
    <3> QED BY <1>1, <1>2, <1>3, <2>1, <2>2, <3>1
  <2>3. CASE ~(i <= Len(w))
    <3>1. ~(at + i <= Len(whole)) /\ (at + i) - Len(whole) = i - Len(w)
      BY <1>1, <2>3
    <3> QED BY <1>2, <1>3, <2>1, <2>3, <3>1
  <2> QED BY <2>2, <2>3
<1>5. Len(more) = at + Len(v)
  BY <1>1, <1>2, <1>3
<1>6. Rest(v, more, at)
  BY <1>1, <1>2, <1>4, <1>5 DEF Rest
<1> QED BY <1>6 DEF v, more

LEMMA RestLess ==
  ASSUME NEW whole \in Seq(Bytes), NEW w, NEW at, Rest(w, whole, at),
         NEW n \in Nat, n <= Len(w), NEW v \in Seq(Bytes), Len(v) = Len(w) - n,
         \A i \in 1..(Len(w) - n) : v[i] = w[n + i]
  PROVE  Rest(v, whole, at + n)
<1>1. /\ w \in Seq(Bytes) /\ at \in Nat /\ Len(whole) = at + Len(w)
      /\ Len(w) \in Nat /\ \A i \in 1..Len(w) : w[i] = whole[at + i]
  BY LenProperties DEF Rest
<1>2. ASSUME NEW i \in 1..Len(v) PROVE v[i] = whole[(at + n) + i]
  <2>1. i \in 1..(Len(w) - n) /\ n + i \in 1..Len(w) /\ at + (n + i) = (at + n) + i
    BY <1>1
  <2> QED BY <1>1, <2>1
<1>3. at + n \in Nat /\ Len(whole) = (at + n) + Len(v)
  BY <1>1
<1> QED BY <1>2, <1>3 DEF Rest

LEMMA RestHolds ==
  ASSUME NEW whole \in Seq(Bytes), NEW w, NEW at, Rest(w, whole, at),
         NEW a \in Seq(Bytes), Holds(whole, at, a)
  PROVE  Holds(w, 0, a)
<1>1. /\ at \in Nat /\ Len(whole) = at + Len(w) /\ Len(w) \in Nat /\ Len(a) \in Nat
      /\ \A i \in 1..Len(w) : w[i] = whole[at + i]
  BY LenProperties DEF Rest
<1>2. at + Len(a) <= Len(whole) /\ \A i \in 1..Len(a) : whole[at + i] = a[i]
  BY DEF Holds
<1>3. 0 + Len(a) <= Len(w)
  BY <1>1, <1>2
<1>4. ASSUME NEW i \in 1..Len(a) PROVE w[0 + i] = a[i]
  <2>1. i \in 1..Len(w) /\ 0 + i = i
    BY <1>1, <1>3
  <2> QED BY <1>1, <1>2, <2>1
<1> QED BY <1>3, <1>4 DEF Holds

\* A length is read where a message starts.
LEMMA LengthArrives ==
  ASSUME NEW whole, NEW P, NEW s \in Seq(Sendable), Carries(whole, P, s),
         NEW r \in 0..Len(s), NEW w, Rest(w, whole, P[r]), Len(w) >= 2
  PROVE  /\ r < Len(s) /\ r + 1 \in 1..Len(s) /\ ToWord(w, 0) = Len(Frame(s[r + 1]))
         /\ ToWord(w, 0) >= 8
<1>1. /\ whole \in Seq(Bytes) /\ P \in [0..Len(s) -> Nat] /\ P[Len(s)] = Len(whole)
      /\ Len(s) \in Nat /\ w \in Seq(Bytes) /\ Len(whole) = P[r] + Len(w) /\ Len(w) \in Nat
  BY LenProperties DEF Carries, Rest
<1>2. r # Len(s)
  BY <1>1
<1>3. r < Len(s) /\ r + 1 \in 1..Len(s) /\ (r + 1) - 1 = r
  BY <1>1, <1>2
<1> DEFINE m == s[r + 1]
           L == Len(Frame(m))
<1>4. m \in Messages /\ Fits(m)
  BY <1>3, ElementOfSeq DEF Sendable
<1>5. Holds(whole, P[r], Frame(m))
  BY <1>3 DEF Carries
<1> HIDE DEF m
<1>6. /\ Frame(m) \in Seq(Bytes) /\ L \in 8..(Word - 1) /\ Holds(Frame(m), 0, BigEndian(L, 2))
  BY <1>4, FrameWords
<1>7. L \in Nat /\ L < Word /\ L >= 8 /\ P[r] \in Nat /\ P[r] + 0 = P[r]
  <2>1. P[r] \in Nat /\ P[r] + 0 = P[r]
    BY SMTT(40), <1>1
  <2> HIDE DEF L
  <2>2. L \in Nat /\ L < Word /\ L >= 8
    BY <1>6, WordFacts
  <2> QED BY <2>1, <2>2
<1> HIDE DEF L
<1>8. BigEndian(L, 2) \in Seq(Bytes)
  BY <1>7, DigitsOfWord
<1>9. Holds(whole, P[r] + 0, BigEndian(L, 2))
  BY <1>1, <1>5, <1>6, <1>7, <1>8, HoldsWithin
<1>10. Holds(w, 0, BigEndian(L, 2))
  BY <1>1, <1>7, <1>8, <1>9, RestHolds
<1>11. ToWord(w, 0) = L
  BY <1>1, <1>7, <1>10, WordIsRead
<1> QED BY <1>3, <1>7, <1>11 DEF L, m

\* A body that is read is all there, and is that of the message.
LEMMA BodyArrives ==
  ASSUME NEW whole, NEW P, NEW s \in Seq(Sendable), Carries(whole, P, s),
         NEW r \in 0..Len(s), r < Len(s), NEW w, Rest(w, whole, P[r] + 2)
  PROVE  /\ r + 1 \in 1..Len(s) /\ s[r + 1] \in Messages /\ Fits(s[r + 1])
         /\ P[r + 1] = P[r] + Len(Frame(s[r + 1])) /\ P[r] \in Nat
         /\ Len(w) >= Len(Frame(s[r + 1])) - 2
         /\ \A body \in Seq(Bytes) :
              (/\ Len(body) = Len(Frame(s[r + 1])) - 2
               /\ \A i \in 1..(Len(Frame(s[r + 1])) - 2) : body[i] = w[i])
              => BodyOf(body, Frame(s[r + 1]))
<1>1. /\ whole \in Seq(Bytes) /\ P \in [0..Len(s) -> Nat] /\ Len(s) \in Nat
      /\ w \in Seq(Bytes) /\ Len(whole) = (P[r] + 2) + Len(w) /\ Len(w) \in Nat
      /\ \A i \in 1..Len(w) : w[i] = whole[(P[r] + 2) + i]
  BY LenProperties DEF Carries, Rest
<1>2. r + 1 \in 1..Len(s) /\ (r + 1) - 1 = r /\ P[r] \in Nat
  BY <1>1
<1> DEFINE F == Frame(s[r + 1])
<1>3. s[r + 1] \in Messages /\ Fits(s[r + 1])
  BY <1>2, ElementOfSeq DEF Sendable
<1>4. Holds(whole, P[r], F) /\ P[r + 1] = P[r] + Len(F)
  BY <1>2 DEF Carries
<1>5. F \in Seq(Bytes) /\ Len(F) \in 8..(Word - 1)
  BY <1>3, FrameWords
<1> HIDE DEF F
<1>6. Len(F) \in Nat /\ Len(F) >= 8
  BY <1>5, WordFacts
<1>7. /\ P[r] + Len(F) <= Len(whole) /\ \A i \in 1..Len(F) : whole[P[r] + i] = F[i]
  BY <1>4 DEF Holds
<1>8. Len(w) >= Len(F) - 2
  BY <1>1, <1>2, <1>6, <1>7
<1>9. ASSUME NEW body \in Seq(Bytes), Len(body) = Len(F) - 2,
             \A i \in 1..(Len(F) - 2) : body[i] = w[i]
      PROVE  BodyOf(body, F)
  <2>1. ASSUME NEW i \in 1..Len(body) PROVE body[i] = F[i + 2]
    <3>1. /\ i \in 1..(Len(F) - 2) /\ i \in 1..Len(w) /\ i + 2 \in 1..Len(F)
          /\ (P[r] + 2) + i = P[r] + (i + 2)
      <4> DEFINE a == Len(F)
                 b == Len(w)
                 c == P[r]
      <4>1. /\ a \in Nat /\ a >= 8 /\ b \in Nat /\ b >= a - 2 /\ c \in Nat /\ i \in 1..(a - 2)
        BY <1>1, <1>2, <1>6, <1>8, <1>9
      <4> HIDE DEF a, b, c
      <4>2. i \in 1..(a - 2) /\ i \in 1..b /\ i + 2 \in 1..a /\ (c + 2) + i = c + (i + 2)
        BY <4>1
      <4> QED BY <4>2 DEF a, b, c
    <3> QED BY <1>1, <1>7, <1>9, <3>1
  <2> QED BY <1>5, <1>6, <1>9, <2>1 DEF BodyOf
<1> QED BY <1>2, <1>3, <1>4, <1>8, <1>9 DEF F

-----------------------------------------------------------------------------
(* The invariant of the stream.                                               *)

Skipped == IF phase = "body" THEN 2 ELSE 0
Streaming ==
  /\ Len(read) <= Len(sent) /\ phase # "closed"
  /\ phase = "body" => Len(read) < Len(sent) /\ length = Len(Frame(sent[Len(read) + 1]))
  /\ \E whole, P : Carries(whole, P, sent) /\ Rest(wire, whole, P[Len(read)] + Skipped)

\* A response is the message that was sent.
ReadAsSent(r, m) ==
  /\ r.cmd = m.cmd /\ r.status = m.status
  /\ ~UserValues(m) => r.list = Kept(m)
  /\ SumOf(m) < Word => ~r.invalid
Reads == \A i \in 1..Len(read) : ReadAsSent(read[i], sent[i])

\* The user defined values after a list of names and after values for them.
Named(m, u) == UserList(m) => u = DefineUser(Kept(m))
Valued(m, n, u) == UserList(m) /\ UserValues(n) =>
  \A j \in 1..((Len(Kept(m)) - 1) \div 2) :
    /\ u[j + 1].name = m.items[2 * j + 1].value
    /\ u[j + 1].value = IF j < Len(n.items) THEN n.items[j + 1].value ELSE 0
UserNamed == Len(read) > 0 => Named(sent[Len(read)], user)
UserValued == Len(read) > 1 => Valued(sent[Len(read) - 1], sent[Len(read)], user)

Undamaged == Streaming /\ Reads /\ UserNamed /\ UserValued

\* A changed byte is on the way, or the response that had it is read.
Damaged ==
  /\ Len(sent) = 1
  /\ \/ /\ Len(read) = 0 /\ phase \in {"length", "body"}
        /\ \E frame, k : /\ ByteChanged(frame, Frame(sent[1]), k) /\ Rest(wire, frame, Skipped)
                         /\ phase = "body" => length = Len(frame)
     \/ Len(read) = 1 /\ read[1].invalid /\ phase = "length" /\ Len(wire) = 0

FrameInv == /\ TypeInv /\ (damaged = "none" => Undamaged) /\ (damaged = "body" => Damaged)

\* A value that is read finds its name.
LEMMA ValuesOfNames ==
  ASSUME NEW m \in Messages, UserList(m), NEW n \in Messages, UserValues(n),
         NEW b, Carried(b, m.items), NEW body, Carried(body, n.items)
  PROVE  Valued(m, n, BodyToDataList(body, 4, DefineUser(Kept(m))))
<1> DEFINE items == m.items
           of == n.items
           kept == Kept(m)
           u == DefineUser(kept)
           result == BodyToDataList(body, 4, u)
<1>1. items \in Lists(Entry["GET_USER_DEFINED_VALUE_LIST"])
  <2>1. m.cmd = "GET_USER_DEFINED_VALUE_LIST" /\ m.status = "OK"
    BY DEF UserList
  <2>2. m.items \in Payloads(m.cmd, m.status) /\ "GET_USER_DEFINED_VALUE_LIST" \in DOMAIN Entry
    BY MessageFields DEF Entry
  <2> QED BY <2>1, <2>2 DEF Payloads
<1>2. of \in Lists(<<"f32">>)
  <2>1. n.cmd = "GET_USER_DEFINED_VALUE" /\ n.status = "OK"
    BY DEF UserValues
  <2>2. n.items \in Payloads(n.cmd, n.status) /\ ~("GET_USER_DEFINED_VALUE" \in DOMAIN Entry)
    BY MessageFields DEF Entry
  <2> QED BY <2>1, <2>2 DEF Payloads
<1>3. Carried(b, items) /\ items \in Seq(ProperItems)
  BY DEF Carried
<1>3a. /\ Carried(body, of) /\ of \in Seq(ProperItems) /\ body \in Seq(Bytes) /\ Len(body) < Word
       /\ Len(body) = DataListSize(of) + 6 /\ Holds(body, 4, DataListToBody(of))
  BY DEF Carried
<1>4. kept = IF Len(items) > 1 /\ Last(items).value = <<>>
             THEN SubSeq(items, 1, Len(items) - 2) ELSE items
  BY DEF Kept
<1> HIDE DEF items, of, kept
<1>5. \E want \in Nat :
        /\ 2 * want + 1 <= Len(items)
        /\ (IF Len(items) > 1 /\ Last(items).value = <<>>
            THEN SubSeq(items, 1, Len(items) - 2) ELSE items)
             = [k \in 1..(2 * want + 1) |-> items[k]]
        /\ items[1].type = "u16" /\ \A j \in 1..want : items[2 * j + 1].type = "text"
  BY <1>1, <1>3, NameListRead
<1>6. PICK want \in Nat : /\ 2 * want + 1 <= Len(items)
                          /\ kept = [k \in 1..(2 * want + 1) |-> items[k]]
  BY <1>4, <1>5
<1>7. /\ kept \in Seq(AnyItems) /\ Len(kept) = 2 * want + 1
      /\ \A k \in 1..(2 * want + 1) : kept[k] = items[k]
  <2>1. ASSUME NEW k \in 1..(2 * want + 1) PROVE items[k] \in AnyItems
    <3>1. k \in 1..Len(items)
      BY <1>3, <1>6, LenProperties
    <3>2. items[k] \in ProperItems
      BY <1>3, <3>1, ElementOfSeq
    <3> QED BY <3>2, WordFacts, QuadFacts DEF ProperItems, AnyItems, ItemTypes
  <2>2. kept \in [1..(2 * want + 1) -> AnyItems] /\ 2 * want + 1 \in Nat
    BY <1>6, <2>1
  <2> QED BY <1>6, <2>2, ListIs
<1>8. /\ UserType(u) /\ Len(u) = want + 1
      /\ \A j \in 1..want :
           u[j + 1] = [name |-> kept[2 * j + 1].value, type |-> "f32", value |-> 0]
  <2>1. Len(kept) >= 1
    BY <1>7
  <2> QED BY <1>7, <2>1, UserIsDefined
<1> HIDE DEF u
<1>9. PICK size \in 0..(Word - 1) :
             /\ Len(of) = 1 + size /\ of[1].type = "u16"
             /\ \A i \in 1..size : of[i + 1].type = "f32"
  <2> DEFINE types == <<"f32">>
  <2>1. types \in Seq(ItemTypes) /\ Len(types) > 0 /\ Len(types) = 1 /\ types[1] = "f32"
    BY DEF ItemTypes
  <2> HIDE DEF types
  <2>2. of \in Lists(types)
    BY <1>2 DEF types
  <2>3. PICK size \in 0..(Word - 1) :
               /\ size * Len(types) \in Nat
               /\ Len(of) = 1 + size * Len(types) /\ of[1] = [type |-> "u16", value |-> size]
               /\ \A i \in 1..(size * Len(types)) : of[i + 1].type = Repeated(types, size)[i]
    BY <2>1, <2>2, ListsAre
  <2>4. size \in Nat /\ size * Len(types) = size
    BY <2>1, <2>3, WordFacts
  <2>5. ASSUME NEW i \in 1..size PROVE of[i + 1].type = "f32"
    <3>1. i \in 1..(size * Len(types)) /\ ((i - 1) % 1) + 1 = 1
      BY <2>4
    <3>2. Repeated(types, size)[i] = types[((i - 1) % Len(types)) + 1]
      BY <3>1 DEF Repeated
    <3> QED BY <2>1, <2>3, <3>1, <3>2
  <2>6. Len(of) = 1 + size /\ of[1].type = "u16"
    BY <2>3, <2>4
  <2>7. \A i \in 1..size : of[i + 1].type = "f32"
    BY <2>5
  <2> QED BY <2>6, <2>7, Zenon
<1>10. size \in Nat
  BY <1>9, WordFacts
<1> DEFINE K == IF size < want THEN size + 1 ELSE want + 1
<1>11. Readable(UserSlots, u, body, 4, of, K)
  <2>1. /\ K \in Nat /\ K <= Len(of) /\ K <= Len(u)
    BY <1>8, <1>9, <1>10
  <2>2. ASSUME NEW k \in 1..K PROVE u[k].type = of[k].type
    <3>1. k \in 1..Len(u) /\ k \in 1..Len(of)
      BY <1>8, <1>9, <1>10
    <3>2. u[k].type = (IF k = 1 THEN "u16" ELSE "f32")
      BY <1>8, <3>1 DEF UserType
    <3>3. of[k].type = (IF k = 1 THEN "u16" ELSE "f32")
      <4>1. CASE k = 1
        BY <1>9, <4>1
      <4>2. CASE k # 1
        <5>1. k - 1 \in 1..size /\ (k - 1) + 1 = k
          BY <1>9, <1>10, <3>1, <4>2
        <5>2. of[(k - 1) + 1].type = "f32"
          BY <1>9, <5>1
        <5> QED BY <4>2, <5>1, <5>2
      <4> QED BY <4>1, <4>2
    <3> QED BY <3>2, <3>3
  <2>3. ASSUME K < Len(u)
        PROVE  K = Len(of) /\ u[K + 1].type = "f32" /\ Len(body) <= 4 + DataListSize(of) + 2
    <3>1. size < want /\ K = size + 1 /\ K + 1 \in 1..Len(u) /\ K + 1 # 1
      BY <1>8, <1>10, <2>3
    <3>2. u[K + 1].type = "f32"
      BY <1>8, <3>1 DEF UserType
    <3>3. DataListSize(of) \in Nat
      BY <1>3a, ListAsBytes
    <3>4. Len(body) <= 4 + DataListSize(of) + 2
      BY <1>3a, <3>3
    <3> QED BY <1>9, <1>10, <3>1, <3>2, <3>4
  <2>4. u \in Seq(UserSlots) /\ 4 \in Nat
    BY <1>8 DEF UserType
  <2> HIDE DEF K
  <2> QED BY <1>3a, <2>1, <2>2, <2>3, <2>4, SlotsOfUser DEF Readable
<1>12. ReadTo(result, u, of, K)
  BY <1>11, ReadsOf
<1> HIDE DEF result
<1>13. ASSUME NEW j \in 1..want
       PROVE  /\ result[j + 1].name = items[2 * j + 1].value
              /\ result[j + 1].value = IF j < Len(of) THEN of[j + 1].value ELSE 0
  <2>1. /\ u[j + 1] = [name |-> items[2 * j + 1].value, type |-> "f32", value |-> 0]
    <3>1. 2 * j + 1 \in 1..(2 * want + 1)
      OBVIOUS
    <3> QED BY <1>7, <1>8, <3>1
  <2>2. CASE j < Len(of)
    <3>1. j + 1 \in 1..K
      BY <1>9, <1>10, <2>2
    <3>2. result[j + 1] = [u[j + 1] EXCEPT !.value = of[j + 1].value]
      BY <1>12, <3>1 DEF ReadTo
    <3> QED BY <2>1, <2>2, <3>2
  <2>3. CASE ~(j < Len(of))
    <3>1. j + 1 \in (K + 1)..Len(u)
      BY <1>8, <1>9, <1>10, <2>3
    <3>2. result[j + 1] = u[j + 1]
      BY <1>12, <3>1 DEF ReadTo
    <3> QED BY <2>1, <2>3, <3>2
  <2> QED BY <2>2, <2>3
<1>14. (Len(kept) - 1) \div 2 = want
  BY <1>7
<1>15. \A j \in 1..((Len(kept) - 1) \div 2) :
         /\ result[j + 1].name = items[2 * j + 1].value
         /\ result[j + 1].value = IF j < Len(of) THEN of[j + 1].value ELSE 0
  BY <1>13, <1>14
<1> QED BY <1>15 DEF Valued, result, u, kept, items, of

LEMMA HasBody ==
  ASSUME NEW m \in Messages, Fits(m)
  PROVE  \E b : BodyOf(b, Frame(m))
<1> DEFINE F == Frame(m)
           n == Len(F)
           b == SubSeq(F, 3, n)
<1>1. F \in Seq(Bytes) /\ n \in 8..(Word - 1)
  BY FrameWords
<1> HIDE DEF F
<1>2. n \in Nat /\ n >= 8
  BY <1>1, WordFacts
<1>3. /\ 3 \in Nat \ {0} /\ 3 <= n + 1 /\ n <= Len(F) /\ n + 1 - 3 = n - 2
      /\ \A i \in 1..(n - 2) : 3 + i - 1 = i + 2
  BY <1>2
<1> HIDE DEF n
<1>4. /\ b \in Seq(Bytes) /\ Len(b) = n - 2 /\ \A i \in 1..(n - 2) : b[i] = F[3 + i - 1]
  BY <1>1, <1>2, <1>3, Slice
<1>5. \A i \in 1..(n - 2) : b[i] = F[i + 2]
  BY <1>3, <1>4
<1> HIDE DEF b
<1>6. BodyOf(b, F)
  BY <1>1, <1>2, <1>4, <1>5 DEF BodyOf, n
<1> QED BY <1>6 DEF F

-----------------------------------------------------------------------------
(* The steps of the stream.                                                   *)

LEMMA FrameInit == Init => FrameInv
<1> SUFFICES ASSUME Init PROVE FrameInv
  OBVIOUS
<1>1. /\ wire = <<>> /\ phase = "length" /\ length = 0 /\ read = <<>> /\ user = <<>>
      /\ sent = <<>> /\ damaged = "none"
  BY DEF Init
<1>2. <<>> \in Seq(Bytes) /\ Len(<<>>) = 0
  BY EmptySeq
<1>3. Streaming
  <2> DEFINE P == [n \in 0..0 |-> 0]
  <2>1. P \in [0..0 -> Nat] /\ P[0] = 0
    OBVIOUS
  <2> HIDE DEF P
  <2>2. Carries(<<>>, P, <<>>)
    BY <1>2, <2>1 DEF Carries
  <2>3. Rest(<<>>, <<>>, 0)
    BY <1>2 DEF Rest
  <2>4. Skipped = 0 /\ P[0] + 0 = 0
    BY <1>1, <2>1 DEF Skipped
  <2>5. Carries(<<>>, P, sent) /\ Rest(wire, <<>>, P[Len(read)] + Skipped)
    BY <1>1, <1>2, <2>2, <2>3, <2>4
  <2>6. Len(read) <= Len(sent) /\ phase = "length"
    BY <1>1, <1>2
  <2> QED BY <2>5, <2>6 DEF Streaming
<1>4. Reads /\ UserNamed /\ UserValued
  BY <1>1, <1>2 DEF Reads, UserNamed, UserValued
<1> QED BY <1>1, <1>3, <1>4, TypeInit DEF FrameInv, Undamaged

\* The server sends another message.
LEMMA RespondStep == FrameInv /\ Respond => FrameInv'
<1> SUFFICES ASSUME FrameInv, Respond PROVE FrameInv'
  OBVIOUS
<1>1. TypeInv /\ Undamaged /\ Streaming /\ Reads /\ UserNamed /\ UserValued
  BY DEF FrameInv, Respond, Undamaged
<1>2. TypeInv'
  BY <1>1, TypeStep DEF Next
<1>3. PICK m \in Messages : Fits(m) /\ wire' = wire \o Frame(m) /\ sent' = Append(sent, m)
  BY DEF Respond
<1>4. /\ UNCHANGED <<phase, length, read, user, damaged>> /\ damaged = "none"
  BY DEF Respond
<1>5. /\ Len(sent) \in Nat /\ Len(sent') = Len(sent) + 1 /\ \A i \in 1..Len(sent) : sent'[i] = sent[i]
  BY <1>1, <1>3, FrameSent
<1>6. Len(read) \in Nat
  BY <1>1, AppendAny DEF TypeInv
<1>7. Len(read) <= Len(sent) /\ Len(read) \in 0..Len(sent)
  BY <1>1, <1>5, <1>6 DEF Streaming
<1>8. Streaming'
  <2>1. PICK whole, P : Carries(whole, P, sent) /\ Rest(wire, whole, P[Len(read)] + Skipped)
    BY <1>1 DEF Streaming
  <2>2. sent \in Seq(Sendable) /\ whole \in Seq(Bytes) /\ Frame(m) \in Seq(Bytes)
    BY <1>1, <1>3, <2>1, FrameWords DEF TypeInv, Carries
  <2>3. PICK Q : /\ Carries(whole \o Frame(m), Q, Append(sent, m))
                 /\ \A n \in 0..Len(sent) : Q[n] = P[n]
    BY <1>3, <2>1, <2>2, CarriesMore
  <2>4. Rest(wire \o Frame(m), whole \o Frame(m), P[Len(read)] + Skipped)
    BY <2>1, <2>2, RestMore
  <2>5. Q[Len(read)] = P[Len(read)] /\ Skipped' = Skipped
    BY <1>4, <1>7, <2>3 DEF Skipped
  <2>6. Carries(whole \o Frame(m), Q, sent') /\ Rest(wire', whole \o Frame(m), Q[Len(read')] + Skipped')
    BY <1>3, <1>4, <2>3, <2>4, <2>5
  <2>7. \E w, R : Carries(w, R, sent') /\ Rest(wire', w, R[Len(read')] + Skipped')
    BY <2>6
  <2>8. phase' = "body" => Len(read') < Len(sent') /\ length' = Len(Frame(sent'[Len(read') + 1]))
    <3>1. phase = "body" => Len(read) < Len(sent) /\ length = Len(Frame(sent[Len(read) + 1]))
      BY <1>1 DEF Streaming
    <3>2. Len(read) < Len(sent) => Len(read) + 1 \in 1..Len(sent) /\ Len(read) < Len(sent')
      BY <1>5, <1>6
    <3> QED BY <1>4, <1>5, <3>1, <3>2
  <2>9. Len(read') <= Len(sent') /\ phase' # "closed"
    BY <1>1, <1>4, <1>5, <1>6, <1>7 DEF Streaming
  <2> QED BY <2>7, <2>8, <2>9 DEF Streaming
<1>9. Reads'
  <2>1. ASSUME NEW i \in 1..Len(read) PROVE sent'[i] = sent[i]
    BY <1>5, <1>6, <1>7
  <2> QED BY <1>1, <1>4, <2>1 DEF Reads, ReadAsSent
<1>10. UserNamed' /\ UserValued'
  <2>1. Len(read) > 0 => sent'[Len(read)] = sent[Len(read)]
    BY <1>5, <1>6, <1>7
  <2>2. Len(read) > 1 => sent'[Len(read) - 1] = sent[Len(read) - 1]
    BY <1>5, <1>6, <1>7
  <2> QED BY <1>1, <1>4, <1>6, <2>1, <2>2 DEF UserNamed, UserValued
<1> QED BY <1>2, <1>4, <1>8, <1>9, <1>10 DEF FrameInv, Undamaged

\* The client reads a length.
LEMMA ReadLengthStep == FrameInv /\ ReadLength => FrameInv'
<1> SUFFICES ASSUME FrameInv, ReadLength PROVE FrameInv'
  OBVIOUS
<1>1. TypeInv /\ TypeInv'
  BY TypeStep DEF FrameInv, Next
<1>2. /\ phase = "length" /\ Len(wire) >= 2 /\ wire' = SubSeq(wire, 3, Len(wire))
      /\ UNCHANGED <<read, user, sent, damaged>>
      /\ IF ToWord(wire, 0) >= 8
         THEN phase' = "body" /\ length' = ToWord(wire, 0)
         ELSE phase' = "closed" /\ length' = 0
  BY DEF ReadLength
<1>3. /\ wire \in Seq(Bytes) /\ wire' \in Seq(Bytes) /\ Len(wire') = Len(wire) - 2
      /\ \A i \in 1..(Len(wire) - 2) : wire'[i] = wire[i + 2]
  BY <1>1, <1>2, LengthTaken DEF TypeInv
<1>4. Len(read) \in Nat /\ sent \in Seq(Sendable) /\ Len(sent) \in Nat /\ Len(wire) \in Nat
  BY <1>1, <1>3, AppendAny, LenProperties DEF TypeInv
<1>5. ASSUME NEW whole \in Seq(Bytes), NEW at, Rest(wire, whole, at)
      PROVE  Rest(wire', whole, at + 2)
  <2>1. 2 \in Nat /\ 2 <= Len(wire) /\ \A i \in 1..(Len(wire) - 2) : wire'[i] = wire[2 + i]
    BY <1>2, <1>3, <1>4
  <2> QED BY <1>3, <1>5, <2>1, RestLess
<1>6. damaged = "none" => Undamaged'
  <2> SUFFICES ASSUME damaged = "none" PROVE Undamaged'
    OBVIOUS
  <2>1. Undamaged /\ Streaming
    BY DEF FrameInv, Undamaged
  <2>2. PICK whole, P : Carries(whole, P, sent) /\ Rest(wire, whole, P[Len(read)] + Skipped)
    BY <2>1 DEF Streaming
  <2>3. Len(read) \in 0..Len(sent) /\ whole \in Seq(Bytes) /\ P[Len(read)] \in Nat
    <3>1. Len(read) \in 0..Len(sent)
      BY <1>4, <2>1 DEF Streaming
    <3>2. whole \in Seq(Bytes) /\ P \in [0..Len(sent) -> Nat]
      BY <2>2 DEF Carries
    <3> QED BY <3>1, <3>2
  <2>4. P[Len(read)] + Skipped = P[Len(read)]
    BY <1>2, <2>3 DEF Skipped
  <2>5. Rest(wire, whole, P[Len(read)])
    BY <2>2, <2>4
  <2>6. /\ Len(read) < Len(sent) /\ ToWord(wire, 0) = Len(Frame(sent[Len(read) + 1]))
        /\ ToWord(wire, 0) >= 8
    BY <1>2, <1>4, <2>2, <2>3, <2>5, LengthArrives
  <2>7. phase' = "body" /\ length' = ToWord(wire, 0) /\ Skipped' = 2
    BY <1>2, <2>6 DEF Skipped
  <2>8. Rest(wire', whole, P[Len(read)] + 2)
    BY <1>5, <2>3, <2>5
  <2>9. Carries(whole, P, sent') /\ Rest(wire', whole, P[Len(read')] + Skipped')
    BY <1>2, <2>2, <2>7, <2>8
  <2>10. \E w, R : Carries(w, R, sent') /\ Rest(wire', w, R[Len(read')] + Skipped')
    BY <2>9
  <2>11. Len(read') <= Len(sent') /\ phase' # "closed"
         /\ Len(read') < Len(sent') /\ length' = Len(Frame(sent'[Len(read') + 1]))
    BY <1>2, <1>4, <2>6, <2>7
  <2>12. Streaming'
    BY <2>10, <2>11 DEF Streaming
  <2>13. Reads' /\ UserNamed' /\ UserValued'
    BY <1>2, <2>1 DEF Undamaged, Reads, UserNamed, UserValued
  <2> QED BY <2>12, <2>13 DEF Undamaged
<1>7. damaged = "body" => Damaged'
  <2> SUFFICES ASSUME damaged = "body" PROVE Damaged'
    OBVIOUS
  <2>1. Len(sent) = 1 /\ Len(read) = 0 /\ Len(sent') = 1 /\ Len(read') = 0
        /\ \E frame, k : ByteChanged(frame, Frame(sent[1]), k) /\ Rest(wire, frame, Skipped)
    BY <1>2 DEF FrameInv, Damaged
  <2>2. PICK frame, k : ByteChanged(frame, Frame(sent[1]), k) /\ Rest(wire, frame, Skipped)
    BY <2>1
  <2>3. Skipped = 0 /\ Rest(wire, frame, 0) /\ frame \in Seq(Bytes)
    BY <1>2, <2>2 DEF Skipped, ByteChanged
  <2> DEFINE m == sent[1]
             F == Frame(m)
             L == Len(F)
  <2>4. m \in Messages /\ Fits(m)
    <3>1. 1 \in 1..Len(sent)
      BY <2>1
    <3> QED BY <1>4, <3>1, ElementOfSeq DEF Sendable
  <2>5. /\ F \in Seq(Bytes) /\ L \in 8..(Word - 1) /\ Holds(F, 0, BigEndian(L, 2))
    BY <2>4, FrameWords
  <2>6. ByteChanged(frame, F, k)
    BY <2>2
  <2> HIDE DEF m, F
  <2>7. L \in Nat /\ L < Word /\ L >= 8
    BY <2>5, WordFacts
  <2>8. /\ Len(frame) = L /\ k \in 3..L /\ \A j \in 1..L : j # k => frame[j] = F[j]
    BY <2>6 DEF ByteChanged
  <2> HIDE DEF L
  <2>9. BigEndian(L, 2) \in Seq(Bytes) /\ Len(BigEndian(L, 2)) = 2
    BY <2>7, DigitsOfWord
  <2>10. Holds(frame, 0, BigEndian(L, 2))
    <3>1. ASSUME NEW i \in 1..2 PROVE frame[0 + i] = F[0 + i]
      BY <2>7, <2>8
    <3>2. 0 + 2 <= L
      BY <2>7
    <3> QED BY <2>5, <2>8, <2>9, <3>1, <3>2 DEF Holds
  <2>11. Holds(wire, 0, BigEndian(L, 2))
    BY <2>3, <2>9, <2>10, RestHolds
  <2>12. ToWord(wire, 0) = L
    BY <1>3, <2>7, <2>11, WordIsRead
  <2>13. phase' = "body" /\ length' = Len(frame) /\ Skipped' = 2
    BY <1>2, <2>7, <2>8, <2>12 DEF Skipped
  <2>14. Rest(wire', frame, 2)
    <3>1. 0 + 2 = 2
      OBVIOUS
    <3>2. Rest(wire', frame, 0 + 2)
      BY <1>5, <2>3
    <3> QED BY <3>1, <3>2
  <2>15. ByteChanged(frame, Frame(sent'[1]), k) /\ Rest(wire', frame, Skipped')
    BY <1>2, <2>2, <2>13, <2>14
  <2>16. \E f, j : /\ ByteChanged(f, Frame(sent'[1]), j) /\ Rest(wire', f, Skipped')
                   /\ phase' = "body" => length' = Len(f)
    BY <2>13, <2>15
  <2> QED BY <2>1, <2>13, <2>16 DEF Damaged
<1> QED BY <1>1, <1>2, <1>6, <1>7 DEF FrameInv

\* The client reads a body.
LEMMA ReadBodyStep == FrameInv /\ ReadBody => FrameInv'
<1> SUFFICES ASSUME FrameInv, ReadBody PROVE FrameInv'
  OBVIOUS
<1> DEFINE body == SubSeq(wire, 1, length - 2)
           cmd == NameOf(Cmds, ToWord(body, 0))
           status == NameOf(Stats, ToWord(body, 2))
           r == [cmd |-> cmd, status |-> status, list |-> ToDataList(body, cmd, status),
                 invalid |-> InvalidChecksum(body, length)]
           N == Len(read)
<1>1. TypeInv /\ TypeInv'
  BY TypeStep DEF FrameInv, Next
<1>2. /\ phase = "body" /\ Len(wire) >= length - 2 /\ read' = Append(read, r)
      /\ user' = UserAfter(body, cmd, status) /\ wire' = SubSeq(wire, length - 1, Len(wire))
      /\ phase' = "length" /\ length' = 0 /\ sent' = sent /\ damaged' = damaged
  BY DEF ReadBody
<1>3. /\ length \in Nat /\ length >= 8 /\ length < Word
      /\ body \in Seq(Bytes) /\ Len(body) = length - 2
      /\ \A i \in 1..(length - 2) : body[i] = wire[i]
      /\ wire' \in Seq(Bytes) /\ Len(wire') = Len(wire) - (length - 2)
      /\ \A i \in 1..(Len(wire) - (length - 2)) : wire'[i] = wire[(length - 2) + i]
  BY <1>1, <1>2, BodyTaken
<1>4. r.cmd = cmd /\ r.status = status /\ r.list = ToDataList(body, cmd, status)
      /\ r.invalid = InvalidChecksum(body, length)
  OBVIOUS
<1> HIDE DEF body, r
<1>5. /\ N \in Nat /\ Len(read') = N + 1 /\ read'[N + 1] = r /\ \A i \in 1..N : read'[i] = read[i]
  BY <1>1, <1>2, AppendAny DEF TypeInv
<1>6. sent \in Seq(Sendable) /\ Len(sent) \in Nat /\ wire \in Seq(Bytes) /\ Len(wire) \in Nat
  BY <1>1, LenProperties DEF TypeInv
<1>7. ASSUME NEW whole \in Seq(Bytes), NEW at, Rest(wire, whole, at)
      PROVE  Rest(wire', whole, at + (length - 2))
  <2>1. length - 2 \in Nat /\ length - 2 <= Len(wire)
    BY <1>2, <1>3, <1>6
  <2> QED BY <1>3, <1>7, <2>1, RestLess
<1> HIDE DEF N
<1>8. damaged = "none" => Undamaged'
  <2> SUFFICES ASSUME damaged = "none" PROVE Undamaged'
    OBVIOUS
  <2>1. Undamaged /\ Streaming /\ Reads /\ UserNamed /\ UserValued
    BY DEF FrameInv, Undamaged
  <2> DEFINE m == sent[N + 1]
             L == Len(Frame(m))
  <2>2. /\ N < Len(sent) /\ length = L
        /\ \E whole, P : Carries(whole, P, sent) /\ Rest(wire, whole, P[N] + Skipped)
    BY <1>2, <2>1 DEF Streaming, N
  <2>3. PICK whole, P : Carries(whole, P, sent) /\ Rest(wire, whole, P[N] + 2)
    BY <1>2, <2>2 DEF Skipped
  <2>4. N \in 0..Len(sent) /\ whole \in Seq(Bytes)
    BY <1>5, <1>6, <2>2, <2>3 DEF Carries
  <2>5. /\ m \in Messages /\ Fits(m) /\ P[N + 1] = P[N] + L /\ P[N] \in Nat
        /\ \A b \in Seq(Bytes) :
              (Len(b) = L - 2 /\ \A i \in 1..(L - 2) : b[i] = wire[i]) => BodyOf(b, Frame(m))
    BY <1>6, <2>2, <2>3, <2>4, BodyArrives
  <2>6. BodyOf(body, Frame(m))
    BY <1>3, <2>2, <2>5
  <2>7. Carried(body, m.items) /\ cmd = m.cmd /\ status = m.status
    BY <2>5, <2>6, BodyOfMessage
  <2> HIDE DEF m, L, cmd, status
  <2>8. ReadAsSent(r, m)
    <3>1. ~UserValues(m) => ToDataList(body, m.cmd, m.status) = Kept(m)
      BY <2>5, <2>7, ListIsRead
    <3>2. SumOf(m) < Word => ~InvalidChecksum(body, length)
      BY <2>2, <2>5, <2>6, SumIsRight DEF L
    <3>3. ~UserValues(m) => r.list = Kept(m)
      BY <1>4, <2>7, <3>1
    <3>4. SumOf(m) < Word => ~r.invalid
      BY <1>4, <3>2
    <3> QED BY <1>4, <2>7, <3>3, <3>4 DEF ReadAsSent
  <2>9. Reads'
    <3>1. ASSUME NEW i \in 1..(N + 1) PROVE ReadAsSent(read'[i], sent'[i])
      <4>1. CASE i = N + 1
        BY <1>2, <1>5, <2>8, <4>1 DEF m
      <4>2. CASE i # N + 1
        <5>1. i \in 1..N
          BY <1>5, <4>2
        <5>2. ReadAsSent(read[i], sent[i])
          BY <2>1, <5>1 DEF Reads, N
        <5> QED BY <1>2, <1>5, <5>1, <5>2
      <4> QED BY <4>1, <4>2
    <3> HIDE DEF N
    <3>2. \A i \in 1..Len(read') : ReadAsSent(read'[i], sent'[i])
      BY <1>5, <3>1
    <3> QED BY <3>2 DEF Reads, ReadAsSent
  <2>10. Streaming'
    <3>1. P[N + 1] + 0 = P[N] + 2 + (length - 2) /\ P[N + 1] = P[N + 1] + 0
      <4> DEFINE a == P[N]
                 b == P[N + 1]
      <4>1. a \in Nat /\ L \in Nat /\ b = a + L /\ length = L /\ L >= 8
        BY <1>3, <2>2, <2>5
      <4> HIDE DEF a, b
      <4>2. b + 0 = a + 2 + (length - 2) /\ b = b + 0
        BY <4>1
      <4> QED BY <4>2 DEF a, b
    <3>2. Rest(wire', whole, P[N] + 2 + (length - 2))
      BY <1>7, <2>3, <2>4
    <3>3. Skipped' = 0
      BY <1>2 DEF Skipped
    <3>4. Rest(wire', whole, P[Len(read')] + Skipped')
      BY <1>5, <3>1, <3>2, <3>3
    <3>5. \E w, R : Carries(w, R, sent') /\ Rest(wire', w, R[Len(read')] + Skipped')
      BY <1>2, <2>3, <3>4
    <3>6. Len(read') <= Len(sent') /\ phase' # "closed" /\ phase' # "body"
      BY <1>2, <1>5, <1>6, <2>2
    <3> QED BY <3>5, <3>6 DEF Streaming
  <2>11. Named(m, user')
    <3>1. SUFFICES ASSUME UserList(m) PROVE user' = DefineUser(Kept(m))
      BY DEF Named
    <3>2. m.cmd = "GET_USER_DEFINED_VALUE_LIST" /\ m.status = "OK" /\ ~UserValues(m)
      BY <3>1 DEF UserList, UserValues
    <3>3. user' = DefineUser(ToDataList(body, m.cmd, m.status))
      BY <1>2, <2>7, <3>2 DEF UserAfter
    <3>4. ToDataList(body, m.cmd, m.status) = Kept(m)
      BY <2>5, <2>7, <3>2, ListIsRead
    <3> QED BY <3>3, <3>4
  <2>12. UserNamed'
    <3>1. Len(read') > 0 => sent'[Len(read')] = m
      BY <1>2, <1>5 DEF m
    <3>2. Len(read') > 0 => Named(sent'[Len(read')], user')
      BY <2>11, <3>1
    <3> QED BY <3>2 DEF UserNamed
  <2>13. UserValued'
    <3>1. SUFFICES ASSUME N > 0 PROVE Valued(sent[N], m, user')
      <4>1. Len(read') > 1 => N > 0 /\ Len(read') - 1 = N /\ sent'[Len(read') - 1] = sent[N]
                              /\ sent'[Len(read')] = m
        BY <1>2, <1>5 DEF m
      <4>2. N > 0 => Valued(sent[N], m, user')
        BY <3>1
      <4>3. Len(read') > 1 => Valued(sent'[Len(read') - 1], sent'[Len(read')], user')
        BY <4>1, <4>2
      <4> QED BY <4>3 DEF UserValued
    <3>2. SUFFICES ASSUME UserList(sent[N]), UserValues(m) PROVE Valued(sent[N], m, user')
      BY DEF Valued
    <3>3. N \in 1..Len(sent)
      BY <1>5, <1>6, <2>2, <3>1
    <3>4. sent[N] \in Messages /\ Fits(sent[N])
      BY <1>6, <3>3, ElementOfSeq DEF Sendable
    <3>5. user = DefineUser(Kept(sent[N]))
      BY <2>1, <3>1, <3>2 DEF UserNamed, Named, N
    <3>6. user' = BodyToDataList(body, 4, user)
      <4>1. m.cmd = "GET_USER_DEFINED_VALUE" /\ m.status = "OK"
        BY <3>2 DEF UserValues
      <4> QED BY <1>2, <2>7, <4>1 DEF UserAfter
    <3>7. PICK b : BodyOf(b, Frame(sent[N]))
      BY <3>4, HasBody
    <3>8. Carried(b, sent[N].items)
      BY <3>4, <3>7, BodyOfMessage
    <3>9. Valued(sent[N], m, BodyToDataList(body, 4, DefineUser(Kept(sent[N]))))
      BY <2>5, <2>7, <3>2, <3>4, <3>8, ValuesOfNames
    <3> QED BY <3>5, <3>6, <3>9
  <2> QED BY <2>9, <2>10, <2>12, <2>13 DEF Undamaged
<1>9. damaged = "body" => Damaged'
  <2> SUFFICES ASSUME damaged = "body" PROVE Damaged'
    OBVIOUS
  <2>1. Len(sent) = 1 /\ N = 0
        /\ \E frame, k : /\ ByteChanged(frame, Frame(sent[1]), k) /\ Rest(wire, frame, Skipped)
                         /\ length = Len(frame)
    BY <1>2 DEF FrameInv, Damaged, N
  <2>2. PICK frame, k : /\ ByteChanged(frame, Frame(sent[1]), k) /\ Rest(wire, frame, Skipped)
                        /\ length = Len(frame)
    BY <2>1
  <2>3. Rest(wire, frame, 2)
    BY <1>2, <2>2 DEF Skipped
  <2> DEFINE m == sent[1]
             F == Frame(m)
  <2>4. m \in Messages /\ Fits(m)
    <3>1. 1 \in 1..Len(sent)
      BY <2>1
    <3> QED BY <1>6, <3>1, ElementOfSeq DEF Sendable
  <2>5. ByteChanged(frame, F, k)
    BY <2>2
  <2>6. frame \in Seq(Bytes) /\ Len(frame) = Len(F)
    BY <2>5 DEF ByteChanged
  <2>7. /\ Len(frame) = 2 + Len(wire) /\ \A i \in 1..Len(wire) : wire[i] = frame[2 + i]
    BY <2>3 DEF Rest
  <2>8. BodyOf(body, frame)
    <3>1. ASSUME NEW i \in 1..Len(body) PROVE body[i] = frame[i + 2]
      <4>1. i \in 1..(length - 2) /\ i \in 1..Len(wire) /\ 2 + i = i + 2
        BY <1>2, <1>3, <1>6, <2>2, <2>7
      <4> QED BY <1>3, <2>7, <4>1
    <3> QED BY <1>3, <2>2, <2>6, <3>1 DEF BodyOf
  <2> HIDE DEF m
  <2>9. InvalidChecksum(body, length)
    BY <2>2, <2>4, <2>5, <2>6, <2>8, ChangeIsSeen
  <2>10. Len(wire') = 0
    BY <1>3, <1>6, <2>2, <2>7
  <2>11. Len(read') = 1 /\ read'[1] = r
    BY <1>5, <2>1
  <2>12. Len(sent') = 1 /\ Len(read') = 1 /\ read'[1].invalid /\ phase' = "length" /\ Len(wire') = 0
    BY <1>2, <1>4, <2>1, <2>9, <2>10, <2>11
  <2> QED BY <2>12 DEF Damaged
<1> QED BY <1>1, <1>2, <1>8, <1>9 DEF FrameInv

\* A byte changes on the way.
LEMMA DamageStep == FrameInv /\ Damage => FrameInv'
<1> SUFFICES ASSUME FrameInv, Damage PROVE FrameInv'
  OBVIOUS
<1>1. TypeInv /\ TypeInv'
  BY TypeStep DEF FrameInv, Next
<1>2. PICK i \in DOMAIN wire, b \in Bytes :
            /\ b # wire[i] /\ wire' = [wire EXCEPT ![i] = b]
            /\ damaged' = IF phase = "length" /\ i <= 2 THEN "length" ELSE "body"
  BY DEF Damage
<1>3. /\ damaged = "none" /\ Len(sent) = 1 /\ UNCHANGED <<phase, length, read, user, sent>>
  BY DEF Damage
<1>4. damaged' # "none"
  BY <1>2
<1>5. damaged' = "body" => Damaged'
  <2> SUFFICES ASSUME damaged' = "body" PROVE Damaged'
    OBVIOUS
  <2>1. /\ Len(read) <= 1 /\ phase # "closed"
        /\ phase = "body" => Len(read) < 1 /\ length = Len(Frame(sent[Len(read) + 1]))
        /\ \E whole, P : Carries(whole, P, sent) /\ Rest(wire, whole, P[Len(read)] + Skipped)
    BY <1>3 DEF FrameInv, Undamaged, Streaming
  <2>2. PICK whole, P : Carries(whole, P, sent) /\ Rest(wire, whole, P[Len(read)] + Skipped)
    BY <2>1
  <2>3. /\ Len(read) \in Nat /\ sent \in Seq(Sendable) /\ wire \in Seq(Bytes)
        /\ Len(wire) \in Nat /\ DOMAIN wire = 1..Len(wire) /\ phase \in {"length", "body", "closed"}
    BY <1>1, AppendAny, LenProperties DEF TypeInv
  <2> DEFINE m == sent[1]
             F == Frame(m)
  <2>4. m \in Messages /\ Fits(m)
    <3>1. 1 \in 1..Len(sent)
      BY <1>3
    <3> QED BY <2>3, <3>1, ElementOfSeq DEF Sendable
  <2>5. F \in Seq(Bytes) /\ Len(F) \in 8..(Word - 1) /\ Len(F) \in Nat
    BY <2>4, FrameWords, LenProperties
  <2>6. /\ P[0] = 0 /\ P[1] = Len(whole) /\ P[1] = P[0] + Len(F) /\ Holds(whole, P[0], F)
        /\ whole \in Seq(Bytes)
    <3>1. 1 \in 1..Len(sent) /\ 1 - 1 = 0
      BY <1>3
    <3> QED BY <1>3, <2>2, <3>1 DEF Carries
  <2> HIDE DEF F, m
  <2>7. Len(whole) = Len(F) /\ \A j \in 1..Len(F) : whole[j] = F[j]
    <3>1. Holds(whole, 0, F)
      BY <2>6
    <3>2. \A j \in 1..Len(F) : whole[0 + j] = F[j]
      BY <3>1 DEF Holds
    <3> QED BY <2>5, <2>6, <3>2
  <2>8. Len(read) = 0
    <3>0. Len(read) <= 1 /\ Len(read) \in Nat
      BY <2>1, <2>3
    <3>1. SUFFICES ASSUME Len(read) = 1 PROVE FALSE
      BY <3>0
    <3>2. Skipped = 0
      BY <2>1, <3>1 DEF Skipped
    <3>3. Len(whole) = P[1] + 0 + Len(wire)
      BY <2>2, <3>1, <3>2 DEF Rest
    <3>4. Len(wire) = 0
      BY <2>3, <2>5, <2>6, <2>7, <3>3
    <3> QED BY <1>2, <2>3, <3>4
  <2>9. /\ Skipped \in 0..2 /\ Len(F) = Skipped + Len(wire)
        /\ \A j \in 1..Len(wire) : wire[j] = F[Skipped + j]
    <3>1. Skipped \in 0..2 /\ Skipped \in Nat
      BY DEF Skipped
    <3>2. P[Len(read)] + Skipped = Skipped
      BY <2>6, <2>8, <3>1
    <3>3. Rest(wire, whole, Skipped)
      BY <2>2, <3>2
    <3>4. Len(F) = Skipped + Len(wire) /\ \A j \in 1..Len(wire) : wire[j] = whole[Skipped + j]
      BY <2>7, <3>3 DEF Rest
    <3>5. \A j \in 1..Len(wire) : Skipped + j \in 1..Len(F)
      BY <2>3, <2>5, <3>1, <3>4
    <3> QED BY <2>7, <3>1, <3>4, <3>5
  <2> DEFINE k == Skipped + i
             frame == [F EXCEPT ![k] = b]
  <2>10. i \in 1..Len(wire) /\ k \in 3..Len(F) /\ k \in 1..Len(F)
    <3>1. phase = "length" => ~(i <= 2)
      BY <1>2
    <3>2. phase = "length" \/ phase = "body"
      BY <2>1, <2>3
    <3>3. phase = "body" => Skipped = 2
      BY DEF Skipped
    <3>4. Skipped \in Nat /\ i \in 1..Len(wire) /\ i \in Nat
      BY <1>2, <2>3, <2>9
    <3>5. (Skipped = 2 \/ ~(i <= 2)) /\ Len(F) = Skipped + Len(wire) /\ Len(F) \in Nat
      BY <2>5, <2>9, <3>1, <3>2, <3>3
    <3> QED BY <2>3, <3>4, <3>5
  <2>11. /\ frame \in Seq(Bytes) /\ Len(frame) = Len(F) /\ frame[k] = b
         /\ \A j \in 1..Len(F) : j # k => frame[j] = F[j]
    <3>1. F \in [1..Len(F) -> Bytes]
      <4>1. F = [j \in 1..Len(F) |-> F[j]] /\ \A j \in 1..Len(F) : F[j] \in Bytes
        BY <2>5, ElementOfSeq
      <4> QED BY <4>1
    <3> HIDE DEF k
    <3>2. frame \in [1..Len(F) -> Bytes]
      BY <3>1
    <3>3. frame[k] = b /\ \A j \in 1..Len(F) : j # k => frame[j] = F[j]
      BY <2>10, <3>1
    <3> HIDE DEF frame
    <3> QED BY <2>5, <3>2, <3>3, ListIs
  <2>12. wire' \in Seq(Bytes) /\ Len(wire') = Len(wire) /\ wire'[i] = b
         /\ \A j \in 1..Len(wire) : j # i => wire'[j] = wire[j]
    <3>1. wire' \in Seq(Bytes)
      BY <1>1 DEF TypeInv
    <3>2. DOMAIN wire' = DOMAIN wire /\ DOMAIN wire' = 1..Len(wire') /\ Len(wire') \in Nat
      BY <1>2, <3>1
    <3>3. Len(wire') = Len(wire)
      BY <2>3, <3>2
    <3> QED BY <1>2, <2>3, <3>1, <3>3
  <2> HIDE DEF frame
  <2>13. ByteChanged(frame, F, k)
    <3>1. frame[k] # F[k]
      BY <1>2, <2>9, <2>10, <2>11
    <3> QED BY <2>5, <2>10, <2>11, <3>1 DEF ByteChanged
  <2>14. Rest(wire', frame, Skipped)
    <3>1. ASSUME NEW j \in 1..Len(wire') PROVE wire'[j] = frame[Skipped + j]
      <4>1. j \in 1..Len(wire) /\ Skipped + j \in 1..Len(F)
        BY <2>3, <2>5, <2>9, <2>12
      <4>2. CASE j = i
        BY <2>11, <2>12, <4>2
      <4>3. CASE j # i
        <5>1. Skipped + j # k
          BY <2>9, <2>10, <4>1, <4>3
        <5> QED BY <2>9, <2>11, <2>12, <4>1, <4>3, <5>1
      <4> QED BY <4>2, <4>3
    <3>2. Skipped \in Nat
      BY <2>9
    <3> QED BY <2>9, <2>11, <2>12, <3>1, <3>2 DEF Rest
  <2>15. Skipped' = Skipped /\ Frame(sent'[1]) = F
    BY <1>3 DEF Skipped, F, m
  <2>16. ByteChanged(frame, Frame(sent'[1]), k) /\ Rest(wire', frame, Skipped')
    BY <2>13, <2>14, <2>15
  <2>17. phase' = "body" => length' = Len(frame)
    <3>1. phase = "body" => length = Len(F)
      <4>1. Len(read) + 1 = 1
        BY <2>8
      <4> QED BY <2>1, <4>1 DEF F, m
    <3> QED BY <1>3, <2>11, <3>1
  <2>18. \E f, j : /\ ByteChanged(f, Frame(sent'[1]), j) /\ Rest(wire', f, Skipped')
                   /\ phase' = "body" => length' = Len(f)
    BY <2>16, <2>17
  <2>19. phase' \in {"length", "body"} /\ Len(sent') = 1 /\ Len(read') = 0
    BY <1>3, <2>1, <2>3, <2>8
  <2> QED BY <2>18, <2>19 DEF Damaged
<1> QED BY <1>1, <1>4, <1>5 DEF FrameInv

\* The timeout, which does not end the wait for a body that was sent.
LEMMA BodyTimeoutStep == FrameInv /\ BodyTimeout => FrameInv'
<1> SUFFICES ASSUME FrameInv, BodyTimeout PROVE FrameInv'
  OBVIOUS
<1>1. TypeInv /\ TypeInv'
  BY TypeStep DEF FrameInv, Next
<1>2. phase = "body" /\ Len(wire) < length - 2 /\ damaged' = damaged
  BY DEF BodyTimeout
<1>3. Len(read) \in Nat /\ sent \in Seq(Sendable) /\ Len(sent) \in Nat /\ Len(wire) \in Nat
      /\ length \in Nat
  <2>1. length \in 8..(Word - 1) /\ Word \in Nat
    BY <1>1, <1>2, WordFacts DEF TypeInv
  <2> QED BY <1>1, <2>1, AppendAny, LenProperties DEF TypeInv
<1>4. damaged # "none"
  <2> SUFFICES ASSUME damaged = "none" PROVE FALSE
    OBVIOUS
  <2> DEFINE N == Len(read)
  <2>1. /\ N < Len(sent) /\ length = Len(Frame(sent[N + 1]))
        /\ \E whole, P : Carries(whole, P, sent) /\ Rest(wire, whole, P[N] + Skipped)
    BY <1>2 DEF FrameInv, Undamaged, Streaming
  <2> HIDE DEF N
  <2>2. PICK whole, P : Carries(whole, P, sent) /\ Rest(wire, whole, P[N] + 2)
    BY <1>2, <2>1 DEF Skipped
  <2>3. N \in 0..Len(sent)
    BY <1>3, <2>1 DEF N
  <2>4. Len(wire) >= Len(Frame(sent[N + 1])) - 2
    BY <1>3, <2>1, <2>2, <2>3, BodyArrives
  <2> QED BY <1>2, <1>3, <2>1, <2>4
<1>5. damaged # "body"
  <2> SUFFICES ASSUME damaged = "body" PROVE FALSE
    OBVIOUS
  <2>1. \E frame, k : /\ ByteChanged(frame, Frame(sent[1]), k) /\ Rest(wire, frame, Skipped)
                      /\ length = Len(frame)
    BY <1>2 DEF FrameInv, Damaged
  <2>2. PICK frame : Rest(wire, frame, 2) /\ length = Len(frame)
    BY <1>2, <2>1 DEF Skipped
  <2>3. Len(frame) = 2 + Len(wire)
    BY <2>2 DEF Rest
  <2> QED BY <1>2, <1>3, <2>2, <2>3
<1> QED BY <1>1, <1>2, <1>4, <1>5 DEF FrameInv

LEMMA FrameStep == FrameInv /\ [Next]_vars => FrameInv'
<1> SUFFICES ASSUME FrameInv, UNCHANGED vars PROVE FrameInv'
  BY RespondStep, DamageStep, ReadLengthStep, ReadBodyStep, BodyTimeoutStep DEF Next
<1>1. UNCHANGED <<wire, phase, length, read, user, sent, damaged>>
  BY DEF vars
<1>2. TypeInv'
  BY <1>1 DEF FrameInv, TypeInv, UserType
<1>3. Undamaged => Undamaged'
  BY <1>1 DEF Undamaged, Streaming, Skipped, Reads, UserNamed, UserValued
<1>4. Damaged => Damaged'
  BY <1>1 DEF Damaged, Skipped
<1> QED BY <1>1, <1>2, <1>3, <1>4 DEF FrameInv

LEMMA FrameInvariant == Spec => []FrameInv
BY FrameInit, FrameStep, PTL DEF Spec

-----------------------------------------------------------------------------
(* The theorems.                                                              *)

\* Responses of any contents that follow each other on the stream are cut apart
\* where the server put them together, and each is read with its command, its
\* status and its items: DoReadLength, DoReadBody and the constructor of IResponse
\* undo CreateBody, for every number, string and count that fits a frame.
THEOREM FramesAreFound == Spec => []ReadsWhatWasSent
<1>1. FrameInv => ReadsWhatWasSent
  <2> SUFFICES ASSUME FrameInv, damaged = "none"
               PROVE  /\ phase # "closed"
                      /\ \A i \in DOMAIN read :
                           /\ read[i].cmd = sent[i].cmd /\ read[i].status = sent[i].status
                           /\ ~UserValues(sent[i]) => read[i].list = Kept(sent[i])
    BY DEF ReadsWhatWasSent
  <2>1. DOMAIN read = 1..Len(read)
    BY AppendAny DEF FrameInv, TypeInv
  <2>2. phase # "closed" /\ \A i \in 1..Len(read) : ReadAsSent(read[i], sent[i])
    BY DEF FrameInv, Undamaged, Streaming, Reads
  <2> QED BY <2>1, <2>2 DEF ReadAsSent
<1> QED BY <1>1, FrameInvariant, PTL

\* The values of a response find the names of the list before it, however many
\* of either the server sends.
THEOREM ValuesAreNamed == Spec => []ValuesFindTheirNames
<1>1. FrameInv => ValuesFindTheirNames
  <2> SUFFICES ASSUME FrameInv, damaged = "none", NEW i \in (DOMAIN read) \ {1},
                      UserList(sent[i - 1]), UserValues(sent[i]), i = Len(read)
               PROVE  \A j \in 1..((Len(Kept(sent[i - 1])) - 1) \div 2) :
                        LET of == sent[i].items
                        IN  /\ user[j + 1].name = sent[i - 1].items[2 * j + 1].value
                            /\ user[j + 1].value = IF j < Len(of) THEN of[j + 1].value ELSE 0
    BY DEF ValuesFindTheirNames
  <2>1. DOMAIN read = 1..Len(read) /\ Len(read) \in Nat
    BY AppendAny DEF FrameInv, TypeInv
  <2>2. Len(read) > 1
    BY <2>1
  <2>3. Valued(sent[i - 1], sent[i], user)
    BY <2>2 DEF FrameInv, Undamaged, UserValued
  <2> QED BY <2>3 DEF Valued
<1> QED BY <1>1, FrameInvariant, PTL

\* Whichever byte of a response changes, unless it is of the length: the checksum,
\* to which the client adds the length after it has cut the sum, is not right.
THEOREM ChangesAreSeen == Spec => []DamageShows
<1>1. FrameInv => DamageShows
  <2> SUFFICES ASSUME FrameInv, damaged = "body", NEW i \in DOMAIN read PROVE read[i].invalid
    BY DEF DamageShows
  <2>1. DOMAIN read = 1..Len(read) /\ Len(read) \in Nat /\ Damaged
    BY AppendAny DEF FrameInv, TypeInv
  <2>2. i \in 1..Len(read)
    BY <2>1
  <2> QED BY <2>1, <2>2 DEF Damaged
<1> QED BY <1>1, FrameInvariant, PTL

\* A response is accepted if the sum of its words is that of a word: the sum that
\* the client does not cut is then the sum that the server cut.
THEOREM AcceptsSmallSums == Spec => []SmallSumsAccepted
<1>1. FrameInv => SmallSumsAccepted
  <2> SUFFICES ASSUME FrameInv, damaged = "none", phase = "length", read # <<>>,
                      SumOf(sent[Len(read)]) < Word
               PROVE  ~Last(read).invalid
    BY DEF SmallSumsAccepted
  <2>1. Len(read) \in Nat /\ Len(read) # 0
    <3>1. PICK S : read \in Seq(S)
      BY DEF FrameInv, TypeInv
    <3> QED BY <3>1, EmptySeq, LenProperties
  <2>2. Len(read) \in 1..Len(read)
    BY <2>1
  <2>3. ReadAsSent(read[Len(read)], sent[Len(read)])
    BY <2>2 DEF FrameInv, Undamaged, Reads
  <2> QED BY <2>3 DEF ReadAsSent, Last
<1> QED BY <1>1, FrameInvariant, PTL
===============================================================================
