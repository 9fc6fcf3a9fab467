-------------------------- MODULE IndicatorsProofs --------------------------
(***************************************************************************)
(* Facts about the classifiers of Indicators for every text: what a prefix *)
(* of the reserved-range table takes, what the ranges of Reserved say of   *)
(* the bytes of an address, and how the sample texts are typed.            *)
(***************************************************************************)
EXTENDS Samples, Reserved, SequenceTheorems, TLAPS

----------------------------------------------------------------------------
\* Prefixes: which bytes a network of the table fixes.

Byte(b) == b \in Nat /\ b < 256
Bytes(x, n) == Len(x) = n /\ \A i \in 1..n : Byte(x[i])
Unit(bits, i) == 2^(8 - PrefixBits(bits, i))
SameByte(block, x, i) ==
    x[i] \div Unit(block.bits, i) = block.net[i] \div Unit(block.bits, i)

LEMMA Powers ==
    /\ 2^0 = 1 /\ 2^1 = 2 /\ 2^2 = 4 /\ 2^3 = 8 /\ 2^4 = 16
    /\ 2^5 = 32 /\ 2^6 = 64 /\ 2^7 = 128 /\ 2^8 = 256
OBVIOUS

\* A byte inside the prefix has to be the network's, a byte behind it may be
\* anything.
LEMMA SameByteMeans ==
    ASSUME NEW n \in 1..16, NEW x, Bytes(x, n), NEW block, Bytes(block.net, n),
           block.bits \in Nat, NEW i \in 1..n
    PROVE  /\ 8 * i <= block.bits => (SameByte(block, x, i) <=> x[i] = block.net[i])
           /\ block.bits <= 8 * (i - 1) => SameByte(block, x, i)
<1>1. Byte(x[i]) /\ Byte(block.net[i]) /\ i \in Nat
  BY DEF Bytes
<1>2. ASSUME 8 * i <= block.bits
      PROVE  SameByte(block, x, i) <=> x[i] = block.net[i]
  <2>1. 8 - PrefixBits(block.bits, i) = 0
    BY <1>1, <1>2 DEF PrefixBits
  <2>2. x[i] \div 1 = x[i] /\ block.net[i] \div 1 = block.net[i]
    BY <1>1 DEF Byte
  <2>3. Unit(block.bits, i) = 1
    BY <2>1, Powers DEF Unit
  <2> QED
    BY <2>2, <2>3 DEF SameByte
<1>3. ASSUME block.bits <= 8 * (i - 1)
      PROVE  SameByte(block, x, i)
  <2>1. 8 - PrefixBits(block.bits, i) = 8
    BY <1>1, <1>3 DEF PrefixBits
  <2>2. x[i] \div 256 = block.net[i] \div 256
    BY <1>1 DEF Byte
  <2>3. Unit(block.bits, i) = 256
    BY <2>1, Powers DEF Unit
  <2> QED
    BY <2>2, <2>3 DEF SameByte
<1> QED
  BY <1>2, <1>3

\* The prefix ends in byte k, of which it fixes the first r bits: values that
\* share them differ by less than u.
Ends(block, n, k, r, u) ==
    /\ Bytes(block.net, n) /\ n \in 1..16 /\ k \in 1..n
    /\ r \in 1..8 /\ u = 2^(8 - r)
    /\ block.bits = 8 * (k - 1) + r

LEMMA PrefixMeans ==
    ASSUME NEW n, NEW x, Bytes(x, n), NEW block, NEW k, NEW r, NEW u,
           Ends(block, n, k, r, u)
    PROVE  InPrefix(block, x) <=> /\ \A i \in 1..(k - 1) : x[i] = block.net[i]
                                  /\ x[k] \div u = block.net[k] \div u
<1> USE DEF Ends
<1> DEFINE Last == x[k] \div u = block.net[k] \div u
<1>1. ASSUME NEW i \in 1..n, i # k
      PROVE  SameByte(block, x, i) <=> (i <= k - 1 => x[i] = block.net[i])
  <2>1. /\ block.bits \in Nat
        /\ 8 * i <= block.bits <=> i <= k - 1
        /\ block.bits <= 8 * (i - 1) <=> i > k - 1
    BY <1>1
  <2> QED
    BY <2>1, SameByteMeans
<1>2. InPrefix(block, x) <=> \A i \in 1..n : SameByte(block, x, i)
  BY DEF InPrefix, Bytes, SameByte, Unit
<1>3. SameByte(block, x, k) <=> Last
  <2>1. PrefixBits(block.bits, k) = r
    BY DEF PrefixBits
  <2> QED
    BY <2>1 DEF SameByte, Unit
<1> HIDE DEF Last
<1>4. InPrefix(block, x) <=> (\A i \in 1..(k - 1) : x[i] = block.net[i]) /\ Last
  BY <1>1, <1>2, <1>3
<1> QED
  BY <1>4 DEF Last

\* A prefix of k whole bytes.
LEMMA WholeBytes ==
    ASSUME NEW n \in 1..16, NEW x, Bytes(x, n), NEW block, Bytes(block.net, n),
           NEW k \in 1..n, block.bits = 8 * k
    PROVE  InPrefix(block, x) <=> \A i \in 1..k : x[i] = block.net[i]
<1>1. Ends(block, n, k, 8, 1)
  BY Powers DEF Ends
<1>2. InPrefix(block, x) <=> /\ \A i \in 1..(k - 1) : x[i] = block.net[i]
                             /\ x[k] \div 1 = block.net[k] \div 1
  BY <1>1, PrefixMeans
<1>3. x[k] \div 1 = x[k] /\ block.net[k] \div 1 = block.net[k]
  BY DEF Bytes, Byte
<1> QED
  BY <1>2, <1>3

\* The other family has another length.
LEMMA OtherFamily ==
    ASSUME NEW n, NEW x, Len(x) = n, NEW block, Len(block.net) # n
    PROVE  ~InPrefix(block, x)
BY DEF InPrefix

----------------------------------------------------------------------------
\* The prefix lengths of the table, over four bytes and over sixteen.

Block(net, bits) == [net |-> net, bits |-> bits]

LEMMA Prefixes4 ==
    ASSUME NEW x, Bytes(x, 4), NEW net, Bytes(net, 4)
    PROVE  /\ InPrefix(Block(net, 4), x) <=> x[1] \div 16 = net[1] \div 16
           /\ InPrefix(Block(net, 8), x) <=> x[1] = net[1]
           /\ InPrefix(Block(net, 10), x) <=>
                 x[1] = net[1] /\ x[2] \div 64 = net[2] \div 64
           /\ InPrefix(Block(net, 12), x) <=>
                 x[1] = net[1] /\ x[2] \div 16 = net[2] \div 16
           /\ InPrefix(Block(net, 15), x) <=>
                 x[1] = net[1] /\ x[2] \div 2 = net[2] \div 2
           /\ InPrefix(Block(net, 16), x) <=>
                 x[1] = net[1] /\ x[2] = net[2]
           /\ InPrefix(Block(net, 24), x) <=>
                 x[1] = net[1] /\ x[2] = net[2] /\ x[3] = net[3]
           /\ InPrefix(Block(net, 32), x) <=>
                 x[1] = net[1] /\ x[2] = net[2] /\ x[3] = net[3] /\ x[4] = net[4]
<1> DEFINE B(n) == Block(net, n)
<1>1. \A n : B(n).net = net /\ B(n).bits = n
  BY DEF Block
<1> HIDE DEF B
<1>2. /\ Ends(B(4), 4, 1, 4, 16)
      /\ Ends(B(10), 4, 2, 2, 64)
      /\ Ends(B(12), 4, 2, 4, 16)
      /\ Ends(B(15), 4, 2, 7, 2)
  BY <1>1, Powers DEF Ends
<1>3. InPrefix(B(4), x) <=> x[1] \div 16 = net[1] \div 16
  <2>1. InPrefix(B(4), x) <=> /\ \A i \in 1..(1 - 1) : x[i] = B(4).net[i]
                              /\ x[1] \div 16 = B(4).net[1] \div 16
    BY <1>2, PrefixMeans
  <2> QED
    BY <1>1, <2>1
<1>4. InPrefix(B(10), x) <=> x[1] = net[1] /\ x[2] \div 64 = net[2] \div 64
  <2>1. InPrefix(B(10), x) <=> /\ \A i \in 1..(2 - 1) : x[i] = B(10).net[i]
                               /\ x[2] \div 64 = B(10).net[2] \div 64
    BY <1>2, PrefixMeans
  <2> QED
    BY <1>1, <2>1
<1>5. InPrefix(B(12), x) <=> x[1] = net[1] /\ x[2] \div 16 = net[2] \div 16
  <2>1. InPrefix(B(12), x) <=> /\ \A i \in 1..(2 - 1) : x[i] = B(12).net[i]
                               /\ x[2] \div 16 = B(12).net[2] \div 16
    BY <1>2, PrefixMeans
  <2> QED
    BY <1>1, <2>1
<1>6. InPrefix(B(15), x) <=> x[1] = net[1] /\ x[2] \div 2 = net[2] \div 2
  <2>1. InPrefix(B(15), x) <=> /\ \A i \in 1..(2 - 1) : x[i] = B(15).net[i]
                               /\ x[2] \div 2 = B(15).net[2] \div 2
    BY <1>2, PrefixMeans
  <2> QED
    BY <1>1, <2>1
<1>7. ASSUME NEW k \in 1..4
      PROVE  InPrefix(B(8 * k), x) <=> \A i \in 1..k : x[i] = net[i]
  BY <1>1, WholeBytes
<1>8. /\ InPrefix(B(8 * 1), x) <=> x[1] = net[1]
      /\ InPrefix(B(8 * 2), x) <=> x[1] = net[1] /\ x[2] = net[2]
      /\ InPrefix(B(8 * 3), x) <=> x[1] = net[1] /\ x[2] = net[2] /\ x[3] = net[3]
      /\ InPrefix(B(8 * 4), x) <=>
            x[1] = net[1] /\ x[2] = net[2] /\ x[3] = net[3] /\ x[4] = net[4]
  BY <1>7
<1>9. 8 * 1 = 8 /\ 8 * 2 = 16 /\ 8 * 3 = 24 /\ 8 * 4 = 32
  OBVIOUS
<1> QED
  BY <1>3, <1>4, <1>5, <1>6, <1>8, <1>9 DEF B

LEMMA Prefixes16 ==
    ASSUME NEW x, Bytes(x, 16), NEW net, Bytes(net, 16)
    PROVE  /\ InPrefix(Block(net, 7), x) <=> x[1] \div 2 = net[1] \div 2
           /\ InPrefix(Block(net, 8), x) <=> x[1] = net[1]
           /\ InPrefix(Block(net, 10), x) <=>
                 x[1] = net[1] /\ x[2] \div 64 = net[2] \div 64
           /\ InPrefix(Block(net, 32), x) <=>
                 x[1] = net[1] /\ x[2] = net[2] /\ x[3] = net[3] /\ x[4] = net[4]
           /\ InPrefix(Block(net, 128), x) <=>
                 \A i \in 1..16 : x[i] = net[i]
<1> DEFINE B(n) == Block(net, n)
<1>1. \A n : B(n).net = net /\ B(n).bits = n
  BY DEF Block
<1> HIDE DEF B
<1>2. Ends(B(7), 16, 1, 7, 2) /\ Ends(B(10), 16, 2, 2, 64)
  BY <1>1, Powers DEF Ends
<1>3. InPrefix(B(7), x) <=> x[1] \div 2 = net[1] \div 2
  <2>1. InPrefix(B(7), x) <=> /\ \A i \in 1..(1 - 1) : x[i] = B(7).net[i]
                              /\ x[1] \div 2 = B(7).net[1] \div 2
    BY <1>2, PrefixMeans
  <2> QED
    BY <1>1, <2>1
<1>4. InPrefix(B(10), x) <=> x[1] = net[1] /\ x[2] \div 64 = net[2] \div 64
  <2>1. InPrefix(B(10), x) <=> /\ \A i \in 1..(2 - 1) : x[i] = B(10).net[i]
                               /\ x[2] \div 64 = B(10).net[2] \div 64
    BY <1>2, PrefixMeans
  <2> QED
    BY <1>1, <2>1
<1>5. ASSUME NEW k \in 1..16
      PROVE  InPrefix(B(8 * k), x) <=> \A i \in 1..k : x[i] = net[i]
  BY <1>1, WholeBytes
<1>6. /\ InPrefix(B(8 * 1), x) <=> x[1] = net[1]
      /\ InPrefix(B(8 * 4), x) <=>
            x[1] = net[1] /\ x[2] = net[2] /\ x[3] = net[3] /\ x[4] = net[4]
  BY <1>5
<1>7. InPrefix(B(8 * 16), x) <=> \A i \in 1..16 : x[i] = net[i]
  BY <1>5
<1>8. 8 * 1 = 8 /\ 8 * 4 = 32 /\ 8 * 16 = 128
  OBVIOUS
<1>9. /\ InPrefix(B(8), x) <=> x[1] = net[1]
      /\ InPrefix(B(32), x) <=>
            x[1] = net[1] /\ x[2] = net[2] /\ x[3] = net[3] /\ x[4] = net[4]
  BY <1>6, <1>8
<1>10. InPrefix(B(128), x) <=> \A i \in 1..16 : x[i] = net[i]
  BY <1>7, <1>8
<1> QED
  BY <1>3, <1>4, <1>9, <1>10 DEF B

----------------------------------------------------------------------------
\* The ranges of Reserved, unrolled.

Ints(x, n) == x \in Seq(Int) /\ Len(x) = n
Four(a, b, c, d) == <<a, b, c, d>>

LEMMA FourInts ==
    ASSUME NEW a \in Int, NEW b \in Int, NEW c \in Int, NEW d \in Int
    PROVE  /\ Ints(Four(a, b, c, d), 4)
           /\ Four(a, b, c, d)[1] = a /\ Four(a, b, c, d)[2] = b
           /\ Four(a, b, c, d)[3] = c /\ Four(a, b, c, d)[4] = d
BY DEF Ints, Four

LEMMA EachInt ==
    ASSUME NEW n, NEW x, Ints(x, n), NEW i \in 1..n
    PROVE  x[i] \in Int
BY ElementOfSeq DEF Ints

LEMMA IntBytes ==
    ASSUME NEW x, Ints(x, 4)
    PROVE  x[1] \in Int /\ x[2] \in Int /\ x[3] \in Int /\ x[4] \in Int
BY EachInt

LEMMA Equal4 ==
    ASSUME NEW x, NEW y, Ints(x, 4), Ints(y, 4)
    PROVE  x = y <=> x[1] = y[1] /\ x[2] = y[2] /\ x[3] = y[3] /\ x[4] = y[4]
<1>1. ASSUME x[1] = y[1], x[2] = y[2], x[3] = y[3], x[4] = y[4]
      PROVE  x = y
  <2>1. Len(x) = 4 /\ Len(y) = 4 /\ x \in Seq(Int) /\ y \in Seq(Int)
    BY DEF Ints
  <2>2. \A i \in 1..4 : x[i] = y[i]
    BY <1>1
  <2> QED
    BY <2>1, <2>2, SeqEqual
<1> QED
  BY <1>1

LEMMA AtMost4 ==
    ASSUME NEW u, NEW v, Ints(u, 4), Ints(v, 4)
    PROVE  AtMost(u, v) <=>
              \/ u[1] < v[1]
              \/ u[1] = v[1] /\ u[2] < v[2]
              \/ u[1] = v[1] /\ u[2] = v[2] /\ u[3] < v[3]
              \/ u[1] = v[1] /\ u[2] = v[2] /\ u[3] = v[3] /\ u[4] <= v[4]
<1> DEFINE First(i) == u[i] < v[i] /\ \A j \in 1..(i - 1) : u[j] = v[j]
<1>1. AtMost(u, v) <=> u = v \/ \E i \in 1..4 : First(i)
  BY DEF AtMost, Ints
<1>2. /\ First(1) <=> u[1] < v[1]
      /\ First(2) <=> u[1] = v[1] /\ u[2] < v[2]
      /\ First(3) <=> u[1] = v[1] /\ u[2] = v[2] /\ u[3] < v[3]
      /\ First(4) <=> u[1] = v[1] /\ u[2] = v[2] /\ u[3] = v[3] /\ u[4] < v[4]
  OBVIOUS
<1> HIDE DEF First
<1>3. (\E i \in 1..4 : First(i)) <=> First(1) \/ First(2) \/ First(3) \/ First(4)
  OBVIOUS
<1>4. u[4] \in Int /\ v[4] \in Int
  BY IntBytes
<1> QED
  BY <1>1, <1>2, <1>3, <1>4, Equal4

\* The addresses between two that share the first byte.
LEMMA Span4 ==
    ASSUME NEW a \in Int, NEW b \in Int, NEW c \in Int, NEW d \in Int,
           NEW f \in Int, NEW g \in Int, NEW h \in Int, NEW x, Ints(x, 4)
    PROVE  AtMost(Four(a, b, c, d), x) /\ AtMost(x, Four(a, f, g, h)) <=>
              /\ x[1] = a
              /\ \/ b < x[2]
                 \/ b = x[2] /\ c < x[3]
                 \/ b = x[2] /\ c = x[3] /\ d <= x[4]
              /\ \/ x[2] < f
                 \/ f = x[2] /\ x[3] < g
                 \/ f = x[2] /\ g = x[3] /\ x[4] <= h
<1>1. x[1] \in Int /\ x[2] \in Int /\ x[3] \in Int /\ x[4] \in Int
  BY IntBytes
<1> DEFINE y == Four(a, b, c, d)
           z == Four(a, f, g, h)
<1>2. /\ Ints(y, 4) /\ y[1] = a /\ y[2] = b /\ y[3] = c /\ y[4] = d
      /\ Ints(z, 4) /\ z[1] = a /\ z[2] = f /\ z[3] = g /\ z[4] = h
  BY FourInts
<1> HIDE DEF y, z
<1>3. AtMost(y, x) <=>
         \/ a < x[1]
         \/ a = x[1] /\ b < x[2]
         \/ a = x[1] /\ b = x[2] /\ c < x[3]
         \/ a = x[1] /\ b = x[2] /\ c = x[3] /\ d <= x[4]
  BY <1>2, AtMost4
<1>4. AtMost(x, z) <=>
         \/ x[1] < a
         \/ x[1] = a /\ x[2] < f
         \/ x[1] = a /\ x[2] = f /\ x[3] < g
         \/ x[1] = a /\ x[2] = f /\ x[3] = g /\ x[4] <= h
  BY <1>2, AtMost4
<1> QED
  BY <1>1, <1>3, <1>4 DEF y, z

\* The IPv4 ranges as conditions on the bytes.
InRanges4(x) ==
    \/ x[1] = 0 \/ x[1] = 10 \/ x[1] = 127 \/ 224 <= x[1]
    \/ x[1] = 100 /\ 64 <= x[2] /\ x[2] <= 127
    \/ x[1] = 169 /\ x[2] = 254
    \/ x[1] = 172 /\ 16 <= x[2] /\ x[2] <= 31
    \/ x[1] = 192 /\ x[2] = 0 /\ (x[3] = 0 \/ x[3] = 2)
    \/ x[1] = 192 /\ x[2] = 168
    \/ x[1] = 198 /\ (x[2] = 18 \/ x[2] = 19)
    \/ x[1] = 198 /\ x[2] = 51 /\ x[3] = 100
    \/ x[1] = 203 /\ x[2] = 0 /\ x[3] = 113

Pair(lo, hi) == <<lo, hi>>
LEMMA Reserved4 ==
    ASSUME NEW x, Ints(x, 4), Bytes(x, 4)
    PROVE  Within(Ranges4, x) <=> InRanges4(x)
<1> DEFINE Span(lo, hi) == AtMost(lo, x) /\ AtMost(x, hi)
<1>1. /\ x[1] \in Int /\ 0 <= x[1] /\ x[1] <= 255
      /\ x[2] \in Int /\ 0 <= x[2] /\ x[2] <= 255
      /\ x[3] \in Int /\ 0 <= x[3] /\ x[3] <= 255
      /\ x[4] \in Int /\ 0 <= x[4] /\ x[4] <= 255
  BY DEF Bytes, Byte
<1>2. ASSUME NEW a \in Int
      PROVE  Span(Four(a, 0, 0, 0), Four(a, 255, 255, 255)) <=> x[1] = a
  <2>1. Span(Four(a, 0, 0, 0), Four(a, 255, 255, 255)) <=>
           /\ x[1] = a
           /\ \/ 0 < x[2]
              \/ 0 = x[2] /\ 0 < x[3]
              \/ 0 = x[2] /\ 0 = x[3] /\ 0 <= x[4]
           /\ \/ x[2] < 255
              \/ 255 = x[2] /\ x[3] < 255
              \/ 255 = x[2] /\ 255 = x[3] /\ x[4] <= 255
    BY Span4
  <2> QED
    BY <1>1, <2>1
<1>3. ASSUME NEW a \in Int, NEW b \in Int, NEW f \in Int
      PROVE  Span(Four(a, b, 0, 0), Four(a, f, 255, 255)) <=>
                x[1] = a /\ b <= x[2] /\ x[2] <= f
  <2>1. Span(Four(a, b, 0, 0), Four(a, f, 255, 255)) <=>
           /\ x[1] = a
           /\ \/ b < x[2]
              \/ b = x[2] /\ 0 < x[3]
              \/ b = x[2] /\ 0 = x[3] /\ 0 <= x[4]
           /\ \/ x[2] < f
              \/ f = x[2] /\ x[3] < 255
              \/ f = x[2] /\ 255 = x[3] /\ x[4] <= 255
    BY Span4
  <2> QED
    BY <1>1, <2>1
<1>4. ASSUME NEW a \in Int, NEW b \in Int, NEW c \in Int
      PROVE  Span(Four(a, b, c, 0), Four(a, b, c, 255)) <=>
                x[1] = a /\ x[2] = b /\ x[3] = c
  <2>1. Span(Four(a, b, c, 0), Four(a, b, c, 255)) <=>
           /\ x[1] = a
           /\ \/ b < x[2]
              \/ b = x[2] /\ c < x[3]
              \/ b = x[2] /\ c = x[3] /\ 0 <= x[4]
           /\ \/ x[2] < b
              \/ b = x[2] /\ x[3] < c
              \/ b = x[2] /\ c = x[3] /\ x[4] <= 255
    BY Span4
  <2> QED
    BY <1>1, <2>1
<1>8. Span(Four(224, 0, 0, 0), Four(255, 255, 255, 255)) <=> 224 <= x[1]
  <2> DEFINE y == Four(224, 0, 0, 0)
             z == Four(255, 255, 255, 255)
  <2>1. /\ Ints(y, 4) /\ y[1] = 224 /\ y[2] = 0 /\ y[3] = 0 /\ y[4] = 0
        /\ Ints(z, 4) /\ z[1] = 255 /\ z[2] = 255 /\ z[3] = 255 /\ z[4] = 255
    BY FourInts
  <2> HIDE DEF y, z
  <2>2. AtMost(y, x) /\ AtMost(x, z) <=> 224 <= x[1]
    BY <1>1, <2>1, AtMost4
  <2> QED
    BY <2>2 DEF y, z, Span
<1>9. Ranges4 = {
         Pair(Four(0, 0, 0, 0), Four(0, 255, 255, 255)),
         Pair(Four(10, 0, 0, 0), Four(10, 255, 255, 255)),
         Pair(Four(100, 64, 0, 0), Four(100, 127, 255, 255)),
         Pair(Four(127, 0, 0, 0), Four(127, 255, 255, 255)),
         Pair(Four(169, 254, 0, 0), Four(169, 254, 255, 255)),
         Pair(Four(172, 16, 0, 0), Four(172, 31, 255, 255)),
         Pair(Four(192, 0, 0, 0), Four(192, 0, 0, 255)),
         Pair(Four(192, 0, 2, 0), Four(192, 0, 2, 255)),
         Pair(Four(192, 168, 0, 0), Four(192, 168, 255, 255)),
         Pair(Four(198, 18, 0, 0), Four(198, 19, 255, 255)),
         Pair(Four(198, 51, 100, 0), Four(198, 51, 100, 255)),
         Pair(Four(203, 0, 113, 0), Four(203, 0, 113, 255)),
         Pair(Four(224, 0, 0, 0), Four(255, 255, 255, 255)) }
  BY DEF Ranges4, Pair, Four
<1>10. Within(Ranges4, x) <=>
         \/ Span(Four(0, 0, 0, 0), Four(0, 255, 255, 255))
         \/ Span(Four(10, 0, 0, 0), Four(10, 255, 255, 255))
         \/ Span(Four(100, 64, 0, 0), Four(100, 127, 255, 255))
         \/ Span(Four(127, 0, 0, 0), Four(127, 255, 255, 255))
         \/ Span(Four(169, 254, 0, 0), Four(169, 254, 255, 255))
         \/ Span(Four(172, 16, 0, 0), Four(172, 31, 255, 255))
         \/ Span(Four(192, 0, 0, 0), Four(192, 0, 0, 255))
         \/ Span(Four(192, 0, 2, 0), Four(192, 0, 2, 255))
         \/ Span(Four(192, 168, 0, 0), Four(192, 168, 255, 255))
         \/ Span(Four(198, 18, 0, 0), Four(198, 19, 255, 255))
         \/ Span(Four(198, 51, 100, 0), Four(198, 51, 100, 255))
         \/ Span(Four(203, 0, 113, 0), Four(203, 0, 113, 255))
         \/ Span(Four(224, 0, 0, 0), Four(255, 255, 255, 255))
  <2> DEFINE Holds(r) == AtMost(r[1], x) /\ AtMost(x, r[2])
  <2>1. Within(Ranges4, x) <=> \E r \in Ranges4 : Holds(r)
    BY DEF Within
  <2>2. \A lo, hi : Holds(Pair(lo, hi)) <=> Span(lo, hi)
    BY DEF Pair, Span
  <2> HIDE DEF Holds
  <2> QED
    BY <1>9, <2>1, <2>2
<1> HIDE DEF Span
<1>5. /\ Span(Four(0, 0, 0, 0), Four(0, 255, 255, 255)) <=> x[1] = 0
      /\ Span(Four(10, 0, 0, 0), Four(10, 255, 255, 255)) <=> x[1] = 10
      /\ Span(Four(127, 0, 0, 0), Four(127, 255, 255, 255)) <=> x[1] = 127
  BY <1>2
<1>6. /\ Span(Four(100, 64, 0, 0), Four(100, 127, 255, 255)) <=>
            x[1] = 100 /\ 64 <= x[2] /\ x[2] <= 127
      /\ Span(Four(169, 254, 0, 0), Four(169, 254, 255, 255)) <=>
            x[1] = 169 /\ 254 <= x[2] /\ x[2] <= 254
      /\ Span(Four(172, 16, 0, 0), Four(172, 31, 255, 255)) <=>
            x[1] = 172 /\ 16 <= x[2] /\ x[2] <= 31
      /\ Span(Four(192, 168, 0, 0), Four(192, 168, 255, 255)) <=>
            x[1] = 192 /\ 168 <= x[2] /\ x[2] <= 168
      /\ Span(Four(198, 18, 0, 0), Four(198, 19, 255, 255)) <=>
            x[1] = 198 /\ 18 <= x[2] /\ x[2] <= 19
  BY <1>3
<1>7. /\ Span(Four(192, 0, 0, 0), Four(192, 0, 0, 255)) <=>
            x[1] = 192 /\ x[2] = 0 /\ x[3] = 0
      /\ Span(Four(192, 0, 2, 0), Four(192, 0, 2, 255)) <=>
            x[1] = 192 /\ x[2] = 0 /\ x[3] = 2
      /\ Span(Four(198, 51, 100, 0), Four(198, 51, 100, 255)) <=>
            x[1] = 198 /\ x[2] = 51 /\ x[3] = 100
      /\ Span(Four(203, 0, 113, 0), Four(203, 0, 113, 255)) <=>
            x[1] = 203 /\ x[2] = 0 /\ x[3] = 113
  BY <1>4
<1> QED
  BY <1>1, <1>5, <1>6, <1>7, <1>8, <1>10 DEF InRanges4

----------------------------------------------------------------------------
\* The table of the source, block by block.

LEMMA Table ==
    PrivateBlocks =
        { Block(Four(0, 0, 0, 0), 8), Block(Four(10, 0, 0, 0), 8),
          Block(Four(100, 64, 0, 0), 10), Block(Four(127, 0, 0, 0), 8),
          Block(Four(169, 254, 0, 0), 16), Block(Four(172, 16, 0, 0), 12),
          Block(Four(192, 0, 0, 0), 24), Block(Four(192, 0, 2, 0), 24),
          Block(Four(192, 168, 0, 0), 16), Block(Four(198, 18, 0, 0), 15),
          Block(Four(198, 51, 100, 0), 24), Block(Four(203, 0, 113, 0), 24),
          Block(Four(224, 0, 0, 0), 4), Block(Four(240, 0, 0, 0), 4),
          Block(Four(255, 255, 255, 255), 32) }
        \union
        { Block(Loopback6, 128), Block(Net6(<< >>), 128), Block(Net6(<<252>>), 7),
          Block(Net6(<<254, 128>>), 10), Block(Net6(<<255>>), 8),
          Block(Net6(<<32, 1, 13, 184>>), 32) }
BY DEF PrivateBlocks, Block, Four

LEMMA Networks6 ==
    /\ Bytes(Loopback6, 16)
    /\ \A i \in 1..16 : Loopback6[i] = IF i = 16 THEN 1 ELSE 0
    /\ Bytes(Net6(<< >>), 16)
    /\ \A i \in 1..16 : Net6(<< >>)[i] = 0
    /\ Bytes(Net6(<<252>>), 16) /\ Net6(<<252>>)[1] = 252
    /\ Bytes(Net6(<<254, 128>>), 16)
    /\ Net6(<<254, 128>>)[1] = 254 /\ Net6(<<254, 128>>)[2] = 128
    /\ Bytes(Net6(<<255>>), 16) /\ Net6(<<255>>)[1] = 255
    /\ Bytes(Net6(<<32, 1, 13, 184>>), 16)
    /\ Net6(<<32, 1, 13, 184>>)[1] = 32 /\ Net6(<<32, 1, 13, 184>>)[2] = 1
    /\ Net6(<<32, 1, 13, 184>>)[3] = 13 /\ Net6(<<32, 1, 13, 184>>)[4] = 184
<1>1. ASSUME NEW lead, NEW n \in 0..4, Len(lead) = n, \A i \in 1..n : Byte(lead[i])
      PROVE  /\ Bytes(Net6(lead), 16)
             /\ \A i \in 1..16 : Net6(lead)[i] = IF i <= n THEN lead[i] ELSE 0
  <2>1. \A i \in 1..16 : Net6(lead)[i] = IF i <= n THEN lead[i] ELSE 0
    BY <1>1 DEF Net6
  <2>2. Len(Net6(lead)) = 16
    BY DEF Net6
  <2>3. ASSUME NEW i \in 1..16
        PROVE  Byte(Net6(lead)[i])
    <3>1. CASE i <= n
      BY <1>1, <2>1, <3>1
    <3>2. CASE ~(i <= n)
      BY <2>1, <3>2 DEF Byte
    <3> QED
      BY <3>1, <3>2
  <2> QED
    BY <2>1, <2>2, <2>3 DEF Bytes
<1>2. Bytes(Net6(<< >>), 16) /\ \A i \in 1..16 : Net6(<< >>)[i] = 0
  <2>1. Len(<< >>) = 0
    OBVIOUS
  <2> QED
    BY <1>1, <2>1
<1>3. Bytes(Net6(<<252>>), 16) /\ Net6(<<252>>)[1] = 252
  <2> DEFINE lead == <<252>>
  <2>1. Len(lead) = 1 /\ lead[1] = 252 /\ Byte(252)
    BY DEF Byte
  <2> HIDE DEF lead
  <2> QED
    BY <1>1, <2>1 DEF lead
<1>4. /\ Bytes(Net6(<<254, 128>>), 16)
      /\ Net6(<<254, 128>>)[1] = 254 /\ Net6(<<254, 128>>)[2] = 128
  <2> DEFINE lead == <<254, 128>>
  <2>1. Len(lead) = 2 /\ lead[1] = 254 /\ lead[2] = 128 /\ Byte(254) /\ Byte(128)
    BY DEF Byte
  <2> HIDE DEF lead
  <2> QED
    BY <1>1, <2>1 DEF lead
<1>5. Bytes(Net6(<<255>>), 16) /\ Net6(<<255>>)[1] = 255
  <2> DEFINE lead == <<255>>
  <2>1. Len(lead) = 1 /\ lead[1] = 255 /\ Byte(255)
    BY DEF Byte
  <2> HIDE DEF lead
  <2> QED
    BY <1>1, <2>1 DEF lead
<1>6. /\ Bytes(Net6(<<32, 1, 13, 184>>), 16)
      /\ Net6(<<32, 1, 13, 184>>)[1] = 32 /\ Net6(<<32, 1, 13, 184>>)[2] = 1
      /\ Net6(<<32, 1, 13, 184>>)[3] = 13 /\ Net6(<<32, 1, 13, 184>>)[4] = 184
  <2> DEFINE lead == <<32, 1, 13, 184>>
  <2>1. /\ Len(lead) = 4 /\ Byte(32) /\ Byte(1) /\ Byte(13) /\ Byte(184)
        /\ lead[1] = 32 /\ lead[2] = 1 /\ lead[3] = 13 /\ lead[4] = 184
    BY DEF Byte
  <2> HIDE DEF lead
  <2> QED
    BY <1>1, <2>1 DEF lead
<1>7. Bytes(Loopback6, 16) /\ \A i \in 1..16 : Loopback6[i] = IF i = 16 THEN 1 ELSE 0
  <2>1. Loopback6 = [i \in 1..16 |-> IF i = 16 THEN 1 ELSE 0]
    <3>1. Net6(<< >>) = [i \in 1..16 |-> 0]
      BY DEF Net6
    <3> QED
      BY <3>1 DEF Loopback6
  <2>2. Len(Loopback6) = 16
    BY <2>1
  <2>3. \A i \in 1..16 : Loopback6[i] = IF i = 16 THEN 1 ELSE 0
    BY <2>1
  <2>4. Byte(0) /\ Byte(1)
    BY DEF Byte
  <2> QED
    BY <2>2, <2>3, <2>4 DEF Bytes
<1> QED
  BY <1>2, <1>3, <1>4, <1>5, <1>6, <1>7

\* Among the blocks, an IPv4 address only meets IPv4 ones, and is in one of
\* them exactly when it is in one of the ranges.
LEMMA Private4 ==
    ASSUME NEW x, Ints(x, 4), Bytes(x, 4)
    PROVE  (\E block \in PrivateBlocks : InPrefix(block, x)) <=> Within(Ranges4, x)
<1> DEFINE Holds(block) == InPrefix(block, x)
<1>1. /\ x[1] \in Int /\ 0 <= x[1] /\ x[1] <= 255
      /\ x[2] \in Int /\ 0 <= x[2] /\ x[2] <= 255
      /\ x[3] \in Int /\ 0 <= x[3] /\ x[3] <= 255
      /\ x[4] \in Int /\ 0 <= x[4] /\ x[4] <= 255
  BY DEF Bytes, Byte
<1>2. ASSUME NEW a \in Nat, NEW b \in Nat, NEW c \in Nat, NEW d \in Nat,
             a < 256, b < 256, c < 256, d < 256
      PROVE  /\ Holds(Block(Four(a, b, c, d), 4)) <=> x[1] \div 16 = a \div 16
             /\ Holds(Block(Four(a, b, c, d), 8)) <=> x[1] = a
             /\ Holds(Block(Four(a, b, c, d), 10)) <=> x[1] = a /\ x[2] \div 64 = b \div 64
             /\ Holds(Block(Four(a, b, c, d), 12)) <=> x[1] = a /\ x[2] \div 16 = b \div 16
             /\ Holds(Block(Four(a, b, c, d), 15)) <=> x[1] = a /\ x[2] \div 2 = b \div 2
             /\ Holds(Block(Four(a, b, c, d), 16)) <=> x[1] = a /\ x[2] = b
             /\ Holds(Block(Four(a, b, c, d), 24)) <=> x[1] = a /\ x[2] = b /\ x[3] = c
             /\ Holds(Block(Four(a, b, c, d), 32)) <=>
                   x[1] = a /\ x[2] = b /\ x[3] = c /\ x[4] = d
  <2> DEFINE y == Four(a, b, c, d)
  <2>1. Ints(y, 4) /\ y[1] = a /\ y[2] = b /\ y[3] = c /\ y[4] = d
    BY FourInts
  <2>2. Bytes(y, 4)
    <3>1. Byte(a) /\ Byte(b) /\ Byte(c) /\ Byte(d)
      BY <1>2 DEF Byte
    <3> HIDE DEF y
    <3>2. Len(y) = 4
      BY <2>1 DEF Ints
    <3> QED
      BY <2>1, <3>1, <3>2 DEF Bytes
  <2> HIDE DEF y
  <2>3. /\ Holds(Block(y, 4)) <=> x[1] \div 16 = y[1] \div 16
        /\ Holds(Block(y, 8)) <=> x[1] = y[1]
        /\ Holds(Block(y, 10)) <=> x[1] = y[1] /\ x[2] \div 64 = y[2] \div 64
        /\ Holds(Block(y, 12)) <=> x[1] = y[1] /\ x[2] \div 16 = y[2] \div 16
        /\ Holds(Block(y, 15)) <=> x[1] = y[1] /\ x[2] \div 2 = y[2] \div 2
        /\ Holds(Block(y, 16)) <=> x[1] = y[1] /\ x[2] = y[2]
        /\ Holds(Block(y, 24)) <=> x[1] = y[1] /\ x[2] = y[2] /\ x[3] = y[3]
        /\ Holds(Block(y, 32)) <=>
              x[1] = y[1] /\ x[2] = y[2] /\ x[3] = y[3] /\ x[4] = y[4]
    BY <2>2, Prefixes4
  <2> QED
    BY <2>1, <2>3 DEF y
<1>3. /\ ~Holds(Block(Loopback6, 128)) /\ ~Holds(Block(Net6(<< >>), 128))
      /\ ~Holds(Block(Net6(<<252>>), 7)) /\ ~Holds(Block(Net6(<<254, 128>>), 10))
      /\ ~Holds(Block(Net6(<<255>>), 8)) /\ ~Holds(Block(Net6(<<32, 1, 13, 184>>), 32))
  <2>1. \A net, bits : Bytes(net, 16) => ~Holds(Block(net, bits))
    BY DEF Bytes, InPrefix, Block
  <2> HIDE DEF Holds
  <2> QED
    BY <2>1, Networks6
<1> HIDE DEF Holds
<1>4. (\E block \in PrivateBlocks : Holds(block)) <=>
         \/ Holds(Block(Four(0, 0, 0, 0), 8)) \/ Holds(Block(Four(10, 0, 0, 0), 8))
         \/ Holds(Block(Four(100, 64, 0, 0), 10)) \/ Holds(Block(Four(127, 0, 0, 0), 8))
         \/ Holds(Block(Four(169, 254, 0, 0), 16)) \/ Holds(Block(Four(172, 16, 0, 0), 12))
         \/ Holds(Block(Four(192, 0, 0, 0), 24)) \/ Holds(Block(Four(192, 0, 2, 0), 24))
         \/ Holds(Block(Four(192, 168, 0, 0), 16)) \/ Holds(Block(Four(198, 18, 0, 0), 15))
         \/ Holds(Block(Four(198, 51, 100, 0), 24)) \/ Holds(Block(Four(203, 0, 113, 0), 24))
         \/ Holds(Block(Four(224, 0, 0, 0), 4)) \/ Holds(Block(Four(240, 0, 0, 0), 4))
         \/ Holds(Block(Four(255, 255, 255, 255), 32))
  <2>1. (\E block \in PrivateBlocks : Holds(block)) <=>
           \/ Holds(Block(Four(0, 0, 0, 0), 8)) \/ Holds(Block(Four(10, 0, 0, 0), 8))
           \/ Holds(Block(Four(100, 64, 0, 0), 10)) \/ Holds(Block(Four(127, 0, 0, 0), 8))
           \/ Holds(Block(Four(169, 254, 0, 0), 16)) \/ Holds(Block(Four(172, 16, 0, 0), 12))
           \/ Holds(Block(Four(192, 0, 0, 0), 24)) \/ Holds(Block(Four(192, 0, 2, 0), 24))
           \/ Holds(Block(Four(192, 168, 0, 0), 16)) \/ Holds(Block(Four(198, 18, 0, 0), 15))
           \/ Holds(Block(Four(198, 51, 100, 0), 24)) \/ Holds(Block(Four(203, 0, 113, 0), 24))
           \/ Holds(Block(Four(224, 0, 0, 0), 4)) \/ Holds(Block(Four(240, 0, 0, 0), 4))
           \/ Holds(Block(Four(255, 255, 255, 255), 32))
           \/ Holds(Block(Loopback6, 128))
           \/ Holds(Block(Net6(<< >>), 128))
           \/ Holds(Block(Net6(<<252>>), 7))
           \/ Holds(Block(Net6(<<254, 128>>), 10))
           \/ Holds(Block(Net6(<<255>>), 8))
           \/ Holds(Block(Net6(<<32, 1, 13, 184>>), 32))
    BY Table
  <2> QED
    BY <1>3, <2>1
<1>5. /\ Holds(Block(Four(0, 0, 0, 0), 8)) <=> x[1] = 0
      /\ Holds(Block(Four(10, 0, 0, 0), 8)) <=> x[1] = 10
      /\ Holds(Block(Four(127, 0, 0, 0), 8)) <=> x[1] = 127
  BY <1>2
<1>6. Holds(Block(Four(100, 64, 0, 0), 10)) <=> x[1] = 100 /\ 64 <= x[2] /\ x[2] <= 127
  <2>1. Holds(Block(Four(100, 64, 0, 0), 10)) <=> x[1] = 100 /\ x[2] \div 64 = 64 \div 64
    BY <1>2
  <2> QED
    BY <1>1, <2>1
<1>7. Holds(Block(Four(172, 16, 0, 0), 12)) <=> x[1] = 172 /\ 16 <= x[2] /\ x[2] <= 31
  <2>1. Holds(Block(Four(172, 16, 0, 0), 12)) <=> x[1] = 172 /\ x[2] \div 16 = 16 \div 16
    BY <1>2
  <2> QED
    BY <1>1, <2>1
<1>8. Holds(Block(Four(198, 18, 0, 0), 15)) <=> x[1] = 198 /\ (x[2] = 18 \/ x[2] = 19)
  <2>1. Holds(Block(Four(198, 18, 0, 0), 15)) <=> x[1] = 198 /\ x[2] \div 2 = 18 \div 2
    BY <1>2
  <2> QED
    BY <1>1, <2>1
<1>9. /\ Holds(Block(Four(169, 254, 0, 0), 16)) <=> x[1] = 169 /\ x[2] = 254
      /\ Holds(Block(Four(192, 168, 0, 0), 16)) <=> x[1] = 192 /\ x[2] = 168
  BY <1>2
<1>10. /\ Holds(Block(Four(192, 0, 0, 0), 24)) <=> x[1] = 192 /\ x[2] = 0 /\ x[3] = 0
       /\ Holds(Block(Four(192, 0, 2, 0), 24)) <=> x[1] = 192 /\ x[2] = 0 /\ x[3] = 2
       /\ Holds(Block(Four(198, 51, 100, 0), 24)) <=> x[1] = 198 /\ x[2] = 51 /\ x[3] = 100
       /\ Holds(Block(Four(203, 0, 113, 0), 24)) <=> x[1] = 203 /\ x[2] = 0 /\ x[3] = 113
  <2>1. \A a, b, c \in Nat :
           a < 256 /\ b < 256 /\ c < 256
           => (Holds(Block(Four(a, b, c, 0), 24)) <=> x[1] = a /\ x[2] = b /\ x[3] = c)
    BY <1>2
  <2> QED
    BY <2>1
<1>11. /\ Holds(Block(Four(224, 0, 0, 0), 4)) \/ Holds(Block(Four(240, 0, 0, 0), 4)) <=> 224 <= x[1]
       /\ Holds(Block(Four(255, 255, 255, 255), 32)) => 224 <= x[1]
  <2>1. /\ Holds(Block(Four(224, 0, 0, 0), 4)) <=> x[1] \div 16 = 224 \div 16
        /\ Holds(Block(Four(240, 0, 0, 0), 4)) <=> x[1] \div 16 = 240 \div 16
        /\ Holds(Block(Four(255, 255, 255, 255), 32)) => x[1] = 255
    BY <1>2
  <2> QED
    BY <1>1, <2>1
<1>12. (\E block \in PrivateBlocks : Holds(block)) <=> InRanges4(x)
  BY <1>4, <1>5, <1>6, <1>7, <1>8, <1>9, <1>10, <1>11 DEF InRanges4
<1> QED
  BY <1>12, Reserved4 DEF Holds

----------------------------------------------------------------------------
\* The same for IPv6: eight words, sixteen bytes.

Words(w) == Ints(w, 8) /\ \A k \in 1..8 : 0 <= w[k] /\ w[k] < 65536
One6 == <<0, 0, 0, 0, 0, 0, 0, 1>>

LEMMA EachWord ==
    ASSUME NEW w, Words(w), NEW k \in 1..8
    PROVE  w[k] \in Int /\ 0 <= w[k] /\ w[k] < 65536
BY EachInt DEF Words

\* Byte by byte: each word gives its high and its low half.
LEMMA WordHalves ==
    ASSUME NEW w, Words(w)
    PROVE  /\ Bytes(WordBytes(w), 16)
           /\ \A k \in 1..8 : /\ WordBytes(w)[2 * k - 1] = w[k] \div 256
                              /\ WordBytes(w)[2 * k] = w[k] % 256
<1> DEFINE x == WordBytes(w)
<1>1. x = [i \in 1..16 |-> IF i % 2 = 1 THEN w[(i + 1) \div 2] \div 256
                                        ELSE w[i \div 2] % 256]
  BY DEF WordBytes
<1>2. ASSUME NEW k \in 1..8
      PROVE  /\ 2 * k - 1 \in 1..16 /\ 2 * k \in 1..16
             /\ x[2 * k - 1] = w[k] \div 256 /\ x[2 * k] = w[k] % 256
             /\ Byte(x[2 * k - 1]) /\ Byte(x[2 * k])
  <2>1. 2 * k - 1 \in 1..16 /\ 2 * k \in 1..16
    OBVIOUS
  <2>2. (2 * k - 1) % 2 = 1 /\ (2 * k) % 2 = 0 /\ (2 * k) \div 2 = k
    OBVIOUS
  <2>3. (2 * k - 1) + 1 = 2 * k
    OBVIOUS
  <2>4. x[2 * k - 1] = w[k] \div 256 /\ x[2 * k] = w[k] % 256
    BY <1>1, <2>1, <2>2, <2>3
  <2>5. Byte(w[k] \div 256) /\ Byte(w[k] % 256)
    <3>1. w[k] \in Int /\ 0 <= w[k] /\ w[k] < 65536
      BY EachWord
    <3> QED
      BY <3>1 DEF Byte
  <2> QED
    BY <2>1, <2>4, <2>5
<1>3. Len(x) = 16
  BY <1>1
<1> HIDE DEF x
<1>4. ASSUME NEW i \in 1..16
      PROVE  Byte(x[i])
  <2>1. PICK k \in 1..8 : i = 2 * k - 1 \/ i = 2 * k
    <3>1. CASE i % 2 = 0
      <4>1. i \div 2 \in 1..8 /\ i = 2 * (i \div 2)
        BY <3>1
      <4> QED
        BY <4>1
    <3>2. CASE i % 2 = 1
      <4>1. (i + 1) \div 2 \in 1..8 /\ i = 2 * ((i + 1) \div 2) - 1
        BY <3>2
      <4> QED
        BY <4>1
    <3> QED
      BY <3>1, <3>2
  <2> QED
    BY <1>2, <2>1
<1> QED
  BY <1>2, <1>3, <1>4 DEF Bytes, x

LEMMA Equal8 ==
    ASSUME NEW x, NEW y, Ints(x, 8), Ints(y, 8)
    PROVE  x = y <=> /\ x[1] = y[1] /\ x[2] = y[2] /\ x[3] = y[3] /\ x[4] = y[4]
                     /\ x[5] = y[5] /\ x[6] = y[6] /\ x[7] = y[7] /\ x[8] = y[8]
<1>1. ASSUME x[1] = y[1], x[2] = y[2], x[3] = y[3], x[4] = y[4],
             x[5] = y[5], x[6] = y[6], x[7] = y[7], x[8] = y[8]
      PROVE  x = y
  <2>1. Len(x) = 8 /\ Len(y) = 8 /\ x \in Seq(Int) /\ y \in Seq(Int)
    BY DEF Ints
  <2>2. \A i \in 1..8 : x[i] = y[i]
    BY <1>1
  <2> QED
    BY <2>1, <2>2, SeqEqual
<1> QED
  BY <1>1

LEMMA AtMost8 ==
    ASSUME NEW u, NEW v, Ints(u, 8), Ints(v, 8)
    PROVE  AtMost(u, v) <=>
              \/ u[1] < v[1]
              \/ /\ u[1] = v[1]
                 /\ \/ u[2] < v[2]
                    \/ /\ u[2] = v[2]
                       /\ \/ u[3] < v[3]
                          \/ /\ u[3] = v[3]
                             /\ \/ u[4] < v[4]
                                \/ /\ u[4] = v[4]
                                   /\ \/ u[5] < v[5]
                                      \/ /\ u[5] = v[5]
                                         /\ \/ u[6] < v[6]
                                            \/ /\ u[6] = v[6]
                                               /\ \/ u[7] < v[7]
                                                  \/ /\ u[7] = v[7]
                                                     /\ u[8] <= v[8]
<1> DEFINE First(i) == u[i] < v[i] /\ \A j \in 1..(i - 1) : u[j] = v[j]
<1>1. AtMost(u, v) <=> u = v \/ \E i \in 1..8 : First(i)
  BY DEF AtMost, Ints
<1>2. /\ First(1) <=> u[1] < v[1]
      /\ First(2) <=> u[1] = v[1] /\ u[2] < v[2]
      /\ First(3) <=> u[1] = v[1] /\ u[2] = v[2] /\ u[3] < v[3]
      /\ First(4) <=> u[1] = v[1] /\ u[2] = v[2] /\ u[3] = v[3] /\ u[4] < v[4]
  OBVIOUS
<1>3. First(5) <=> /\ u[1] = v[1] /\ u[2] = v[2] /\ u[3] = v[3] /\ u[4] = v[4]
                   /\ u[5] < v[5]
  OBVIOUS
<1>4. First(6) <=> /\ u[1] = v[1] /\ u[2] = v[2] /\ u[3] = v[3] /\ u[4] = v[4]
                   /\ u[5] = v[5] /\ u[6] < v[6]
  OBVIOUS
<1>5. First(7) <=> /\ u[1] = v[1] /\ u[2] = v[2] /\ u[3] = v[3] /\ u[4] = v[4]
                   /\ u[5] = v[5] /\ u[6] = v[6] /\ u[7] < v[7]
  OBVIOUS
<1>6. First(8) <=> /\ u[1] = v[1] /\ u[2] = v[2] /\ u[3] = v[3] /\ u[4] = v[4]
                   /\ u[5] = v[5] /\ u[6] = v[6] /\ u[7] = v[7] /\ u[8] < v[8]
  OBVIOUS
<1> HIDE DEF First
<1>7. (\E i \in 1..8 : First(i)) <=>
         \/ First(1) \/ First(2) \/ First(3) \/ First(4)
         \/ First(5) \/ First(6) \/ First(7) \/ First(8)
  OBVIOUS
<1>8. u[8] \in Int /\ v[8] \in Int
  BY EachInt
<1> QED
  BY <1>1, <1>2, <1>3, <1>4, <1>5, <1>6, <1>7, <1>8, Equal8

LEMMA LedInts ==
    ASSUME NEW a \in Int, NEW b \in Int, NEW c \in Int
    PROVE  /\ Ints(Led(a, b, c), 8)
           /\ Led(a, b, c)[1] = a /\ Led(a, b, c)[2] = b
           /\ Led(a, b, c)[3] = c /\ Led(a, b, c)[4] = c /\ Led(a, b, c)[5] = c
           /\ Led(a, b, c)[6] = c /\ Led(a, b, c)[7] = c /\ Led(a, b, c)[8] = c
BY DEF Ints, Led

LEMMA One6Ints ==
    /\ Ints(One6, 8)
    /\ One6[1] = 0 /\ One6[2] = 0 /\ One6[3] = 0 /\ One6[4] = 0
    /\ One6[5] = 0 /\ One6[6] = 0 /\ One6[7] = 0 /\ One6[8] = 1
BY DEF Ints, One6

\* The IPv6 ranges as conditions on the words.
LowWords(w) ==
    /\ w[1] = 0 /\ w[2] = 0 /\ w[3] = 0 /\ w[4] = 0
    /\ w[5] = 0 /\ w[6] = 0 /\ w[7] = 0 /\ w[8] <= 1
InRanges6(w) ==
    \/ LowWords(w)
    \/ 64512 <= w[1] /\ w[1] <= 65023
    \/ 65152 <= w[1] /\ w[1] <= 65215
    \/ 65280 <= w[1]
    \/ w[1] = 8193 /\ w[2] = 3512

LEMMA Reserved6 ==
    ASSUME NEW w, Words(w)
    PROVE  Within(Ranges6, w) <=> InRanges6(w)
<1> DEFINE Span(lo, hi) == AtMost(lo, w) /\ AtMost(w, hi)
<1>1. /\ w[1] \in Int /\ 0 <= w[1] /\ w[1] <= 65535
      /\ w[2] \in Int /\ 0 <= w[2] /\ w[2] <= 65535
      /\ w[3] \in Int /\ 0 <= w[3] /\ w[3] <= 65535
      /\ w[4] \in Int /\ 0 <= w[4] /\ w[4] <= 65535
      /\ w[5] \in Int /\ 0 <= w[5] /\ w[5] <= 65535
      /\ w[6] \in Int /\ 0 <= w[6] /\ w[6] <= 65535
      /\ w[7] \in Int /\ 0 <= w[7] /\ w[7] <= 65535
      /\ w[8] \in Int /\ 0 <= w[8] /\ w[8] <= 65535
  BY EachWord
<1>2. Ints(w, 8)
  BY DEF Words
<1>3. ASSUME NEW a \in Int, NEW b \in Int
      PROVE  AtMost(Led(a, b, 0), w) <=> a < w[1] \/ (a = w[1] /\ b <= w[2])
  <2> DEFINE y == Led(a, b, 0)
  <2>1. /\ Ints(y, 8) /\ y[1] = a /\ y[2] = b /\ y[3] = 0 /\ y[4] = 0
        /\ y[5] = 0 /\ y[6] = 0 /\ y[7] = 0 /\ y[8] = 0
    BY LedInts
  <2> HIDE DEF y
  <2> QED
    BY <1>1, <1>2, <2>1, AtMost8 DEF y
<1>4. ASSUME NEW a \in Int, NEW b \in Int
      PROVE  AtMost(w, Led(a, b, 65535)) <=> w[1] < a \/ (w[1] = a /\ w[2] <= b)
  <2> DEFINE y == Led(a, b, 65535)
  <2>1. /\ Ints(y, 8) /\ y[1] = a /\ y[2] = b /\ y[3] = 65535 /\ y[4] = 65535
        /\ y[5] = 65535 /\ y[6] = 65535 /\ y[7] = 65535 /\ y[8] = 65535
    BY LedInts
  <2> HIDE DEF y
  <2> QED
    BY <1>1, <1>2, <2>1, AtMost8 DEF y
<1>5. AtMost(w, One6) <=> LowWords(w)
  BY <1>1, <1>2, One6Ints, AtMost8 DEF LowWords
<1>6. Span(Led(0, 0, 0), One6) <=> LowWords(w)
  BY <1>1, <1>3, <1>5
<1>7. /\ Span(Led(64512, 0, 0), Led(65023, 65535, 65535)) <=>
            64512 <= w[1] /\ w[1] <= 65023
      /\ Span(Led(65152, 0, 0), Led(65215, 65535, 65535)) <=>
            65152 <= w[1] /\ w[1] <= 65215
      /\ Span(Led(65280, 0, 0), Led(65535, 65535, 65535)) <=> 65280 <= w[1]
  BY <1>1, <1>3, <1>4
<1>8. Span(Led(8193, 3512, 0), Led(8193, 3512, 65535)) <=> w[1] = 8193 /\ w[2] = 3512
  BY <1>1, <1>3, <1>4
<1>9. Ranges6 = {
         Pair(Led(0, 0, 0), One6),
         Pair(Led(64512, 0, 0), Led(65023, 65535, 65535)),
         Pair(Led(65152, 0, 0), Led(65215, 65535, 65535)),
         Pair(Led(65280, 0, 0), Led(65535, 65535, 65535)),
         Pair(Led(8193, 3512, 0), Led(8193, 3512, 65535)) }
  BY DEF Ranges6, Pair, One6
<1>10. Within(Ranges6, w) <=>
          \/ Span(Led(0, 0, 0), One6)
          \/ Span(Led(64512, 0, 0), Led(65023, 65535, 65535))
          \/ Span(Led(65152, 0, 0), Led(65215, 65535, 65535))
          \/ Span(Led(65280, 0, 0), Led(65535, 65535, 65535))
          \/ Span(Led(8193, 3512, 0), Led(8193, 3512, 65535))
  <2> DEFINE Holds(r) == AtMost(r[1], w) /\ AtMost(w, r[2])
  <2>1. Within(Ranges6, w) <=> \E r \in Ranges6 : Holds(r)
    BY DEF Within
  <2>2. \A lo, hi : Holds(Pair(lo, hi)) <=> Span(lo, hi)
    BY DEF Pair, Span
  <2> HIDE DEF Holds
  <2> QED
    BY <1>9, <2>1, <2>2
<1> HIDE DEF Span
<1> QED
  BY <1>6, <1>7, <1>8, <1>10 DEF InRanges6

\* Sixteen bytes only meet the IPv6 blocks of the table.
LEMMA Private6 ==
    ASSUME NEW w, Words(w)
    PROVE  (\E block \in PrivateBlocks : InPrefix(block, WordBytes(w)))
              <=> Within(Ranges6, w)
<1> DEFINE x == WordBytes(w)
           Holds(block) == InPrefix(block, x)
<1>1. Bytes(x, 16)
  BY WordHalves
<1>2. ASSUME NEW k \in 1..8
      PROVE  /\ w[k] \in Int /\ 0 <= w[k] /\ w[k] <= 65535
             /\ x[2 * k - 1] = w[k] \div 256 /\ x[2 * k] = w[k] % 256
  BY EachWord, WordHalves
<1> HIDE DEF x
<1>3. ASSUME NEW net, Bytes(net, 16)
      PROVE  /\ Holds(Block(net, 7)) <=> x[1] \div 2 = net[1] \div 2
             /\ Holds(Block(net, 8)) <=> x[1] = net[1]
             /\ Holds(Block(net, 10)) <=> x[1] = net[1] /\ x[2] \div 64 = net[2] \div 64
             /\ Holds(Block(net, 32)) <=>
                   x[1] = net[1] /\ x[2] = net[2] /\ x[3] = net[3] /\ x[4] = net[4]
             /\ Holds(Block(net, 128)) <=> \A i \in 1..16 : x[i] = net[i]
  BY <1>1, <1>3, Prefixes16
<1>4. \A bits : \A a, b, c, d \in Int : ~Holds(Block(Four(a, b, c, d), bits))
  <2>1. \A net, bits : Ints(net, 4) => ~Holds(Block(net, bits))
    <3>1. Len(x) = 16
      BY <1>1 DEF Bytes
    <3>2. \A net : Ints(net, 4) => Len(net) # 16
      BY DEF Ints
    <3> QED
      BY <3>1, <3>2 DEF InPrefix, Block
  <2> HIDE DEF Holds
  <2> QED
    BY <2>1, FourInts
<1> HIDE DEF Holds
<1>5. x[1] = w[1] \div 256 /\ x[2] = w[1] % 256
  <2>1. x[2 * 1 - 1] = w[1] \div 256 /\ x[2 * 1] = w[1] % 256
    BY <1>2
  <2> QED
    BY <2>1
<1>6. x[3] = w[2] \div 256 /\ x[4] = w[2] % 256
  <2>1. x[2 * 2 - 1] = w[2] \div 256 /\ x[2 * 2] = w[2] % 256
    BY <1>2
  <2> QED
    BY <2>1
<1>7. /\ w[1] \in Int /\ 0 <= w[1] /\ w[1] <= 65535
      /\ w[2] \in Int /\ 0 <= w[2] /\ w[2] <= 65535
  BY <1>2
<1>8. Holds(Block(Net6(<<252>>), 7)) <=> 64512 <= w[1] /\ w[1] <= 65023
  <2>1. Holds(Block(Net6(<<252>>), 7)) <=> x[1] \div 2 = 252 \div 2
    BY <1>3, Networks6
  <2> QED
    BY <1>5, <1>7, <2>1
<1>9. Holds(Block(Net6(<<254, 128>>), 10)) <=> 65152 <= w[1] /\ w[1] <= 65215
  <2>1. Holds(Block(Net6(<<254, 128>>), 10)) <=> x[1] = 254 /\ x[2] \div 64 = 128 \div 64
    BY <1>3, Networks6
  <2> QED
    BY <1>5, <1>7, <2>1
<1>10. Holds(Block(Net6(<<255>>), 8)) <=> 65280 <= w[1]
  <2>1. Holds(Block(Net6(<<255>>), 8)) <=> x[1] = 255
    BY <1>3, Networks6
  <2> QED
    BY <1>5, <1>7, <2>1
<1>11. Holds(Block(Net6(<<32, 1, 13, 184>>), 32)) <=> w[1] = 8193 /\ w[2] = 3512
  <2>1. Holds(Block(Net6(<<32, 1, 13, 184>>), 32)) <=>
           x[1] = 32 /\ x[2] = 1 /\ x[3] = 13 /\ x[4] = 184
    BY <1>3, Networks6
  <2> QED
    BY <1>5, <1>6, <1>7, <2>1
<1>12. Holds(Block(Net6(<< >>), 128)) \/ Holds(Block(Loopback6, 128)) <=> LowWords(w)
  <2>1. Holds(Block(Net6(<< >>), 128)) <=> \A i \in 1..16 : x[i] = 0
    <3>1. Holds(Block(Net6(<< >>), 128)) <=> \A i \in 1..16 : x[i] = Net6(<< >>)[i]
      BY <1>3, Networks6
    <3> QED
      BY <3>1, Networks6
  <2>2. Holds(Block(Loopback6, 128)) <=>
           \A i \in 1..16 : x[i] = IF i = 16 THEN 1 ELSE 0
    <3>1. Holds(Block(Loopback6, 128)) <=> \A i \in 1..16 : x[i] = Loopback6[i]
      BY <1>3, Networks6
    <3> QED
      BY <3>1, Networks6
  <2>3. ASSUME NEW k \in 1..8
        PROVE  x[2 * k - 1] = 0 /\ x[2 * k] = 0 <=> w[k] = 0
    <3>1. /\ w[k] \in Int /\ 0 <= w[k] /\ w[k] <= 65535
          /\ x[2 * k - 1] = w[k] \div 256 /\ x[2 * k] = w[k] % 256
      BY <1>2
    <3> QED
      BY <3>1
  <2>4. /\ x[1] = 0 /\ x[2] = 0 <=> w[1] = 0
        /\ x[3] = 0 /\ x[4] = 0 <=> w[2] = 0
        /\ x[5] = 0 /\ x[6] = 0 <=> w[3] = 0
        /\ x[7] = 0 /\ x[8] = 0 <=> w[4] = 0
        /\ x[9] = 0 /\ x[10] = 0 <=> w[5] = 0
        /\ x[11] = 0 /\ x[12] = 0 <=> w[6] = 0
        /\ x[13] = 0 /\ x[14] = 0 <=> w[7] = 0
    <3>1. /\ 2 * 1 - 1 = 1 /\ 2 * 1 = 2 /\ 2 * 2 - 1 = 3 /\ 2 * 2 = 4
          /\ 2 * 3 - 1 = 5 /\ 2 * 3 = 6 /\ 2 * 4 - 1 = 7 /\ 2 * 4 = 8
          /\ 2 * 5 - 1 = 9 /\ 2 * 5 = 10 /\ 2 * 6 - 1 = 11 /\ 2 * 6 = 12
          /\ 2 * 7 - 1 = 13 /\ 2 * 7 = 14
      OBVIOUS
    <3> QED
      BY <2>3, <3>1
  <2>5. x[15] = 0 /\ (x[16] = 0 \/ x[16] = 1) <=> w[8] <= 1
    <3>1. /\ w[8] \in Int /\ 0 <= w[8] /\ w[8] <= 65535
          /\ x[2 * 8 - 1] = w[8] \div 256 /\ x[2 * 8] = w[8] % 256
      BY <1>2
    <3> QED
      BY <3>1
  <2>6. (\A i \in 1..16 : x[i] = 0) \/ (\A i \in 1..16 : x[i] = IF i = 16 THEN 1 ELSE 0)
           <=> /\ x[1] = 0 /\ x[2] = 0 /\ x[3] = 0 /\ x[4] = 0 /\ x[5] = 0
               /\ x[6] = 0 /\ x[7] = 0 /\ x[8] = 0 /\ x[9] = 0 /\ x[10] = 0
               /\ x[11] = 0 /\ x[12] = 0 /\ x[13] = 0 /\ x[14] = 0 /\ x[15] = 0
               /\ x[16] = 0 \/ x[16] = 1
    OBVIOUS
  <2> QED
    BY <2>1, <2>2, <2>4, <2>5, <2>6 DEF LowWords
<1>13. (\E block \in PrivateBlocks : Holds(block)) <=>
          \/ Holds(Block(Loopback6, 128))
          \/ Holds(Block(Net6(<< >>), 128))
          \/ Holds(Block(Net6(<<252>>), 7))
          \/ Holds(Block(Net6(<<254, 128>>), 10))
          \/ Holds(Block(Net6(<<255>>), 8))
          \/ Holds(Block(Net6(<<32, 1, 13, 184>>), 32))
  <2>1. (\E block \in PrivateBlocks : Holds(block)) <=>
           \/ Holds(Block(Four(0, 0, 0, 0), 8))
           \/ Holds(Block(Four(10, 0, 0, 0), 8))
           \/ Holds(Block(Four(100, 64, 0, 0), 10))
           \/ Holds(Block(Four(127, 0, 0, 0), 8))
           \/ Holds(Block(Four(169, 254, 0, 0), 16))
           \/ Holds(Block(Four(172, 16, 0, 0), 12))
           \/ Holds(Block(Four(192, 0, 0, 0), 24))
           \/ Holds(Block(Four(192, 0, 2, 0), 24))
           \/ Holds(Block(Four(192, 168, 0, 0), 16))
           \/ Holds(Block(Four(198, 18, 0, 0), 15))
           \/ Holds(Block(Four(198, 51, 100, 0), 24))
           \/ Holds(Block(Four(203, 0, 113, 0), 24))
           \/ Holds(Block(Four(224, 0, 0, 0), 4))
           \/ Holds(Block(Four(240, 0, 0, 0), 4))
           \/ Holds(Block(Four(255, 255, 255, 255), 32))
           \/ Holds(Block(Loopback6, 128))
           \/ Holds(Block(Net6(<< >>), 128))
           \/ Holds(Block(Net6(<<252>>), 7))
           \/ Holds(Block(Net6(<<254, 128>>), 10))
           \/ Holds(Block(Net6(<<255>>), 8))
           \/ Holds(Block(Net6(<<32, 1, 13, 184>>), 32))
    BY Table
  <2>2. /\ ~Holds(Block(Four(0, 0, 0, 0), 8))
        /\ ~Holds(Block(Four(10, 0, 0, 0), 8))
        /\ ~Holds(Block(Four(100, 64, 0, 0), 10))
        /\ ~Holds(Block(Four(127, 0, 0, 0), 8))
        /\ ~Holds(Block(Four(169, 254, 0, 0), 16))
        /\ ~Holds(Block(Four(172, 16, 0, 0), 12))
        /\ ~Holds(Block(Four(192, 0, 0, 0), 24))
        /\ ~Holds(Block(Four(192, 0, 2, 0), 24))
        /\ ~Holds(Block(Four(192, 168, 0, 0), 16))
        /\ ~Holds(Block(Four(198, 18, 0, 0), 15))
        /\ ~Holds(Block(Four(198, 51, 100, 0), 24))
        /\ ~Holds(Block(Four(203, 0, 113, 0), 24))
        /\ ~Holds(Block(Four(224, 0, 0, 0), 4))
        /\ ~Holds(Block(Four(240, 0, 0, 0), 4))
        /\ ~Holds(Block(Four(255, 255, 255, 255), 32))
    BY <1>4
  <2> QED
    BY <2>1, <2>2
<1>14. (\E block \in PrivateBlocks : Holds(block)) <=> InRanges6(w)
  BY <1>8, <1>9, <1>10, <1>11, <1>12, <1>13 DEF InRanges6
<1> QED
  BY <1>14, Reserved6 DEF Holds, x

----------------------------------------------------------------------------
\* How the recognisers take the sample texts: what the types of the canned
\* table and of the catalog have to agree with.

LEMMA HexType ==
    ASSUME NEW n \in {32, 40, 64}
    PROVE  IndicatorType(Value(Dotted(<<Hex(n)>>))) =
              CASE n = 64 -> "sha256" [] n = 40 -> "sha1" [] n = 32 -> "md5"
<1> DEFINE t == Dotted(<<Hex(n)>>)
<1>1. /\ t.form = "dotted" /\ t.root = FALSE /\ Len(t.labels) = 1
      /\ t.labels[1].chars = {"digit", "hexalpha"} /\ t.labels[1].len = n
  BY DEF Dotted, Hex, Label
<1>2. \A m : HexDigest(t, m) <=> m = n
  BY <1>1 DEF HexDigest, HexLabel
<1>3. ParseIP(t) = NoIP /\ ~LooksLikeURL(t) /\ ~DomainRe(t)
  BY <1>1 DEF ParseIP, DottedQuad, LooksLikeURL, DomainRe
<1> HIDE DEF t
<1>4. TypeOfText(t) = CASE n = 64 -> "sha256" [] n = 40 -> "sha1" [] n = 32 -> "md5"
  BY <1>2, <1>3 DEF TypeOfText
<1> QED
  BY <1>4 DEF IndicatorType, TrimSpace, Value, t

\* The four bytes behind the prefix of an IPv4-mapped address are the IPv4
\* address it stands for.
LEMMA To4OfMapped ==
    ASSUME NEW b \in Seq(Int), Len(b) = 4
    PROVE  To4(V4InV6Prefix \o b) = b /\ V4InV6Prefix \o b # NoIP
<1> DEFINE p == V4InV6Prefix
           x == p \o b
<1>1. p \in Seq(Int) /\ Len(p) = 12
  BY DEF V4InV6Prefix
<1> HIDE DEF p
<1>2. /\ x \in Seq(Int) /\ Len(x) = Len(p) + Len(b)
      /\ \A i \in 1..(Len(p) + Len(b)) :
            x[i] = IF i <= Len(p) THEN p[i] ELSE b[i - Len(p)]
  BY <1>1, ConcatProperties
<1> HIDE DEF x
<1>3. x \in Seq(Int) /\ Len(x) = 16
  BY <1>1, <1>2
<1>4. /\ \A i \in 1..12 : x[1 + i - 1] = p[i] /\ x[i] \in Int
      /\ \A i \in 1..4 : x[13 + i - 1] = b[i]
      /\ \A i \in 13..16 : x[i] \in Int
  <2>1. \A i \in 1..16 : x[i] = IF i <= 12 THEN p[i] ELSE b[i - 12]
    BY <1>1, <1>2
  <2>2. \A i \in 1..16 : x[i] \in Int
    BY <1>3, ElementOfSeq
  <2>3. \A i \in 1..12 : p[i] \in Int
    BY <1>1, ElementOfSeq
  <2> QED
    BY <2>1, <2>2, <2>3
<1>5. SubSeq(x, 1, 12) = p
  <2>1. /\ SubSeq(x, 1, 12) \in Seq(Int)
        /\ Len(SubSeq(x, 1, 12)) = IF 1 <= 12 THEN 12 - 1 + 1 ELSE 0
        /\ \A i \in 1..(12 - 1 + 1) : SubSeq(x, 1, 12)[i] = x[1 + i - 1]
    <3>1. \A i \in 1..12 : x[i] \in Int
      BY <1>4
    <3> QED
      BY <3>1, SubSeqProperties
  <2> DEFINE y == SubSeq(x, 1, 12)
  <2>2. /\ y \in Seq(Int) /\ Len(y) = 12
        /\ \A i \in 1..12 : y[i] = x[1 + i - 1]
    BY <2>1
  <2> HIDE DEF y
  <2>3. Len(y) = Len(p) /\ \A i \in 1..Len(y) : y[i] = p[i]
    BY <1>1, <1>4, <2>2
  <2>4. y = p
    BY <1>1, <2>2, <2>3, SeqEqual
  <2> QED
    BY <2>4 DEF y
<1>6. SubSeq(x, 13, 16) = b
  <2>1. /\ SubSeq(x, 13, 16) \in Seq(Int)
        /\ Len(SubSeq(x, 13, 16)) = IF 13 <= 16 THEN 16 - 13 + 1 ELSE 0
        /\ \A i \in 1..(16 - 13 + 1) : SubSeq(x, 13, 16)[i] = x[13 + i - 1]
    BY <1>4, SubSeqProperties
  <2> DEFINE y == SubSeq(x, 13, 16)
  <2>2. /\ y \in Seq(Int) /\ Len(y) = 4
        /\ \A i \in 1..4 : y[i] = x[13 + i - 1]
    BY <2>1
  <2> HIDE DEF y
  <2>3. Len(y) = Len(b) /\ \A i \in 1..Len(y) : y[i] = b[i]
    BY <1>4, <2>2
  <2>4. y = b
    BY <2>2, <2>3, SeqEqual
  <2> QED
    BY <2>4 DEF y
<1>7. x # << >>
  <2>1. Len(<< >>) = 0
    BY EmptySeq
  <2>2. Len(x) # Len(<< >>)
    BY <1>3, <2>1
  <2> QED
    BY <2>2
<1> QED
  BY <1>5, <1>6, <1>7 DEF To4, NoIP, x, p

LEMMA QuadForm ==
    ASSUME NEW a, \A i \in 1..4 : a[i] \in 0..255
    PROVE  /\ DottedQuad(Quad(a)) /\ Len(Quad(a).labels) = 4
           /\ Quad(a).form = "dotted" /\ Quad(a).labels[4].chars = {"digit"}
           /\ \A i \in 1..4 : Quad(a).labels[i].num = a[i]
<1> DEFINE t == Quad(a)
<1>1. /\ t.form = "dotted" /\ t.root = FALSE
      /\ t.labels = [i \in 1..4 |-> Digits(a[i])]
  BY DEF Quad, Dotted
<1>2. Len(t.labels) = 4
  BY <1>1
<1>3. ASSUME NEW i \in 1..4
      PROVE  t.labels[i].num = a[i] /\ Octet(t.labels[i])
  <2>1. t.labels[i] = Digits(a[i])
    BY <1>1
  <2>2. a[i] \in 0..255
    OBVIOUS
  <2>3. Octet(Digits(a[i]))
    <3> DEFINE l == Digits(a[i])
    <3>1. l.chars = {"digit"} /\ l.num = a[i] /\ (l.zeroLed <=> a[i] = 0)
      BY DEF Digits
    <3>2. l.len \in 1..3 /\ (a[i] = 0 => l.len = 1)
      BY <2>2 DEF Digits
    <3> QED
      BY <2>2, <3>1, <3>2 DEF Octet
  <2> QED
    BY <2>1, <2>3 DEF Digits
<1>4. DottedQuad(t)
  BY <1>1, <1>2, <1>3 DEF DottedQuad
<1> HIDE DEF t
<1>5. t.labels[4].chars = {"digit"}
  BY <1>3 DEF Octet
<1> QED
  BY <1>1, <1>2, <1>3, <1>4, <1>5 DEF t

LEMMA DottedBytes ==
    ASSUME NEW t, DottedQuad(t)
    PROVE  /\ ParseIP(t) # NoIP /\ To4(ParseIP(t)) # NoIP
           /\ Bytes(To4(ParseIP(t)), 4) /\ Ints(To4(ParseIP(t)), 4)
           /\ \A i \in 1..4 : To4(ParseIP(t))[i] = t.labels[i].num
<1> DEFINE b == [i \in 1..4 |-> t.labels[i].num]
<1>1. ASSUME NEW i \in 1..4
      PROVE  t.labels[i].num \in Int /\ Byte(t.labels[i].num)
  <2> DEFINE n == t.labels[i].num
  <2>1. n \in 0..255
    BY DEF DottedQuad, Octet
  <2> HIDE DEF n
  <2>2. n \in Int /\ 0 <= n /\ n < 256
    BY <2>1
  <2> QED
    BY <2>2 DEF Byte, n
<1>2. /\ b \in Seq(Int) /\ Len(b) = 4 /\ \A i \in 1..4 : Byte(b[i])
      /\ \A i \in 1..4 : b[i] = t.labels[i].num
  BY <1>1
<1>3. ParseIP(t) = V4InV6Prefix \o b
  BY DEF ParseIP
<1> HIDE DEF b
<1>4. b \in Seq(Int) /\ Len(b) = 4
  BY <1>2
<1>5. To4(V4InV6Prefix \o b) = b /\ V4InV6Prefix \o b # NoIP
  BY <1>4, To4OfMapped
<1>6. b # NoIP
  <2>1. Len(b) # Len(NoIP)
    BY <1>4, EmptySeq DEF NoIP
  <2> QED
    BY <2>1
<1> QED
  BY <1>2, <1>3, <1>5, <1>6 DEF Bytes, Ints

LEMMA QuadType ==
    ASSUME NEW a, \A i \in 1..4 : a[i] \in 0..255
    PROVE  IndicatorType(Value(Quad(a))) = "ipv4"
<1> DEFINE t == Quad(a)
<1>1. /\ DottedQuad(t) /\ Len(t.labels) = 4
      /\ t.form = "dotted" /\ t.labels[4].chars = {"digit"}
  BY QuadForm
<1> HIDE DEF t
<1>2. \A m : ~HexDigest(t, m)
  BY <1>1 DEF HexDigest
<1>3. ~LooksLikeURL(t) /\ ~DomainRe(t)
  BY <1>1 DEF LooksLikeURL, DomainRe, AlphaLabel
<1>4. ParseIP(t) # NoIP /\ To4(ParseIP(t)) # NoIP
  BY <1>1, DottedBytes
<1>5. TypeOfText(t) = "ipv4"
  BY <1>2, <1>3, <1>4 DEF TypeOfText
<1> QED
  BY <1>5 DEF IndicatorType, TrimSpace, Value, t

----------------------------------------------------------------------------
\* is_private_ip, for every address there is.

\* The last four of sixteen bytes.
LEMMA LastFour ==
    ASSUME NEW x, Bytes(x, 16), Ints(x, 16)
    PROVE  Bytes(SubSeq(x, 13, 16), 4) /\ Ints(SubSeq(x, 13, 16), 4)
<1> DEFINE y == SubSeq(x, 13, 16)
<1>1. \A i \in 13..16 : x[i] \in Int
  BY EachInt
<1>2. /\ y \in Seq(Int)
      /\ Len(y) = IF 13 <= 16 THEN 16 - 13 + 1 ELSE 0
      /\ \A i \in 1..(16 - 13 + 1) : y[i] = x[13 + i - 1]
  BY <1>1, SubSeqProperties
<1> HIDE DEF y
<1>3. y \in Seq(Int) /\ Len(y) = 4 /\ \A i \in 1..4 : y[i] = x[12 + i]
  BY <1>2
<1>4. \A i \in 1..4 : Byte(y[i])
  BY <1>3 DEF Bytes
<1> QED
  BY <1>3, <1>4 DEF Bytes, Ints, y

LEMMA WordBytesInts ==
    ASSUME NEW w, Words(w)
    PROVE  Ints(WordBytes(w), 16)
<1>1. \A i \in 1..16 : WordBytes(w)[i] \in Int
  BY WordHalves DEF Bytes, Byte
<1>2. WordBytes(w) = [i \in 1..16 |-> WordBytes(w)[i]]
  BY DEF WordBytes
<1> QED
  BY <1>1, <1>2 DEF Ints

\* An address is private exactly when it lies in a reserved range.
LEMMA PrivateAddress ==
    ASSUME NEW v, ParseIP(v.text) # NoIP,
           v.text.form = "colon" => Words(v.text.words)
    PROVE  IsPrivateIP(v) <=>
              IF To4(ParseIP(v.text)) # NoIP
              THEN Within(Ranges4, To4(ParseIP(v.text)))
              ELSE Within(Ranges6, v.text.words)
<1> DEFINE t  == v.text
           ip == ParseIP(t)
<1>1. IsPrivateIP(v) <=>
         \E block \in PrivateBlocks :
            InPrefix(block, IF To4(ip) # NoIP THEN To4(ip) ELSE ip)
  BY DEF IsPrivateIP, TrimSpace, Contains
<1>2. CASE DottedQuad(t)
  <2>1. To4(ip) # NoIP /\ Bytes(To4(ip), 4) /\ Ints(To4(ip), 4)
    BY <1>2, DottedBytes
  <2> QED
    BY <1>1, <2>1, Private4
<1>3. CASE ~DottedQuad(t)
  <2>1. t.form = "colon" /\ ip = WordBytes(t.words) /\ Words(t.words)
    BY <1>3 DEF ParseIP
  <2>2. CASE To4(ip) # NoIP
    <3>1. Bytes(To4(ip), 4) /\ Ints(To4(ip), 4)
      BY <2>1, <2>2, WordHalves, WordBytesInts, LastFour DEF To4
    <3> QED
      BY <1>1, <2>2, <3>1, Private4
  <2>3. CASE To4(ip) = NoIP
    BY <1>1, <2>1, <2>3, Private6
  <2> QED
    BY <2>2, <2>3
<1> QED
  BY <1>2, <1>3

\* An IPv4 literal is the address of its four numbers.
LEMMA QuadPrivate ==
    ASSUME NEW a, \A i \in 1..4 : a[i] \in 0..255
    PROVE  IsPrivateIP(Value(Quad(a))) <=> InRanges4(a)
<1> DEFINE t == Quad(a)
           q == To4(ParseIP(t))
<1>1. DottedQuad(t) /\ t.form = "dotted" /\ \A i \in 1..4 : t.labels[i].num = a[i]
  BY QuadForm
<1> HIDE DEF t
<1>2. /\ ParseIP(t) # NoIP /\ q # NoIP /\ Bytes(q, 4) /\ Ints(q, 4)
      /\ \A i \in 1..4 : q[i] = a[i]
  BY <1>1, DottedBytes
<1>3. IsPrivateIP([pad |-> FALSE, text |-> t]) <=> Within(Ranges4, q)
  BY <1>1, <1>2, PrivateAddress
<1> HIDE DEF q
<1>4. Within(Ranges4, q) <=> InRanges4(q)
  BY <1>2, Reserved4
<1>5. InRanges4(q) <=> InRanges4(a)
  BY <1>2 DEF InRanges4
<1> QED
  BY <1>3, <1>4, <1>5 DEF Value, t

LEMMA NameType ==
    ASSUME NEW labels, NEW n \in Nat, n >= 2, Len(labels) = n,
           \A i \in 1..(n - 1) : HostLabel(labels[i]),
           AlphaLabel(labels[n]), labels[n].len \in 2..63
    PROVE  /\ IndicatorType(Value(Dotted(labels))) = "domain"
           /\ ~IsPrivateIP(Value(Dotted(labels)))
<1> DEFINE t == Dotted(labels)
<1>1. t.form = "dotted" /\ t.root = FALSE /\ t.labels = labels
  BY DEF Dotted
<1> HIDE DEF t
<1>2. DomainRe(t)
  BY <1>1 DEF DomainRe
<1>3. \A m : ~HexDigest(t, m)
  <2>1. Len(t.labels) # 1
    BY <1>1
  <2> QED
    BY <2>1 DEF HexDigest
<1>4. ~DottedQuad(t)
  <2> SUFFICES ASSUME DottedQuad(t)
               PROVE  FALSE
    OBVIOUS
  <2>1. n = 4 /\ labels[4].chars = {"digit"}
    <3>1. Len(t.labels) = 4 /\ Octet(t.labels[4])
      BY DEF DottedQuad
    <3> QED
      BY <1>1, <3>1 DEF Octet
  <2> QED
    BY <2>1 DEF AlphaLabel
<1>5. ParseIP(t) = NoIP /\ ~LooksLikeURL(t)
  BY <1>1, <1>4 DEF ParseIP, LooksLikeURL
<1>6. TypeOfText(t) = "domain"
  BY <1>2, <1>3, <1>5 DEF TypeOfText
<1> QED
  BY <1>5, <1>6 DEF IndicatorType, IsPrivateIP, TrimSpace, Value, t

LEMMA HostType ==
    ASSUME NEW l, HostLabel(l), NEW tld, AlphaLabel(tld), tld.len \in 2..63
    PROVE  IndicatorType(Value(Dotted(<<l, tld>>))) = "domain"
<1> DEFINE labels == <<l, tld>>
<1>1. Len(labels) = 2 /\ labels[1] = l /\ labels[2] = tld
  OBVIOUS
<1> HIDE DEF labels
<1>2. \A i \in 1..(2 - 1) : HostLabel(labels[i])
  BY <1>1
<1>3. AlphaLabel(labels[2]) /\ labels[2].len \in 2..63 /\ 2 \in Nat /\ 2 >= 2
  BY <1>1
<1>4. IndicatorType(Value(Dotted(labels))) = "domain"
  BY <1>1, <1>2, <1>3, NameType
<1> QED
  BY <1>4 DEF labels

LEMMA URLType ==
    ASSUME NEW scheme \in {"http", "https", "ftp"}, NEW host, host.form # "blank"
    PROVE  /\ IndicatorType(Value(URL(scheme, host))) = "url"
           /\ ~IsPrivateIP(Value(URL(scheme, host)))
<1> DEFINE t == URL(scheme, host)
<1>1. t.form = "url" /\ t.scheme = scheme /\ t.parses = TRUE /\ t.host = host
  BY DEF URL
<1> HIDE DEF t
<1>2. /\ LooksLikeURL(t) /\ ~DomainRe(t) /\ ParseIP(t) = NoIP
      /\ \A m : ~HexDigest(t, m)
  BY <1>1 DEF LooksLikeURL, DomainRe, ParseIP, DottedQuad, HexDigest
<1>3. TypeOfText(t) = "url"
  BY <1>2 DEF TypeOfText
<1> QED
  BY <1>2, <1>3 DEF IndicatorType, IsPrivateIP, TrimSpace, Value, t

\* An IPv6 literal outside the IPv4-mapped block.
LEMMA ColonType ==
    ASSUME NEW w, Words(w), w[6] # 65535
    PROVE  IndicatorType(Value(Colon(w))) = "ipv6"
<1> DEFINE t == Colon(w)
           x == WordBytes(w)
<1>1. t.form = "colon" /\ t.words = w
  BY DEF Colon
<1>2. Bytes(x, 16) /\ Ints(x, 16)
  BY WordHalves, WordBytesInts
<1>3. ~(x[11] = 255 /\ x[12] = 255)
  <2>1. w[6] \in Int /\ 0 <= w[6] /\ w[6] < 65536
    BY EachWord
  <2>2. x[2 * 6 - 1] = w[6] \div 256 /\ x[2 * 6] = w[6] % 256
    BY WordHalves
  <2> QED
    BY <2>1, <2>2
<1> HIDE DEF x
<1>4. SubSeq(x, 1, 12) # V4InV6Prefix
  <2> DEFINE y == SubSeq(x, 1, 12)
  <2>1. \A i \in 1..12 : x[i] \in Int
    BY <1>2, EachInt
  <2>2. \A i \in 1..(12 - 1 + 1) : y[i] = x[1 + i - 1]
    BY <2>1, SubSeqProperties
  <2>3. V4InV6Prefix[11] = 255 /\ V4InV6Prefix[12] = 255
    BY DEF V4InV6Prefix
  <2> HIDE DEF y
  <2>4. y[11] = x[11] /\ y[12] = x[12]
    BY <2>2
  <2> QED
    BY <1>3, <2>3, <2>4 DEF y
<1>5. x # NoIP
  <2>1. Len(x) = 16
    BY <1>2 DEF Bytes
  <2>2. Len(NoIP) = 0
    BY EmptySeq DEF NoIP
  <2>3. Len(x) # Len(NoIP)
    BY <2>1, <2>2
  <2> QED
    BY <2>3
<1> HIDE DEF t
<1>6. /\ ParseIP(t) = x /\ To4(x) = NoIP
      /\ \A m : ~HexDigest(t, m)
      /\ ~LooksLikeURL(t) /\ ~DomainRe(t)
  BY <1>1, <1>4 DEF ParseIP, To4, DottedQuad, HexDigest, LooksLikeURL, DomainRe, x
<1>7. TypeOfText(t) = "ipv6"
  <2>1. ParseIP(t) # NoIP /\ To4(ParseIP(t)) = NoIP
    BY <1>5, <1>6
  <2> QED
    BY <1>6, <2>1 DEF TypeOfText
<1> QED
  BY <1>7 DEF IndicatorType, TrimSpace, Value, t

=============================================================================
