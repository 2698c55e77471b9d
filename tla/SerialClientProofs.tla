--------------------------- MODULE SerialClientProofs ---------------------------
(***************************************************************************)
(* Theorems about SerialClient, for every set of messages and every amount *)
(* of noise: types, the messages that arrive byte for byte on a line that  *)
(* nothing disturbs, and the single changed byte that the checksum shows.  *)
(*                                                                         *)
(* The checksum and the escapes are recursive functions over the bytes of  *)
(* a message.  What they return is proved by induction over the length,    *)
(* as the set of the lengths for which it holds (SetInduction).            *)
(***************************************************************************)
EXTENDS SerialClient, SequenceTheorems, WellFoundedInduction, TLAPS

-------------------------------------------------------------------------------
(* Induction over the numbers, and functions that are defined by it *)

\* A set of numbers that has an element has a least one.
LEMMA Least == ASSUME NEW T, T \subseteq Nat, T # {}
               PROVE  \E x \in T : \A y \in T : x <= y
<1> DEFINE R == OpToRel(<, Nat)
<1>1. IsWellFoundedOn(R, Nat)
  BY NatLessThanWellFounded
<1>2. \A x, y \in Nat : y < x => <<y, x>> \in R
  BY DEF OpToRel
<1> HIDE DEF R
<1>3. PICK x \in T : \A y \in T : ~(<<y, x>> \in R)
  BY <1>1, WFMin
<1>4. \A y \in T : ~(y < x)
  BY <1>2, <1>3
<1>5. QED
  BY <1>3, <1>4

\* A set that has 0, and with each number the next, has every number.
LEMMA SetInduction == ASSUME NEW S, 0 \in S, \A n \in Nat : n \in S => n + 1 \in S
                      PROVE  Nat \subseteq S
<1> DEFINE T == {n \in Nat : n \notin S}
<1>1. SUFFICES ASSUME T # {} PROVE FALSE
  OBVIOUS
<1>2. PICK x \in T : \A y \in T : x <= y
  BY <1>1, Least
<1>3. x # 0 /\ x - 1 \in Nat /\ x - 1 \notin T
  BY <1>2
<1>4. QED
  BY <1>2, <1>3

\* The steps of a recursion over 1 .. N with values in V, as functions of the value
\* before and of the index.
StepsOn(V, N) == [V \X (1 .. N) -> V]

\* f is the recursion over 0 .. N from base with these steps.
IsRecursion(f, N, V, base, step) ==
    /\ f \in [0 .. N -> V]
    /\ f[0] = base
    /\ \A n \in 1 .. N : f[n] = step[<<f[n - 1], n>>]

\* Such a function exists: what the recursive functions of crc16 and escape need
\* before anything can be said of their values.
LEMMA Recursion ==
    ASSUME NEW N \in Nat, NEW V, NEW base \in V, NEW step \in StepsOn(V, N)
    PROVE  \E f : IsRecursion(f, N, V, base, step)
<1> USE DEF StepsOn
<1> DEFINE Upto(k) == \E f \in [0 .. k -> V] :
                          f[0] = base /\ \A n \in 1 .. k : f[n] = step[<<f[n - 1], n>>]
           S == {k \in Nat : k <= N => Upto(k)}
<1>1. 0 \in S
  <2> DEFINE f == [n \in 0 .. 0 |-> base]
  <2>1. f \in [0 .. 0 -> V] /\ f[0] = base /\ 1 .. 0 = {}
    OBVIOUS
  <2> HIDE DEF f
  <2>2. Upto(0)
    BY <2>1
  <2>3. QED
    BY <2>2
<1>2. ASSUME NEW k \in Nat, k \in S PROVE k + 1 \in S
  <2>1. SUFFICES ASSUME k + 1 <= N PROVE Upto(k + 1)
    OBVIOUS
  <2>2. PICK f \in [0 .. k -> V] :
            f[0] = base /\ \A n \in 1 .. k : f[n] = step[<<f[n - 1], n>>]
    BY <1>2, <2>1
  <2> DEFINE g == [n \in 0 .. k + 1 |-> IF n = k + 1 THEN step[<<f[k], k + 1>>] ELSE f[n]]
  <2>3. f[k] \in V /\ k + 1 \in 1 .. N
    BY <2>1
  <2>4. step[<<f[k], k + 1>>] \in V
    BY <2>3
  <2>5. g \in [0 .. k + 1 -> V]
    BY <2>4
  <2>6. g[0] = base
    BY <2>2
  <2>7. ASSUME NEW n \in 1 .. k + 1 PROVE g[n] = step[<<g[n - 1], n>>]
    <3>1. n - 1 \in 0 .. k /\ n - 1 # k + 1 /\ n \in 0 .. k + 1 /\ n - 1 \in 0 .. k + 1
      OBVIOUS
    <3>2. CASE n = k + 1
      <4>1. g[n] = step[<<f[k], k + 1>>] /\ g[n - 1] = f[n - 1] /\ n - 1 = k
        BY <3>1, <3>2
      <4>2. QED
        BY <3>2, <4>1
    <3>3. CASE n # k + 1
      <4>1. n \in 1 .. k
        BY <3>3
      <4>2. QED
        BY <2>2, <3>1, <3>3, <4>1
    <3>4. QED
      BY <3>2, <3>3
  <2>8. QED
    BY <2>5, <2>6, <2>7
<1> HIDE DEF Upto
<1>3. Nat \subseteq S
  BY <1>1, <1>2, SetInduction
<1>4. Upto(N)
  BY <1>3
<1>5. QED
  BY <1>4 DEF Upto, IsRecursion

\* Two functions that start alike, and that agree at n when they agree at n - 1.
SameSteps(N, c, f) ==
    /\ c[0] = f[0]
    /\ \A n \in 1 .. N : c[n - 1] = f[n - 1] => c[n] = f[n]

\* They agree everywhere.
LEMMA SameValues == ASSUME NEW N \in Nat, NEW c, NEW f, SameSteps(N, c, f)
                    PROVE  \A n \in 0 .. N : c[n] = f[n]
<1> USE DEF SameSteps
<1> DEFINE S == {k \in Nat : k <= N => c[k] = f[k]}
<1>1. 0 \in S
  OBVIOUS
<1>2. ASSUME NEW k \in Nat, k \in S PROVE k + 1 \in S
  <2>1. SUFFICES ASSUME k + 1 <= N PROVE c[k + 1] = f[k + 1]
    OBVIOUS
  <2>2. k + 1 \in 1 .. N /\ (k + 1) - 1 = k /\ c[k] = f[k]
    BY <1>2, <2>1
  <2>3. QED
    BY <2>2
<1>3. Nat \subseteq S
  BY <1>1, <1>2, SetInduction
<1>4. QED
  BY <1>3

-------------------------------------------------------------------------------
(* The checksum *)

\* The table of the exclusive or stays within half bytes, and within two bits.
LEMMA HalfBytes ==
    /\ \A x, y \in 0 .. 15 : xorTable[x][y] \in 0 .. 15
    /\ \A x, y \in 0 .. 3 : xorTable[x][y] \in 0 .. 3
<1>1. ASSUME NEW x \in 0 .. 15, NEW y \in 0 .. 15 PROVE xorTable[x][y] \in 0 .. 15
  <2> DEFINE a == Differ(x, y, 1)
             b == Differ(x, y, 2)
             c == Differ(x, y, 4)
             d == Differ(x, y, 8)
  <2>1. a \in 0 .. 1 /\ b \in 0 .. 1 /\ c \in 0 .. 1 /\ d \in 0 .. 1
    BY DEF Differ
  <2>2. xorTable[x][y] = a + 2 * b + 4 * c + 8 * d
    BY DEF xorTable
  <2> HIDE DEF a, b, c, d
  <2>3. QED
    BY <2>1, <2>2
<1>2. ASSUME NEW x \in 0 .. 3, NEW y \in 0 .. 3 PROVE xorTable[x][y] \in 0 .. 3
  <2> DEFINE a == Differ(x, y, 1)
             b == Differ(x, y, 2)
             c == Differ(x, y, 4)
             d == Differ(x, y, 8)
  <2>1. a \in 0 .. 1 /\ b \in 0 .. 1 /\ c = 0 /\ d = 0
    BY DEF Differ
  <2>2. xorTable[x][y] = a + 2 * b + 4 * c + 8 * d
    BY DEF xorTable
  <2> HIDE DEF a, b, c, d
  <2>3. QED
    BY <2>1, <2>2
<1>3. QED
  BY <1>1, <1>2

\* The exclusive or of two bytes is a byte.
LEMMA XorTypes == \A x, y \in Byte : xor(x, y) \in Byte
<1> TAKE x, y \in Byte
<1> DEFINE h == xorTable[x \div 16][y \div 16]
           l == xorTable[x % 16][y % 16]
<1>1. x \div 16 \in 0 .. 15 /\ y \div 16 \in 0 .. 15 /\ x % 16 \in 0 .. 15 /\ y % 16 \in 0 .. 15
  BY DEF Byte
<1>2. h \in 0 .. 15 /\ l \in 0 .. 15
  BY <1>1, HalfBytes
<1>3. xor(x, y) = 16 * h + l
  BY DEF xor
<1> HIDE DEF h, l
<1>4. QED
  BY <1>2, <1>3 DEF Byte

\* A uint16 is a number below 65536.
LEMMA Uint16Facts == \A n : n \in Uint16 <=> n \in Nat /\ n < 65536
<1>1. MaxUint16 \in Nat
  BY DEF MaxUint16
<1>2. \A n : n \in Uint16 <=> n \in Nat /\ n <= MaxUint16
  BY <1>1 DEF Uint16
<1>3. \A n \in Nat : n <= MaxUint16 <=> n < 65536
  BY DEF MaxUint16
<1>4. QED
  BY <1>2, <1>3

\* A byte spread over three shifts has ten bits.
LEMMA SpreadType == ASSUME NEW a \in Byte PROVE spread[a] \in Nat /\ spread[a] < 1024
<1> DEFINE h == xorTable[a \div 64][a \div 128]
           l == xor((4 * a) % 256, xor((2 * a) % 256, a))
<1>1. a \div 64 \in 0 .. 3 /\ a \div 128 \in 0 .. 3
  BY DEF Byte
<1>2. h \in 0 .. 3
  BY <1>1, HalfBytes
<1>3. (4 * a) % 256 \in Byte /\ (2 * a) % 256 \in Byte
  BY DEF Byte
<1>4. l \in Byte
  BY <1>3, XorTypes
<1>5. spread[a] = 256 * h + l
  BY DEF spread
<1> HIDE DEF h, l
<1>6. QED
  BY <1>2, <1>4, <1>5 DEF Byte

\* One byte more leaves the checksum a uint16: crc << 8 (line 24)
\* drops what leaves the sixteen bits.
LEMMA CrcStepType == ASSUME NEW crc \in Uint16, NEW b \in Byte PROVE crcStep(crc, b) \in Uint16
<1>1. \A a \in Byte : spread[a] \in Nat /\ spread[a] < 1024
  BY SpreadType
<1>2. crc \div 256 \in Byte /\ crc % 256 \in Byte
  BY Uint16Facts DEF Byte
<1> DEFINE t == spread[xor(crc \div 256, b)]
<1>3. t \in Nat /\ t < 1024
  BY <1>1, <1>2, XorTypes
<1> DEFINE h == xor(t \div 256, crc % 256)
           l == t % 256
<1>4. crcStep(crc, b) = 256 * h + l
  BY DEF crcStep
<1> HIDE DEF t
<1>5. t \div 256 \in Byte /\ l \in Byte
  BY <1>3 DEF Byte
<1>6. h \in Byte
  BY <1>2, <1>5, XorTypes
<1> HIDE DEF h, l
<1>7. 256 * h + l \in Nat /\ 256 * h + l < 65536
  BY <1>5, <1>6 DEF Byte
<1>8. QED
  BY <1>4, <1>7, Uint16Facts

\* The checksum of some bytes is the last value of a function that advances with
\* each byte, as the loop of lines 22-25 does.
LEMMA CrcRecursion ==
    ASSUME NEW d \in Seq(Byte)
    PROVE  \E f \in [0 .. Len(d) -> Uint16] :
               /\ crc16(d) = f[Len(d)]
               /\ f[0] = 0
               /\ \A n \in 1 .. Len(d) : f[n] = crcStep(f[n - 1], d[n])
<1> DEFINE N == Len(d)
           step == [x \in Uint16 \X (1 .. N) |-> crcStep(x[1], d[x[2]])]
           Crc(g, n) == IF n = 0 THEN 0 ELSE crcStep(g[n - 1], d[n])
           c == CHOOSE g : g = [n \in 0 .. N |-> Crc(g, n)]
<1>1. N \in Nat /\ \A n \in 1 .. N : d[n] \in Byte
  OBVIOUS
<1>2. step \in StepsOn(Uint16, N)
  BY <1>1, CrcStepType DEF StepsOn
<1>3. 0 \in Uint16
  BY Uint16Facts
<1>4. crc16(d) = c[N]
  BY DEF crc16
<1> HIDE DEF step, N, c
<1>5. PICK f : IsRecursion(f, N, Uint16, 0, step)
  BY <1>1, <1>2, <1>3, Recursion
<1>6. f \in [0 .. N -> Uint16] /\ f[0] = 0 /\ \A n \in 1 .. N : f[n] = step[<<f[n - 1], n>>]
  BY <1>5 DEF IsRecursion
<1>7. ASSUME NEW n \in 1 .. N PROVE f[n] = crcStep(f[n - 1], d[n])
  <2>1. n - 1 \in 0 .. N
    BY <1>1
  <2>2. <<f[n - 1], n>> \in Uint16 \X (1 .. N)
    BY <1>6, <2>1
  <2>3. QED
    BY <1>6, <2>2 DEF step
<1>8. c = [n \in 0 .. N |-> Crc(c, n)]
  <2>1. ASSUME NEW n \in 0 .. N PROVE f[n] = Crc(f, n)
    <3>1. CASE n = 0
      BY <1>6, <3>1
    <3>2. CASE n # 0
      <4>1. n \in 1 .. N
        BY <1>1, <3>2
      <4>2. QED
        BY <1>7, <3>2, <4>1
    <3>3. QED
      BY <3>1, <3>2
  <2> HIDE DEF Crc
  <2>2. f = [n \in 0 .. N |-> Crc(f, n)]
    BY <1>6, <2>1
  <2>3. QED
    BY <2>2 DEF c
<1>9. c = [n \in 0 .. N |-> c[n]] /\ \A n \in 0 .. N : c[n] = Crc(c, n)
  <2> HIDE DEF Crc
  <2>1. QED
    BY <1>8
<1>10. c[0] = 0 /\ \A n \in 1 .. N : c[n] = crcStep(c[n - 1], d[n])
  <2>1. c[0] = Crc(c, 0) /\ \A n \in 1 .. N : c[n] = Crc(c, n) /\ n # 0
    <3> HIDE DEF Crc
    <3>1. 0 \in 0 .. N /\ \A n \in 1 .. N : n \in 0 .. N /\ n # 0
      BY <1>1
    <3>2. QED
      BY <1>9, <3>1
  <2>2. QED
    BY <2>1
<1>11. \A n \in 0 .. N : c[n] = f[n]
  <2>1. SameSteps(N, c, f)
    BY <1>6, <1>7, <1>10 DEF SameSteps
  <2>2. QED
    BY <1>1, <2>1, SameValues
<1>12. c = f
  <2>1. f = [n \in 0 .. N |-> f[n]]
    BY <1>6
  <2>2. QED
    BY <1>9, <1>11, <2>1
<1>13. QED
  BY <1>4, <1>6, <1>7, <1>12 DEF N

\* The checksum of any bytes is a uint16.
LEMMA CrcType == ASSUME NEW d \in Seq(Byte) PROVE crc16(d) \in Uint16
<1>1. Len(d) \in 0 .. Len(d)
  OBVIOUS
<1>2. PICK f \in [0 .. Len(d) -> Uint16] : crc16(d) = f[Len(d)]
  BY CrcRecursion
<1>3. QED
  BY <1>1, <1>2

\* The checksum that ReceiveMessage starts from is the one of no bytes.
LEMMA CrcOfNothing == crc16(<<>>) = 0
<1>1. <<>> \in Seq(Byte) /\ Len(<<>>) = 0
  OBVIOUS
<1>2. QED
  BY <1>1, CrcRecursion

\* The checksum advances with the byte that follows: ReceiveMessage may go on from
\* the one it has (lines 219-258), while SendMessage computes it at once (line 186).
LEMMA CrcOfAppend ==
    ASSUME NEW d \in Seq(Byte), NEW b \in Byte
    PROVE  crc16(d) \in Uint16 /\ crc16(Append(d, b)) = crcStep(crc16(d), b)
<1> DEFINE N == Len(d)
           D == Append(d, b)
<1>1. /\ N \in Nat /\ D \in Seq(Byte) /\ Len(D) = N + 1
      /\ D[N + 1] = b /\ \A n \in 1 .. N : D[n] = d[n]
  OBVIOUS
<1>2. PICK f \in [0 .. N -> Uint16] :
          crc16(d) = f[N] /\ f[0] = 0 /\ \A n \in 1 .. N : f[n] = crcStep(f[n - 1], d[n])
  BY CrcRecursion
<1>3. PICK g \in [0 .. Len(D) -> Uint16] :
          crc16(D) = g[Len(D)] /\ g[0] = 0 /\ \A n \in 1 .. Len(D) : g[n] = crcStep(g[n - 1], D[n])
  BY <1>1, CrcRecursion
<1> HIDE DEF N, D
<1>4. SameSteps(N, g, f)
  BY <1>1, <1>2, <1>3 DEF SameSteps
<1>5. g[N] = f[N]
  BY <1>1, <1>4, SameValues
<1>6. crc16(D) = crcStep(g[N], b)
  BY <1>1, <1>3
<1>7. QED
  BY <1>1, <1>2, <1>5, <1>6 DEF N, D

-------------------------------------------------------------------------------
(* What the checksum detects *)

\* The bit of x that has the value k.
Bit(x, k) == (x \div k) % 2

\* The values of the bits of a byte.
Bits == {1, 2, 4, 8, 16, 32, 64, 128}

\* A byte is given by its bits.
LEMMA BitFacts ==
    /\ \A x \in Nat, k \in Bits : Bit(x, k) \in 0 .. 1
    /\ \A x, y \in Byte : (\A k \in Bits : Bit(x, k) = Bit(y, k)) => x = y
<1>1. \A x \in Nat, k \in Bits : Bit(x, k) \in 0 .. 1
  <2> TAKE x \in Nat, k \in Bits
  <2>1. x \div k \in Nat
    BY DEF Bits
  <2>2. QED
    BY <2>1 DEF Bit
<1>2. ASSUME NEW x \in Byte
      PROVE  x = Bit(x, 1) + 2 * Bit(x, 2) + 4 * Bit(x, 4) + 8 * Bit(x, 8) + 16 * Bit(x, 16)
                 + 32 * Bit(x, 32) + 64 * Bit(x, 64) + 128 * Bit(x, 128)
  BY DEF Bit, Byte
<1>3. QED
  BY <1>1, <1>2 DEF Bits

\* The table of the exclusive or adds half bytes bit by bit, without carry.
LEMMA HalfBits ==
    ASSUME NEW x \in 0 .. 15, NEW y \in 0 .. 15, NEW k \in {1, 2, 4, 8}
    PROVE  Bit(xorTable[x][y], k) = (Bit(x, k) + Bit(y, k)) % 2
<1> DEFINE a == Differ(x, y, 1)
           b == Differ(x, y, 2)
           c == Differ(x, y, 4)
           d == Differ(x, y, 8)
<1>1. a \in 0 .. 1 /\ b \in 0 .. 1 /\ c \in 0 .. 1 /\ d \in 0 .. 1
  BY DEF Differ
<1>2. xorTable[x][y] = a + 2 * b + 4 * c + 8 * d
  BY DEF xorTable
<1>3. /\ a = (Bit(x, 1) + Bit(y, 1)) % 2
      /\ b = (Bit(x, 2) + Bit(y, 2)) % 2
      /\ c = (Bit(x, 4) + Bit(y, 4)) % 2
      /\ d = (Bit(x, 8) + Bit(y, 8)) % 2
  BY DEF Differ, Bit
<1> HIDE DEF a, b, c, d
<1>4. /\ Bit(xorTable[x][y], 1) = a
      /\ Bit(xorTable[x][y], 2) = b
      /\ Bit(xorTable[x][y], 4) = c
      /\ Bit(xorTable[x][y], 8) = d
  BY <1>1, <1>2 DEF Bit
<1>5. QED
  BY <1>3, <1>4

\* So does the exclusive or of two bytes.
LEMMA XorBits ==
    ASSUME NEW x \in Byte, NEW y \in Byte, NEW k \in Bits
    PROVE  Bit(xor(x, y), k) = (Bit(x, k) + Bit(y, k)) % 2
<1> DEFINE h == xorTable[x \div 16][y \div 16]
           l == xorTable[x % 16][y % 16]
<1>1. x \div 16 \in 0 .. 15 /\ y \div 16 \in 0 .. 15 /\ x % 16 \in 0 .. 15 /\ y % 16 \in 0 .. 15
  BY DEF Byte
<1>2. h \in 0 .. 15 /\ l \in 0 .. 15
  BY <1>1, HalfBytes
<1>3. xor(x, y) = 16 * h + l
  BY DEF xor
<1>4. \A j \in {1, 2, 4, 8} : /\ Bit(h, j) = (Bit(x \div 16, j) + Bit(y \div 16, j)) % 2
                              /\ Bit(l, j) = (Bit(x % 16, j) + Bit(y % 16, j)) % 2
  BY <1>1, HalfBits
<1> HIDE DEF h, l
<1>5. ASSUME NEW v \in Byte
      PROVE  /\ Bit(v % 16, 1) = Bit(v, 1) /\ Bit(v % 16, 2) = Bit(v, 2)
             /\ Bit(v % 16, 4) = Bit(v, 4) /\ Bit(v % 16, 8) = Bit(v, 8)
             /\ Bit(v \div 16, 1) = Bit(v, 16) /\ Bit(v \div 16, 2) = Bit(v, 32)
             /\ Bit(v \div 16, 4) = Bit(v, 64) /\ Bit(v \div 16, 8) = Bit(v, 128)
  <2> DEFINE q == v \div 16
             r == v % 16
  <2>1. v = 16 * q + r /\ q \in 0 .. 15 /\ r \in 0 .. 15
    BY DEF Byte
  <2> HIDE DEF q, r
  <2>2. Bit(r, 1) = Bit(v, 1) /\ Bit(r, 2) = Bit(v, 2)
    BY <2>1 DEF Bit
  <2>3. Bit(r, 4) = Bit(v, 4) /\ Bit(r, 8) = Bit(v, 8)
    BY <2>1 DEF Bit
  <2>4. Bit(q, 1) = Bit(v, 16) /\ Bit(q, 2) = Bit(v, 32)
    BY <2>1 DEF Bit
  <2>5. Bit(q, 4) = Bit(v, 64) /\ Bit(q, 8) = Bit(v, 128)
    BY <2>1 DEF Bit
  <2>6. QED
    BY <2>2, <2>3, <2>4, <2>5 DEF q, r
<1>6. /\ Bit(16 * h + l, 1) = Bit(l, 1) /\ Bit(16 * h + l, 2) = Bit(l, 2)
      /\ Bit(16 * h + l, 4) = Bit(l, 4) /\ Bit(16 * h + l, 8) = Bit(l, 8)
      /\ Bit(16 * h + l, 16) = Bit(h, 1) /\ Bit(16 * h + l, 32) = Bit(h, 2)
      /\ Bit(16 * h + l, 64) = Bit(h, 4) /\ Bit(16 * h + l, 128) = Bit(h, 8)
  <2>1. Bit(16 * h + l, 1) = Bit(l, 1) /\ Bit(16 * h + l, 2) = Bit(l, 2)
    BY <1>2 DEF Bit
  <2>2. Bit(16 * h + l, 4) = Bit(l, 4) /\ Bit(16 * h + l, 8) = Bit(l, 8)
    BY <1>2 DEF Bit
  <2>3. Bit(16 * h + l, 16) = Bit(h, 1) /\ Bit(16 * h + l, 32) = Bit(h, 2)
    BY <1>2 DEF Bit
  <2>4. Bit(16 * h + l, 64) = Bit(h, 4) /\ Bit(16 * h + l, 128) = Bit(h, 8)
    BY <1>2 DEF Bit
  <2>5. QED
    BY <2>1, <2>2, <2>3, <2>4
<1>7. QED
  BY <1>3, <1>4, <1>5, <1>6 DEF Bits

\* The exclusive or with a byte can be undone.
LEMMA XorCancels ==
    \A x, y, z \in Byte : /\ xor(x, y) = xor(x, z) => y = z
                          /\ xor(y, x) = xor(z, x) => y = z
<1>1. \A p, q, r \in 0 .. 1 : /\ (p + q) % 2 = (p + r) % 2 => q = r
                              /\ (q + p) % 2 = (r + p) % 2 => q = r
  OBVIOUS
<1> TAKE x, y, z \in Byte
<1>2. \A v \in Byte, k \in Bits : Bit(v, k) \in 0 .. 1
  <2>1. Byte \subseteq Nat
    BY DEF Byte
  <2>2. QED
    BY <2>1, BitFacts
<1>3. ASSUME xor(x, y) = xor(x, z) PROVE y = z
  <2>1. \A k \in Bits : Bit(y, k) = Bit(z, k)
    BY <1>1, <1>2, <1>3, XorBits
  <2>2. QED
    BY <2>1, BitFacts
<1>4. ASSUME xor(y, x) = xor(z, x) PROVE y = z
  <2>1. \A k \in Bits : Bit(y, k) = Bit(z, k)
    BY <1>1, <1>2, <1>4, XorBits
  <2>2. QED
    BY <2>1, BitFacts
<1>5. QED
  BY <1>3, <1>4

\* The low byte of a spread byte determines that byte.
LEMMA SpreadInjective ==
    \A a, b \in Byte : spread[a] % 256 = spread[b] % 256 => a = b
<1> DEFINE p(a) == (4 * a) % 256
           q(a) == (2 * a) % 256
           l(a) == xor(p(a), xor(q(a), a))
<1>1. ASSUME NEW a \in Byte
      PROVE  /\ p(a) \in Byte /\ q(a) \in Byte /\ l(a) \in Byte /\ xor(q(a), a) \in Byte
             /\ spread[a] % 256 = l(a)
  <2>1. p(a) \in Byte /\ q(a) \in Byte
    BY DEF Byte
  <2> HIDE DEF p, q
  <2>2. l(a) \in Byte /\ xor(q(a), a) \in Byte
    BY <2>1, XorTypes
  <2> DEFINE h == xorTable[a \div 64][a \div 128]
  <2>3. h \in 0 .. 3
    <3>1. a \div 64 \in 0 .. 3 /\ a \div 128 \in 0 .. 3
      BY DEF Byte
    <3>2. QED
      BY <3>1, HalfBytes
  <2>4. spread[a] = 256 * h + l(a)
    BY DEF spread, p, q
  <2> HIDE DEF h, l
  <2>5. QED
    BY <2>1, <2>2, <2>3, <2>4 DEF Byte
<1>2. ASSUME NEW a \in Byte
      PROVE  /\ Bit(q(a), 1) = 0
             /\ Bit(q(a), 2) = Bit(a, 1) /\ Bit(q(a), 4) = Bit(a, 2) /\ Bit(q(a), 8) = Bit(a, 4)
             /\ Bit(q(a), 16) = Bit(a, 8) /\ Bit(q(a), 32) = Bit(a, 16)
             /\ Bit(q(a), 64) = Bit(a, 32) /\ Bit(q(a), 128) = Bit(a, 64)
  BY DEF Bit, Byte
<1>3. ASSUME NEW a \in Byte
      PROVE  /\ Bit(p(a), 1) = 0 /\ Bit(p(a), 2) = 0
             /\ Bit(p(a), 4) = Bit(a, 1) /\ Bit(p(a), 8) = Bit(a, 2) /\ Bit(p(a), 16) = Bit(a, 4)
             /\ Bit(p(a), 32) = Bit(a, 8) /\ Bit(p(a), 64) = Bit(a, 16)
             /\ Bit(p(a), 128) = Bit(a, 32)
  BY DEF Bit, Byte
<1>4. ASSUME NEW a \in Byte, NEW k \in Bits
      PROVE  Bit(l(a), k) = (Bit(p(a), k) + ((Bit(q(a), k) + Bit(a, k)) % 2)) % 2
  <2> HIDE DEF p, q
  <2>1. p(a) \in Byte /\ q(a) \in Byte /\ xor(q(a), a) \in Byte
    BY <1>1
  <2>2. Bit(xor(q(a), a), k) = (Bit(q(a), k) + Bit(a, k)) % 2
    BY <2>1, XorBits
  <2>3. Bit(xor(p(a), xor(q(a), a)), k) = (Bit(p(a), k) + Bit(xor(q(a), a), k)) % 2
    BY <2>1, XorBits
  <2>4. l(a) = xor(p(a), xor(q(a), a))
    OBVIOUS
  <2> HIDE DEF l
  <2>5. QED
    BY <2>2, <2>3, <2>4
<1>5. \A x, y, z, w \in 0 .. 1 : (x + ((y + z) % 2)) % 2 = (x + ((y + w) % 2)) % 2 => z = w
  OBVIOUS
<1>6. \A v \in Byte, k \in Bits : Bit(v, k) \in 0 .. 1
  <2>1. Byte \subseteq Nat
    BY DEF Byte
  <2>2. QED
    BY <2>1, BitFacts
<1> HIDE DEF p, q, l
<1> TAKE a, b \in Byte
<1> HAVE spread[a] % 256 = spread[b] % 256
<1>7. l(a) = l(b)
  BY <1>1
<1>8. ASSUME NEW k \in Bits, Bit(p(a), k) = Bit(p(b), k), Bit(q(a), k) = Bit(q(b), k)
      PROVE  Bit(a, k) = Bit(b, k)
  <2>1. /\ Bit(p(a), k) \in 0 .. 1 /\ Bit(q(a), k) \in 0 .. 1
        /\ Bit(a, k) \in 0 .. 1 /\ Bit(b, k) \in 0 .. 1
    BY <1>1, <1>6
  <2>2. (Bit(p(a), k) + ((Bit(q(a), k) + Bit(a, k)) % 2)) % 2
            = (Bit(p(a), k) + ((Bit(q(a), k) + Bit(b, k)) % 2)) % 2
    BY <1>4, <1>7, <1>8
  <2>3. QED
    BY <1>5, <2>1, <2>2
<1>9. Bit(a, 1) = Bit(b, 1)
  BY <1>2, <1>3, <1>8 DEF Bits
<1>10. Bit(a, 2) = Bit(b, 2)
  BY <1>2, <1>3, <1>8, <1>9 DEF Bits
<1>11. Bit(a, 4) = Bit(b, 4)
  BY <1>2, <1>3, <1>8, <1>9, <1>10 DEF Bits
<1>12. Bit(a, 8) = Bit(b, 8)
  BY <1>2, <1>3, <1>8, <1>10, <1>11 DEF Bits
<1>13. Bit(a, 16) = Bit(b, 16)
  BY <1>2, <1>3, <1>8, <1>11, <1>12 DEF Bits
<1>14. Bit(a, 32) = Bit(b, 32)
  BY <1>2, <1>3, <1>8, <1>12, <1>13 DEF Bits
<1>15. Bit(a, 64) = Bit(b, 64)
  BY <1>2, <1>3, <1>8, <1>13, <1>14 DEF Bits
<1>16. Bit(a, 128) = Bit(b, 128)
  BY <1>2, <1>3, <1>8, <1>14, <1>15 DEF Bits
<1>17. QED
  BY <1>9, <1>10, <1>11, <1>12, <1>13, <1>14, <1>15, <1>16, BitFacts DEF Bits

\* A step of the checksum forgets neither the checksum before it, given the byte,
\* nor the byte, given the checksum before it.
LEMMA CrcStepInjective ==
    ASSUME NEW c \in Uint16, NEW d \in Uint16, NEW x \in Byte, NEW y \in Byte,
           crcStep(c, x) = crcStep(d, y), c = d \/ x = y
    PROVE  c = d /\ x = y
<1> DEFINE s == spread[xor(c \div 256, x)]
           t == spread[xor(d \div 256, y)]
           h(n, crc) == xor(n \div 256, crc % 256)
<1>1. c \div 256 \in Byte /\ c % 256 \in Byte /\ d \div 256 \in Byte /\ d % 256 \in Byte
  BY Uint16Facts DEF Byte
<1>2. xor(c \div 256, x) \in Byte /\ xor(d \div 256, y) \in Byte
  BY <1>1, XorTypes
<1>3. crcStep(c, x) = 256 * h(s, c) + (s % 256) /\ crcStep(d, y) = 256 * h(t, d) + (t % 256)
  BY DEF crcStep
<1>4. s \in Nat /\ s < 1024 /\ t \in Nat /\ t < 1024
  BY <1>2, SpreadType
<1> HIDE DEF s, t
<1>5. s \div 256 \in Byte /\ t \div 256 \in Byte /\ s % 256 \in Byte /\ t % 256 \in Byte
  BY <1>4 DEF Byte
<1>6. h(s, c) \in Byte /\ h(t, d) \in Byte
  BY <1>1, <1>5, XorTypes
<1> HIDE DEF h
<1>7. s % 256 = t % 256 /\ h(s, c) = h(t, d)
  <2>1. \A i, j, m, n \in Byte : 256 * i + m = 256 * j + n => i = j /\ m = n
    BY DEF Byte
  <2> DEFINE i == h(s, c)
             j == h(t, d)
             m == s % 256
             n == t % 256
  <2>2. i \in Byte /\ j \in Byte /\ m \in Byte /\ n \in Byte
    BY <1>5, <1>6
  <2>3. 256 * i + m = 256 * j + n
    BY <1>3
  <2> HIDE DEF i, j, m, n
  <2>4. i = j /\ m = n
    BY <2>1, <2>2, <2>3
  <2>5. QED
    BY <2>4 DEF i, j, m, n
<1>8. xor(c \div 256, x) = xor(d \div 256, y)
  BY <1>2, <1>7, SpreadInjective DEF s, t
<1>9. s = t
  BY <1>8 DEF s, t
<1>10. c % 256 = d % 256
  BY <1>1, <1>5, <1>7, <1>9, XorCancels DEF h
<1>11. CASE c = d
  BY <1>1, <1>8, <1>11, XorCancels
<1>12. CASE x = y
  <2>1. c \div 256 = d \div 256
    BY <1>1, <1>8, <1>12, XorCancels
  <2>2. c \in Nat /\ d \in Nat
    BY Uint16Facts
  <2>3. c = d
    BY <1>10, <2>1, <2>2
  <2>4. QED
    BY <1>12, <2>3
<1>13. QED
  BY <1>11, <1>12

\* The checksum detects every change of a single byte, in messages of every length:
\* whatever the byte was and became, and wherever it stands, crc16 (lines 20-27)
\* of what is read is not crc16 of what was sent.
THEOREM OneByteShows ==
    ASSUME NEW d \in Seq(Byte), NEW i \in 1 .. Len(d), NEW b \in Byte, b # d[i]
    PROVE  crc16([d EXCEPT ![i] = b]) # crc16(d)
<1> DEFINE e == [d EXCEPT ![i] = b]
           N == Len(d)
<1>1. /\ N \in Nat
      /\ e \in Seq(Byte) /\ Len(e) = N
      /\ e[i] = b
      /\ \A n \in 1 .. N : d[n] \in Byte /\ e[n] \in Byte /\ (n # i => e[n] = d[n])
  OBVIOUS
<1> HIDE DEF e, N
<1>2. PICK f \in [0 .. N -> Uint16] :
          /\ crc16(d) = f[N]
          /\ f[0] = 0
          /\ \A n \in 1 .. N : f[n] = crcStep(f[n - 1], d[n])
  BY CrcRecursion DEF N
<1>3. PICK g \in [0 .. N -> Uint16] :
          /\ crc16(e) = g[N]
          /\ g[0] = 0
          /\ \A n \in 1 .. N : g[n] = crcStep(g[n - 1], e[n])
  <2>1. Len(e) = N /\ e \in Seq(Byte)
    BY <1>1
  <2>2. QED
    BY <2>1, CrcRecursion
<1>4. i \in 1 .. N
  BY DEF N
<1> DEFINE S == {k \in Nat : k <= N => (f[k] = g[k] <=> k < i)}
<1>5. 0 \in S
  BY <1>2, <1>3, <1>4
<1>6. ASSUME NEW k \in Nat, k \in S PROVE k + 1 \in S
  <2>1. SUFFICES ASSUME k + 1 <= N PROVE f[k + 1] = g[k + 1] <=> k + 1 < i
    OBVIOUS
  <2>2. k + 1 \in 1 .. N /\ (k + 1) - 1 = k /\ k \in 0 .. N
    BY <1>1, <2>1
  <2>3. f[k] = g[k] <=> k < i
    BY <1>1, <1>6, <2>2
  <2> HIDE DEF S
  <2>4. f[k + 1] = crcStep(f[k], d[k + 1]) /\ g[k + 1] = crcStep(g[k], e[k + 1])
    BY <1>2, <1>3, <2>2
  <2>5. f[k] \in Uint16 /\ g[k] \in Uint16 /\ d[k + 1] \in Byte /\ e[k + 1] \in Byte
    BY <1>1, <1>2, <1>3, <2>2
  <2>6. CASE k + 1 = i
    <3>1. f[k] = g[k] /\ d[k + 1] # e[k + 1]
      BY <1>1, <1>4, <2>3, <2>6
    <3>2. f[k + 1] # g[k + 1]
      BY <2>4, <2>5, <3>1, CrcStepInjective
    <3>3. QED
      BY <1>4, <2>6, <3>2
  <2>7. CASE k + 1 # i
    <3>1. d[k + 1] = e[k + 1]
      BY <1>1, <2>2, <2>7
    <3>2. f[k + 1] = g[k + 1] <=> f[k] = g[k]
      BY <2>4, <2>5, <3>1, CrcStepInjective
    <3>3. k < i <=> k + 1 < i
      BY <1>4, <2>7
    <3>4. QED
      BY <2>3, <3>2, <3>3
  <2>8. QED
    BY <2>6, <2>7
<1>7. Nat \subseteq S
  <2> HIDE DEF S
  <2>1. QED
    BY <1>5, <1>6, SetInduction
<1>8. f[N] # g[N]
  BY <1>1, <1>4, <1>7
<1>9. QED
  BY <1>2, <1>3, <1>8 DEF e

-------------------------------------------------------------------------------
(* Escapes *)

\* A byte is escaped as one byte or two.
LEMMA EscapeByteType == ASSUME NEW b \in Byte PROVE escapeByte(b) \in Seq(Byte)
<1>1. ESCAPE \in Byte /\ ESCAPE_START \in Byte /\ ESCAPE_ESCAPE \in Byte
  BY DEF Byte, ESCAPE, ESCAPE_START, ESCAPE_ESCAPE
<1>2. escapeByte(b) \in {<<b>>, <<ESCAPE, ESCAPE_START>>, <<ESCAPE, ESCAPE_ESCAPE>>}
  BY DEF escapeByte
<1>3. /\ <<b>> \in Seq(Byte)
      /\ <<ESCAPE, ESCAPE_START>> \in Seq(Byte) /\ <<ESCAPE, ESCAPE_ESCAPE>> \in Seq(Byte)
  BY <1>1
<1>4. QED
  BY <1>2, <1>3

\* What is written of some bytes is the last value of a function that appends byte
\* by byte, as the loop of lines 32-43 does.
LEMMA EscapeRecursion ==
    ASSUME NEW d \in Seq(Byte)
    PROVE  \E f \in [0 .. Len(d) -> Seq(Byte)] :
               /\ escape(d) = f[Len(d)]
               /\ f[0] = <<>>
               /\ \A n \in 1 .. Len(d) : f[n] = f[n - 1] \o escapeByte(d[n])
<1> DEFINE N == Len(d)
           step == [x \in Seq(Byte) \X (1 .. N) |-> x[1] \o escapeByte(d[x[2]])]
           Bytes(g, n) == IF n = 0 THEN <<>> ELSE g[n - 1] \o escapeByte(d[n])
           c == CHOOSE g : g = [n \in 0 .. N |-> Bytes(g, n)]
<1>1. N \in Nat /\ \A n \in 1 .. N : d[n] \in Byte
  OBVIOUS
<1>2. step \in StepsOn(Seq(Byte), N)
  BY <1>1, EscapeByteType DEF StepsOn
<1>3. <<>> \in Seq(Byte)
  OBVIOUS
<1>4. escape(d) = c[N]
  BY DEF escape
<1> HIDE DEF step, N, c
<1>5. PICK f : IsRecursion(f, N, Seq(Byte), <<>>, step)
  BY <1>1, <1>2, <1>3, Recursion
<1>6. f \in [0 .. N -> Seq(Byte)] /\ f[0] = <<>> /\ \A n \in 1 .. N : f[n] = step[<<f[n - 1], n>>]
  BY <1>5 DEF IsRecursion
<1>7. ASSUME NEW n \in 1 .. N PROVE f[n] = f[n - 1] \o escapeByte(d[n])
  <2>1. n - 1 \in 0 .. N
    BY <1>1
  <2>2. <<f[n - 1], n>> \in Seq(Byte) \X (1 .. N)
    BY <1>6, <2>1
  <2>3. QED
    BY <1>6, <2>2 DEF step
<1>8. c = [n \in 0 .. N |-> Bytes(c, n)]
  <2>1. ASSUME NEW n \in 0 .. N PROVE f[n] = Bytes(f, n)
    <3>1. CASE n = 0
      BY <1>6, <3>1
    <3>2. CASE n # 0
      <4>1. n \in 1 .. N
        BY <1>1, <3>2
      <4>2. QED
        BY <1>7, <3>2, <4>1
    <3>3. QED
      BY <3>1, <3>2
  <2> HIDE DEF Bytes
  <2>2. f = [n \in 0 .. N |-> Bytes(f, n)]
    BY <1>6, <2>1
  <2>3. QED
    BY <2>2 DEF c
<1>9. c = [n \in 0 .. N |-> c[n]] /\ \A n \in 0 .. N : c[n] = Bytes(c, n)
  <2> HIDE DEF Bytes
  <2>1. QED
    BY <1>8
<1>10. c[0] = <<>> /\ \A n \in 1 .. N : c[n] = c[n - 1] \o escapeByte(d[n])
  <2>1. c[0] = Bytes(c, 0) /\ \A n \in 1 .. N : c[n] = Bytes(c, n) /\ n # 0
    <3> HIDE DEF Bytes
    <3>1. 0 \in 0 .. N /\ \A n \in 1 .. N : n \in 0 .. N /\ n # 0
      BY <1>1
    <3>2. QED
      BY <1>9, <3>1
  <2>2. QED
    BY <2>1
<1>11. \A n \in 0 .. N : c[n] = f[n]
  <2>1. SameSteps(N, c, f)
    BY <1>6, <1>7, <1>10 DEF SameSteps
  <2>2. QED
    BY <1>1, <2>1, SameValues
<1>12. c = f
  <2>1. f = [n \in 0 .. N |-> f[n]]
    BY <1>6
  <2>2. QED
    BY <1>9, <1>11, <2>1
<1>13. QED
  BY <1>4, <1>6, <1>7, <1>12 DEF N

\* Concatenation of bytes is associative.
LEMMA Associative == \A p, q, r \in Seq(Byte) : p \o (q \o r) = (p \o q) \o r
  BY ConcatAssociative

\* Nothing is written of no bytes.
LEMMA EscapeOfNothing == escape(<<>>) = <<>>
<1>1. <<>> \in Seq(Byte) /\ Len(<<>>) = 0
  OBVIOUS
<1>2. QED
  BY <1>1, EscapeRecursion

\* What is written is bytes.
LEMMA EscapeType == ASSUME NEW d \in Seq(Byte) PROVE escape(d) \in Seq(Byte)
<1>1. Len(d) \in 0 .. Len(d)
  OBVIOUS
<1>2. PICK f \in [0 .. Len(d) -> Seq(Byte)] : escape(d) = f[Len(d)]
  BY EscapeRecursion
<1>3. QED
  BY <1>1, <1>2

\* The bytes of the first byte come first.
LEMMA EscapeOfCons ==
    ASSUME NEW b \in Byte, NEW d \in Seq(Byte)
    PROVE  escape(<<b>> \o d) = escapeByte(b) \o escape(d)
<1> DEFINE N == Len(d)
           D == <<b>> \o d
           x == escapeByte(b)
<1>1. /\ N \in Nat /\ D \in Seq(Byte) /\ Len(D) = N + 1
      /\ D[1] = b /\ \A n \in 1 .. N : D[n + 1] = d[n] /\ d[n] \in Byte
  OBVIOUS
<1>2. PICK f \in [0 .. N -> Seq(Byte)] :
          /\ escape(d) = f[N]
          /\ f[0] = <<>>
          /\ \A n \in 1 .. N : f[n] = f[n - 1] \o escapeByte(d[n])
  BY EscapeRecursion
<1>3. PICK g \in [0 .. Len(D) -> Seq(Byte)] :
          /\ escape(D) = g[Len(D)]
          /\ g[0] = <<>>
          /\ \A n \in 1 .. Len(D) : g[n] = g[n - 1] \o escapeByte(D[n])
  BY <1>1, EscapeRecursion
<1>4. x \in Seq(Byte)
  BY EscapeByteType
<1> HIDE DEF N, D, x
<1> DEFINE G == [n \in 0 .. N |-> g[n + 1]]
           F == [n \in 0 .. N |-> x \o f[n]]
<1>5. G[0] = F[0]
  <2>1. g[1] = <<>> \o x
    <3>1. 1 \in 1 .. Len(D) /\ 1 - 1 = 0
      BY <1>1
    <3>2. QED
      BY <1>1, <1>3, <3>1 DEF x
  <2>2. 0 \in 0 .. N /\ 0 + 1 = 1
    BY <1>1
  <2>3. G[0] = g[1] /\ F[0] = x \o f[0]
    BY <2>2
  <2> HIDE DEF G, F
  <2>4. <<>> \o x = x /\ x \o <<>> = x
    BY <1>4, ConcatEmptySeq
  <2>5. QED
    BY <1>2, <2>1, <2>3, <2>4
<1>6. ASSUME NEW n \in 1 .. N, G[n - 1] = F[n - 1] PROVE G[n] = F[n]
  <2> DEFINE y == escapeByte(d[n])
  <2>1. /\ n - 1 \in 0 .. N /\ n \in 0 .. N /\ n + 1 \in 1 .. Len(D)
        /\ (n - 1) + 1 = n /\ (n + 1) - 1 = n
    BY <1>1
  <2>2. y \in Seq(Byte) /\ f[n - 1] \in Seq(Byte)
    BY <1>1, <1>2, <2>1, EscapeByteType
  <2>3. G[n] = g[n + 1] /\ G[n - 1] = g[n] /\ F[n] = x \o f[n] /\ F[n - 1] = x \o f[n - 1]
    BY <2>1
  <2>4. g[n + 1] = g[n] \o y
    BY <1>1, <1>3, <2>1
  <2>5. f[n] = f[n - 1] \o y
    BY <1>2
  <2> HIDE DEF y, G, F
  <2>6. x \o (f[n - 1] \o y) = (x \o f[n - 1]) \o y
    BY <1>4, <2>2, Associative
  <2>7. QED
    BY <1>6, <2>3, <2>4, <2>5, <2>6
<1> HIDE DEF G, F
<1>7. SameSteps(N, G, F)
  BY <1>5, <1>6 DEF SameSteps
<1>8. G[N] = F[N]
  BY <1>1, <1>7, SameValues
<1>9. g[N + 1] = x \o f[N]
  <2>1. N \in 0 .. N
    BY <1>1
  <2>2. QED
    BY <1>8, <2>1 DEF G, F
<1>10. QED
  BY <1>1, <1>2, <1>3, <1>9 DEF N, D, x

\* The head and the tail of a concatenation are those of its first part.
LEMMA HeadTailConcat ==
    \A s, t \in Seq(Byte) :
        /\ s \o t \in Seq(Byte)
        /\ s # <<>> => /\ s \o t # <<>> /\ Head(s \o t) = Head(s) /\ Tail(s \o t) = Tail(s) \o t
                       /\ Tail(s) \in Seq(Byte) /\ Head(s) \in Byte /\ s = <<Head(s)>> \o Tail(s)
<1> TAKE s \in Seq(Byte), t \in Seq(Byte)
<1>1. /\ s \o t \in Seq(Byte) /\ Len(s \o t) = Len(s) + Len(t)
      /\ \A i \in 1 .. Len(s) + Len(t) : (s \o t)[i] = IF i <= Len(s) THEN s[i] ELSE t[i - Len(s)]
  BY ConcatProperties
<1>2. ASSUME s # <<>>
      PROVE  /\ s \o t # <<>> /\ Head(s \o t) = Head(s) /\ Tail(s \o t) = Tail(s) \o t
             /\ Tail(s) \in Seq(Byte) /\ Head(s) \in Byte /\ s = <<Head(s)>> \o Tail(s)
  <2>1. Len(s) \in Nat /\ Len(s) > 0 /\ Len(t) \in Nat
    BY <1>2
  <2>2. /\ Tail(s) \in Seq(Byte) /\ Len(Tail(s)) = Len(s) - 1
        /\ \A i \in 1 .. Len(s) - 1 : Tail(s)[i] = s[i + 1]
    BY <1>2, <2>1
  <2>3. s \o t # <<>> /\ Head(s \o t) = Head(s) /\ Head(s) \in Byte
    BY <1>1, <1>2, <2>1
  <2> DEFINE u == s \o t
             v == Tail(s)
  <2>4. /\ Tail(u) \in Seq(Byte) /\ Len(Tail(u)) = Len(u) - 1
        /\ \A i \in 1 .. Len(u) - 1 : Tail(u)[i] = u[i + 1]
    BY <1>1, <2>1, <2>3
  <2>5. /\ Len(u) = Len(s) + Len(t)
        /\ \A i \in 1 .. Len(s) + Len(t) : u[i] = IF i <= Len(s) THEN s[i] ELSE t[i - Len(s)]
    BY <1>1
  <2>6. /\ v \o t \in Seq(Byte) /\ Len(v \o t) = Len(v) + Len(t)
        /\ \A i \in 1 .. Len(v) + Len(t) : (v \o t)[i] = IF i <= Len(v) THEN v[i] ELSE t[i - Len(v)]
    BY <2>2, ConcatProperties
  <2>7. Len(v) = Len(s) - 1 /\ \A i \in 1 .. Len(v) : v[i] = s[i + 1]
    BY <2>2
  <2> HIDE DEF u, v
  <2>8. Len(Tail(u)) = Len(v \o t)
    BY <2>1, <2>4, <2>5, <2>6, <2>7
  <2>9. ASSUME NEW i \in 1 .. Len(Tail(u)) PROVE Tail(u)[i] = (v \o t)[i]
    <3>1. i \in 1 .. Len(u) - 1 /\ i + 1 \in 1 .. Len(s) + Len(t) /\ i \in 1 .. Len(v) + Len(t)
      BY <2>1, <2>4, <2>5, <2>7
    <3>2. CASE i + 1 <= Len(s)
      BY <2>1, <2>4, <2>5, <2>6, <2>7, <3>1, <3>2
    <3>3. CASE ~(i + 1 <= Len(s))
      <4>1. ~(i <= Len(v)) /\ (i + 1) - Len(s) = i - Len(v)
        BY <2>1, <2>7, <3>1, <3>3
      <4>2. QED
        BY <2>4, <2>5, <2>6, <3>1, <3>3, <4>1
    <3>4. QED
      BY <3>2, <3>3
  <2>10. Tail(u) = v \o t
    BY <2>4, <2>6, <2>8, <2>9, SeqEqual
  <2>11. s = <<Head(s)>> \o Tail(s)
    BY <1>2, <2>1, <2>2
  <2>12. QED
    BY <2>2, <2>3, <2>10, <2>11 DEF u, v
<1>3. QED
  BY <1>1, <1>2

\* START and ESCAPE are written as ESCAPE and a byte that Unescape maps back to them;
\* every other byte is written as itself.
LEMMA EscapeFacts ==
    ASSUME NEW b \in Byte
    PROVE  /\ b \in {START, ESCAPE} => \E e \in DOMAIN Unescape :
                  e \in Byte /\ Unescape[e] = b /\ escapeByte(b) = <<ESCAPE>> \o <<e>>
           /\ b \notin {START, ESCAPE} => escapeByte(b) = <<b>>
<1> USE DEF Unescape, START, ESCAPE, ESCAPE_START, ESCAPE_ESCAPE
<1>1. CASE b = START
  <2>1. ESCAPE_START \in DOMAIN Unescape /\ ESCAPE_START \in Byte /\ Unescape[ESCAPE_START] = b
    BY <1>1 DEF Byte
  <2>2. escapeByte(b) = <<ESCAPE>> \o <<ESCAPE_START>>
    BY <1>1 DEF escapeByte
  <2>3. QED
    BY <1>1, <2>1, <2>2
<1>2. CASE b = ESCAPE
  <2>1. ESCAPE_ESCAPE \in DOMAIN Unescape /\ ESCAPE_ESCAPE \in Byte /\ Unescape[ESCAPE_ESCAPE] = b
    BY <1>2 DEF Byte
  <2>2. escapeByte(b) = <<ESCAPE>> \o <<ESCAPE_ESCAPE>>
    BY <1>2 DEF escapeByte
  <2>3. QED
    BY <1>2, <2>1, <2>2
<1>3. CASE b \notin {START, ESCAPE}
  BY <1>3 DEF escapeByte
<1>4. QED
  BY <1>1, <1>2, <1>3

\* The head and the tail of a byte put before others.
LEMMA ConcatOne == ASSUME NEW b \in Byte, NEW s \in Seq(Byte)
                   PROVE  <<b>> \o s \in Seq(Byte) /\ <<b>> \o s # <<>>
                          /\ Head(<<b>> \o s) = b /\ Tail(<<b>> \o s) = s
  OBVIOUS

\* What the reader finds at the front of the escaped rest of a frame: the next byte
\* of the rest, or ESCAPE and then a byte that stands for it; behind it, the rest
\* of the rest.
LEMMA NextByte ==
    ASSUME NEW rest \in Seq(Byte), NEW later \in Seq(Byte), rest # <<>>
    PROVE  LET l == escape(rest) \o later
               u == Tail(escape(rest)) \o later
               b == Head(rest)
           IN  /\ l \in Seq(Byte) /\ l # <<>> /\ b \in Byte /\ Tail(rest) \in Seq(Byte)
               /\ b \in {START, ESCAPE} =>
                      /\ Head(l) = ESCAPE /\ Tail(l) = u /\ u # <<>>
                      /\ Head(u) \in DOMAIN Unescape /\ Unescape[Head(u)] = b
                      /\ Tail(u) = escape(Tail(rest)) \o later
               /\ b \notin {START, ESCAPE} =>
                      Head(l) = b /\ Tail(l) = escape(Tail(rest)) \o later
<1> DEFINE b == Head(rest)
           r == Tail(rest)
           x == escape(r)
<1>1. b \in Byte /\ r \in Seq(Byte) /\ rest = <<b>> \o r
  BY HeadTailConcat, EmptySeq
<1>2. x \in Seq(Byte)
  BY <1>1, EscapeType
<1>3. escape(rest) = escapeByte(b) \o x
  BY <1>1, EscapeOfCons
<1> HIDE DEF b, r, x
<1>4. x \o later \in Seq(Byte)
  BY <1>2, HeadTailConcat
<1>5. CASE b \notin {START, ESCAPE}
  <2>1. escape(rest) = <<b>> \o x
    BY <1>1, <1>3, <1>5, EscapeFacts
  <2>2. <<b>> \in Seq(Byte)
    BY <1>1
  <2>3. (<<b>> \o x) \o later = <<b>> \o (x \o later)
    BY <1>2, <2>2, Associative
  <2> DEFINE l == escape(rest) \o later
  <2>4. l = <<b>> \o (x \o later)
    BY <2>1, <2>3
  <2>5. l \in Seq(Byte) /\ l # <<>> /\ Head(l) = b /\ Tail(l) = x \o later
    BY <1>1, <1>4, <2>4, ConcatOne
  <2> HIDE DEF l
  <2>6. QED
    BY <1>1, <1>5, <2>5 DEF b, r, x, l
<1>6. CASE b \in {START, ESCAPE}
  <2>1. PICK e \in DOMAIN Unescape :
            e \in Byte /\ Unescape[e] = b /\ escapeByte(b) = <<ESCAPE>> \o <<e>>
    BY <1>1, <1>6, EscapeFacts
  <2>2. ESCAPE \in Byte
    BY DEF Byte, ESCAPE
  <2>3. <<e>> \in Seq(Byte) /\ <<ESCAPE>> \in Seq(Byte)
    BY <2>1, <2>2
  <2> DEFINE y == <<e>> \o x
             z == x \o later
  <2>4. y \in Seq(Byte)
    BY <1>2, <2>3, HeadTailConcat
  <2>5. escape(rest) = <<ESCAPE>> \o y
    BY <1>2, <1>3, <2>1, <2>3, Associative
  <2>6. y \o later = <<e>> \o z
    BY <1>2, <2>3, Associative
  <2>7. escape(rest) \o later = <<ESCAPE>> \o (y \o later)
    BY <2>3, <2>4, <2>5, Associative
  <2> HIDE DEF y, z
  <2>8. Tail(escape(rest)) = y
    BY <2>2, <2>4, <2>5, ConcatOne
  <2>9. y \o later \in Seq(Byte) /\ z \in Seq(Byte)
    BY <1>4, <2>4, HeadTailConcat DEF z
  <2>10. /\ Head(escape(rest) \o later) = ESCAPE
         /\ Tail(escape(rest) \o later) = y \o later
         /\ escape(rest) \o later \in Seq(Byte) /\ escape(rest) \o later # <<>>
    BY <2>2, <2>7, <2>9, ConcatOne
  <2>11. y \o later # <<>> /\ Head(y \o later) = e /\ Tail(y \o later) = z
    BY <2>1, <2>6, <2>9, ConcatOne
  <2>12. QED
    BY <1>1, <1>6, <2>1, <2>8, <2>10, <2>11 DEF b, r, x, z
<1>7. QED
  BY <1>5, <1>6

-------------------------------------------------------------------------------
(* Frames *)

\* What the theorems below assume of the messages: a payload's length fits the two
\* bytes it is written in.  SendMessage truncates the length of a longer one
\* (line 180), and what it writes then is not a frame of that message.
PayloadsFit == \A m \in Messages : Len(m.payload) <= MaxUint16

\* What a frame holds after START, before it is escaped.
Data(message) == Body(message) \o LowHigh(crc16(Body(message)))

\* A uint16 is read back from its two bytes.
LEMMA LowHighFacts ==
    ASSUME NEW n \in Uint16
    PROVE  /\ LowHigh(n) \in Seq(Byte) /\ Len(LowHigh(n)) = 2
           /\ Number(LowHigh(n)[1], LowHigh(n)[2]) = n
<1>1. n \in Nat /\ n < 65536
  BY Uint16Facts
<1> DEFINE l == n % 256
           h == (n \div 256) % 256
<1>2. l \in Byte /\ h \in Byte /\ h * 256 + l = n
  BY <1>1 DEF Byte
<1>3. LowHigh(n) = <<l, h>>
  BY DEF LowHigh
<1> HIDE DEF l, h
<1>4. QED
  BY <1>2, <1>3 DEF Number

\* The type, the length and the payload, at their places.
LEMMA BodyFacts ==
    ASSUME PayloadsFit, NEW m \in Messages
    PROVE  /\ Len(m.payload) \in Uint16
           /\ Body(m) \in Seq(Byte)
           /\ Len(Body(m)) = Len(m.payload) + 3
           /\ Body(m)[1] = m.type
           /\ Number(Body(m)[2], Body(m)[3]) = Len(m.payload)
           /\ \A i \in 1 .. Len(m.payload) : Body(m)[i + 3] = m.payload[i]
<1> DEFINE p == m.payload
           n == Len(p)
           s == LowHigh(n)
<1>1. m.type \in Byte /\ p \in Seq(Byte) /\ n \in Nat
  BY SerialAssumption DEF SerialAssumption
<1>2. n \in Uint16
  <2>1. n <= MaxUint16
    BY DEF PayloadsFit
  <2>2. QED
    BY <1>1, <2>1, Uint16Facts DEF MaxUint16
<1>3. s \in Seq(Byte) /\ Len(s) = 2 /\ Number(s[1], s[2]) = n
  BY <1>2, LowHighFacts
<1>4. Body(m) = (<<m.type>> \o s) \o p
  BY DEF Body
<1> HIDE DEF p, n, s
<1> DEFINE q == <<m.type>> \o s
<1>5. q \in Seq(Byte) /\ Len(q) = 3 /\ q[1] = m.type /\ q[2] = s[1] /\ q[3] = s[2]
  <2> DEFINE t == <<m.type>>
  <2>1. t \in Seq(Byte) /\ Len(t) = 1 /\ t[1] = m.type
    BY <1>1
  <2>2. q = t \o s
    OBVIOUS
  <2> HIDE DEF t, q
  <2>3. /\ t \o s \in Seq(Byte) /\ Len(t \o s) = Len(t) + Len(s)
        /\ \A i \in 1 .. Len(t) + Len(s) : (t \o s)[i] = IF i <= Len(t) THEN t[i] ELSE s[i - Len(t)]
    BY <1>3, <2>1, ConcatProperties
  <2>4. Len(t) + Len(s) = 3
    BY <1>3, <2>1
  <2>5. q[1] = t[1] /\ q[2] = s[1] /\ q[3] = s[2]
    BY <2>1, <2>2, <2>3, <2>4
  <2>6. QED
    BY <2>1, <2>2, <2>3, <2>4, <2>5
<1> HIDE DEF q
<1>6. /\ q \o p \in Seq(Byte) /\ Len(q \o p) = 3 + Len(p)
      /\ \A i \in 1 .. 3 + Len(p) : (q \o p)[i] = IF i <= 3 THEN q[i] ELSE p[i - 3]
  <2>1. /\ q \o p \in Seq(Byte) /\ Len(q \o p) = Len(q) + Len(p)
        /\ \A i \in 1 .. Len(q) + Len(p) : (q \o p)[i] = IF i <= Len(q) THEN q[i] ELSE p[i - Len(q)]
    BY <1>1, <1>5, ConcatProperties
  <2>2. QED
    BY <1>5, <2>1
<1>7. n = Len(p)
  BY DEF n
<1>8. /\ (q \o p)[1] = q[1] /\ (q \o p)[2] = q[2] /\ (q \o p)[3] = q[3]
      /\ \A i \in 1 .. n : (q \o p)[i + 3] = p[i]
  BY <1>1, <1>6, <1>7
<1>9. Body(m) = q \o p
  BY <1>4 DEF q
<1>10. /\ n \in Uint16 /\ Body(m) \in Seq(Byte) /\ Len(Body(m)) = n + 3
       /\ Body(m)[1] = m.type /\ Number(Body(m)[2], Body(m)[3]) = n
       /\ \A i \in 1 .. n : Body(m)[i + 3] = p[i]
  <2>1. Len(Body(m)) = n + 3
    BY <1>1, <1>6, <1>7, <1>9
  <2>2. QED
    BY <1>2, <1>3, <1>5, <1>6, <1>8, <1>9, <2>1
<1>11. QED
  BY <1>10 DEF p, n

\* The checksum follows them.
LEMMA DataFacts ==
    ASSUME PayloadsFit, NEW m \in Messages
    PROVE  /\ Data(m) \in Seq(Byte)
           /\ Len(Data(m)) = Len(m.payload) + 5
           /\ \A i \in 1 .. Len(Body(m)) : Data(m)[i] = Body(m)[i]
           /\ Number(Data(m)[Len(m.payload) + 4], Data(m)[Len(m.payload) + 5])
                  = crc16(Body(m))
<1> DEFINE b == Body(m)
           s == LowHigh(crc16(b))
           n == Len(m.payload)
<1>1. n \in Nat /\ b \in Seq(Byte) /\ Len(b) = n + 3
  BY BodyFacts, Uint16Facts
<1>2. s \in Seq(Byte) /\ Len(s) = 2 /\ Number(s[1], s[2]) = crc16(b)
  BY <1>1, CrcType, LowHighFacts
<1>3. Data(m) = b \o s
  BY DEF Data
<1> HIDE DEF b, s, n
<1>4. /\ b \o s \in Seq(Byte) /\ Len(b \o s) = n + 5
      /\ \A i \in 1 .. n + 5 : (b \o s)[i] = IF i <= n + 3 THEN b[i] ELSE s[i - (n + 3)]
  <2>1. /\ b \o s \in Seq(Byte) /\ Len(b \o s) = Len(b) + Len(s)
        /\ \A i \in 1 .. Len(b) + Len(s) : (b \o s)[i] = IF i <= Len(b) THEN b[i] ELSE s[i - Len(b)]
    BY <1>1, <1>2, ConcatProperties
  <2>2. Len(b) + Len(s) = n + 5
    BY <1>1, <1>2
  <2>3. QED
    BY <1>1, <2>1, <2>2
<1>5. (b \o s)[n + 4] = s[1] /\ (b \o s)[n + 5] = s[2]
  <2>1. /\ n + 4 \in 1 .. n + 5 /\ n + 5 \in 1 .. n + 5
        /\ (n + 4) - (n + 3) = 1 /\ (n + 5) - (n + 3) = 2
        /\ ~(n + 4 <= n + 3) /\ ~(n + 5 <= n + 3)
    BY <1>1
  <2>2. QED
    BY <1>4, <2>1
<1>6. \A i \in 1 .. n + 3 : (b \o s)[i] = b[i]
  BY <1>1, <1>4
<1>7. QED
  BY <1>1, <1>2, <1>3, <1>4, <1>5, <1>6 DEF b, n

\* A reader that has read f of a frame of m, and has the rest before it, is in the
\* body exactly as long as f is no longer than it, has read all exactly when no rest
\* is left, and has then the checksum and the message that were written.
LEMMA FrameRead ==
    ASSUME PayloadsFit, NEW m \in Messages,
           NEW f \in Seq(Byte), NEW rest \in Seq(Byte), f # <<>>, f \o rest = Data(m)
    PROVE  /\ InBody(f) <=> Len(f) <= Len(Body(m))
           /\ Complete(f) <=> rest = <<>>
           /\ Len(f) = Len(Body(m)) => f = Body(m)
           /\ rest = <<>> => Checksum(f) = crc16(Body(m)) /\ Decode(f) = m
<1> DEFINE n == Len(m.payload)
           k == Len(f)
           D == Data(m)
<1>1. m \in [type : Byte, payload : Seq(Byte)]
  BY SerialAssumption DEF SerialAssumption
<1>2. n \in Nat /\ Len(Body(m)) = n + 3 /\ Body(m) \in Seq(Byte)
  BY BodyFacts, Uint16Facts
<1>3. /\ D[1] = m.type /\ Number(D[2], D[3]) = n
      /\ \A i \in 1 .. n : D[i + 3] = m.payload[i]
      /\ \A i \in 1 .. n + 3 : D[i] = Body(m)[i]
      /\ Number(D[n + 4], D[n + 5]) = crc16(Body(m))
  <2>1. /\ Body(m)[1] = m.type /\ Number(Body(m)[2], Body(m)[3]) = n
        /\ \A i \in 1 .. n : Body(m)[i + 3] = m.payload[i]
    BY BodyFacts
  <2>2. /\ \A i \in 1 .. n + 3 : D[i] = Body(m)[i]
        /\ Number(D[n + 4], D[n + 5]) = crc16(Body(m))
    BY <1>2, DataFacts
  <2> HIDE DEF D, n
  <2>3. 1 \in 1 .. n + 3 /\ 2 \in 1 .. n + 3 /\ 3 \in 1 .. n + 3
        /\ \A i \in 1 .. n : i + 3 \in 1 .. n + 3
    BY <1>2
  <2>4. QED
    BY <2>1, <2>2, <2>3
<1>4. k \in Nat /\ k > 0 /\ k + Len(rest) = n + 5 /\ \A i \in 1 .. k : f[i] = D[i]
  <2>1. /\ Len(f \o rest) = k + Len(rest)
        /\ \A i \in 1 .. k : (f \o rest)[i] = f[i]
    BY ConcatProperties
  <2>2. Len(D) = n + 5
    BY DataFacts
  <2>3. QED
    BY <2>1, <2>2
<1>5. Len(rest) \in Nat /\ (rest = <<>> <=> Len(rest) = 0)
  OBVIOUS
<1> HIDE DEF n, D
<1>6. k > 3 => Length(f) = n
  BY <1>3, <1>4 DEF Length
<1>7. InBody(f) <=> k <= n + 3
  BY <1>2, <1>4, <1>6 DEF InBody
<1>8. Complete(f) <=> rest = <<>>
  BY <1>2, <1>4, <1>5, <1>6 DEF Complete
<1>9. ASSUME k = n + 3 PROVE f = Body(m)
  BY <1>2, <1>3, <1>4, <1>9, SeqEqual
<1>10. ASSUME rest = <<>> PROVE Checksum(f) = crc16(Body(m)) /\ Decode(f) = m
  <2>1. k = n + 5 /\ Length(f) = n
    BY <1>2, <1>4, <1>5, <1>6, <1>10
  <2>2. f[k] = D[n + 5] /\ f[k - 1] = D[n + 4] /\ f[1] = m.type
    BY <1>2, <1>3, <1>4, <2>1
  <2>3. Checksum(f) = crc16(Body(m))
    BY <1>3, <2>2 DEF Checksum
  <2> DEFINE p == SubSeq(f, 4, 3 + n)
  <2>4. p \in Seq(Byte) /\ Len(p) = n /\ \A i \in 1 .. n : p[i] = f[i + 3]
    BY <1>2, <2>1
  <2> HIDE DEF p
  <2>5. \A i \in 1 .. n : p[i] = m.payload[i]
    <3> TAKE i \in 1 .. n
    <3>1. i + 3 \in 1 .. k
      BY <1>2, <2>1
    <3>2. p[i] = f[i + 3] /\ f[i + 3] = D[i + 3] /\ D[i + 3] = m.payload[i]
      BY <1>3, <1>4, <2>4, <3>1
    <3>3. QED
      BY <3>2
  <2>6. p = m.payload
    BY <1>1, <2>4, <2>5, SeqEqual DEF n
  <2>7. Decode(f) = [type |-> m.type, payload |-> m.payload]
    BY <2>1, <2>2, <2>6 DEF Decode, p
  <2>8. QED
    BY <1>1, <2>3, <2>7
<1>11. QED
  BY <1>2, <1>7, <1>8, <1>9, <1>10

\* A frame is START and the escaped data.
LEMMA EncodeFacts ==
    ASSUME PayloadsFit, NEW m \in Messages
    PROVE  /\ Encode(m) = <<START>> \o escape(Data(m))
           /\ Encode(m) \in Seq(Byte) /\ Encode(m) # <<>>
           /\ escape(Data(m)) \in Seq(Byte) /\ START \in Byte
<1>1. escape(Data(m)) \in Seq(Byte) /\ START \in Byte
  BY DataFacts, EscapeType DEF START, Byte
<1>2. Encode(m) = <<START>> \o escape(Data(m))
  BY DEF Encode, Data
<1>3. QED
  BY <1>1, <1>2, ConcatOne

\* Every message is written as bytes, also one that is too long.
LEMMA EncodeType ==
    ASSUME NEW m \in Messages
    PROVE  Body(m) \in Seq(Byte) /\ Encode(m) \in Seq(Byte)
<1>1. \A n \in Nat : LowHigh(n) \in Seq(Byte)
  <2> TAKE n \in Nat
  <2>1. n % 256 \in Byte /\ (n \div 256) % 256 \in Byte
    BY DEF Byte
  <2>2. QED
    BY <2>1 DEF LowHigh
<1>2. m.type \in Byte /\ m.payload \in Seq(Byte) /\ Len(m.payload) \in Nat
  BY SerialAssumption DEF SerialAssumption
<1>3. <<m.type>> \in Seq(Byte)
  BY <1>2
<1>4. Body(m) \in Seq(Byte)
  BY <1>1, <1>2, <1>3, HeadTailConcat DEF Body
<1>5. crc16(Body(m)) \in Nat
  BY <1>4, CrcType, Uint16Facts
<1>6. Data(m) \in Seq(Byte)
  BY <1>1, <1>4, <1>5, HeadTailConcat DEF Data
<1>7. escape(Data(m)) \in Seq(Byte) /\ <<START>> \in Seq(Byte)
  BY <1>6, EscapeType DEF START, Byte
<1>8. Encode(m) = <<START>> \o escape(Data(m))
  BY DEF Encode, Data
<1>9. QED
  BY <1>4, <1>7, <1>8, HeadTailConcat

-------------------------------------------------------------------------------
(* Several frames on the line *)

\* s is the frames of the messages ms, one behind the other.
Encoded(s, ms) ==
    \E w \in [0 .. Len(ms) -> Seq(Byte)] :
        /\ w[0] = s
        /\ w[Len(ms)] = <<>>
        /\ \A k \in 1 .. Len(ms) : w[k - 1] = Encode(ms[k]) \o w[k]

\* No bytes are the frames of no messages.
LEMMA NothingEncoded == Encoded(<<>>, <<>>)
<1> DEFINE w == [k \in 0 .. 0 |-> <<>>]
<1>1. w \in [0 .. 0 -> Seq(Byte)] /\ w[0] = <<>> /\ 1 .. 0 = {} /\ Len(<<>>) = 0
  OBVIOUS
<1> HIDE DEF w
<1>2. QED
  BY <1>1 DEF Encoded

\* Only no messages have no bytes.
LEMMA EncodedEmpty ==
    ASSUME PayloadsFit, NEW ms \in Seq(Messages), NEW s, Encoded(s, ms)
    PROVE  s \in Seq(Byte) /\ (s = <<>> <=> ms = <<>>)
<1> DEFINE n == Len(ms)
<1>1. PICK w \in [0 .. n -> Seq(Byte)] :
          w[0] = s /\ w[n] = <<>> /\ \A k \in 1 .. n : w[k - 1] = Encode(ms[k]) \o w[k]
  BY DEF Encoded
<1>2. n \in Nat /\ (ms = <<>> <=> n = 0) /\ \A k \in 1 .. n : ms[k] \in Messages
  OBVIOUS
<1> HIDE DEF n
<1>3. s \in Seq(Byte)
  BY <1>1, <1>2
<1>4. ASSUME ms # <<>> PROVE s # <<>>
  <2>1. 1 \in 1 .. n /\ 1 \in 0 .. n /\ 1 - 1 = 0
    BY <1>2, <1>4
  <2>2. s = Encode(ms[1]) \o w[1] /\ ms[1] \in Messages /\ w[1] \in Seq(Byte)
    BY <1>1, <1>2, <2>1
  <2>3. QED
    BY <2>2, EncodeFacts, HeadTailConcat
<1>5. QED
  BY <1>1, <1>2, <1>3, <1>4

\* A frame written behind others.
LEMMA EncodedAppend ==
    ASSUME PayloadsFit, NEW ms \in Seq(Messages), NEW s, Encoded(s, ms), NEW m \in Messages
    PROVE  Encoded(s \o Encode(m), Append(ms, m))
<1> DEFINE n == Len(ms)
           M == Append(ms, m)
           E == Encode(m)
<1>1. PICK w \in [0 .. n -> Seq(Byte)] :
          w[0] = s /\ w[n] = <<>> /\ \A k \in 1 .. n : w[k - 1] = Encode(ms[k]) \o w[k]
  BY DEF Encoded
<1>2. /\ n \in Nat /\ Len(M) = n + 1 /\ M[n + 1] = m
      /\ \A k \in 1 .. n : M[k] = ms[k] /\ ms[k] \in Messages
  OBVIOUS
<1>3. E \in Seq(Byte) /\ <<>> \o E = E /\ E \o <<>> = E
  BY EncodeFacts, ConcatEmptySeq
<1> DEFINE W == [k \in 0 .. n + 1 |-> IF k = n + 1 THEN <<>> ELSE w[k] \o E]
<1>4. /\ \A k \in 0 .. n : k \in 0 .. n + 1 /\ W[k] = w[k] \o E
      /\ W[n + 1] = <<>>
  BY <1>2
<1>5. W \in [0 .. n + 1 -> Seq(Byte)]
  <2>1. \A k \in 0 .. n : w[k] \o E \in Seq(Byte)
    BY <1>1, <1>3, HeadTailConcat
  <2>2. QED
    BY <1>2, <2>1
<1> HIDE DEF n, M, E, W
<1>6. ASSUME NEW k \in 1 .. n + 1 PROVE W[k - 1] = Encode(M[k]) \o W[k]
  <2>1. k - 1 \in 0 .. n
    BY <1>2
  <2>2. CASE k = n + 1
    <3>1. W[k - 1] = <<>> \o E
      <4>1. n \in 0 .. n /\ k - 1 = n
        BY <1>2, <2>2
      <4>2. W[n] = w[n] \o E
        BY <1>4, <4>1
      <4>3. QED
        BY <1>1, <4>1, <4>2
    <3>2. W[k] = <<>> /\ M[k] = m
      BY <1>2, <1>4, <2>2
    <3>3. QED
      BY <1>3, <3>1, <3>2 DEF E
  <2>3. CASE k # n + 1
    <3>1. k \in 1 .. n /\ k \in 0 .. n
      BY <1>2, <2>3
    <3>2. W[k - 1] = (Encode(ms[k]) \o w[k]) \o E /\ W[k] = w[k] \o E /\ M[k] = ms[k]
      BY <1>1, <1>2, <1>4, <2>1, <3>1
    <3>3. Encode(ms[k]) \in Seq(Byte) /\ w[k] \in Seq(Byte)
      BY <1>1, <1>2, <3>1, EncodeFacts
    <3>4. (Encode(ms[k]) \o w[k]) \o E = Encode(ms[k]) \o (w[k] \o E)
      BY <1>3, <3>3, Associative
    <3>5. QED
      BY <3>2, <3>4
  <2>4. QED
    BY <2>2, <2>3
<1>7. W[0] = s \o E
  <2>1. 0 \in 0 .. n
    BY <1>2
  <2>2. W[0] = w[0] \o E
    BY <1>4, <2>1
  <2>3. QED
    BY <1>1, <2>2
<1>8. Encoded(s \o E, M)
  BY <1>2, <1>4, <1>5, <1>6, <1>7 DEF Encoded
<1>9. QED
  BY <1>8 DEF M, E

\* The first frame, and the others behind it.
LEMMA EncodedFirst ==
    ASSUME PayloadsFit, NEW ms \in Seq(Messages), NEW s, Encoded(s, ms), ms # <<>>
    PROVE  \E later \in Seq(Byte) :
               s = Encode(Head(ms)) \o later /\ Encoded(later, Tail(ms))
<1> DEFINE n == Len(ms)
           T == Tail(ms)
<1>1. PICK w \in [0 .. n -> Seq(Byte)] :
          w[0] = s /\ w[n] = <<>> /\ \A k \in 1 .. n : w[k - 1] = Encode(ms[k]) \o w[k]
  BY DEF Encoded
<1>2. /\ n \in Nat /\ n > 0 /\ Head(ms) = ms[1]
      /\ Len(T) = n - 1 /\ \A k \in 1 .. n - 1 : T[k] = ms[k + 1]
  OBVIOUS
<1> HIDE DEF n, T
<1>3. 1 \in 1 .. n /\ 1 \in 0 .. n /\ 1 - 1 = 0
  BY <1>2
<1>4. s = Encode(Head(ms)) \o w[1] /\ w[1] \in Seq(Byte)
  BY <1>1, <1>2, <1>3
<1> DEFINE W == [k \in 0 .. n - 1 |-> w[k + 1]]
<1>5. \A k \in 0 .. n - 1 : k + 1 \in 0 .. n /\ W[k] = w[k + 1]
  BY <1>2
<1>6. W \in [0 .. n - 1 -> Seq(Byte)]
  BY <1>1, <1>5
<1>7. W[0] = w[1] /\ W[n - 1] = <<>>
  <2>1. 0 \in 0 .. n - 1 /\ n - 1 \in 0 .. n - 1 /\ 0 + 1 = 1 /\ (n - 1) + 1 = n
    BY <1>2
  <2> HIDE DEF W
  <2>2. QED
    BY <1>1, <1>5, <2>1
<1> HIDE DEF W
<1>8. ASSUME NEW k \in 1 .. n - 1 PROVE W[k - 1] = Encode(T[k]) \o W[k]
  <2>1. /\ k - 1 \in 0 .. n - 1 /\ k \in 0 .. n - 1 /\ k + 1 \in 1 .. n
        /\ (k - 1) + 1 = k /\ (k + 1) - 1 = k
    BY <1>2
  <2>2. W[k - 1] = w[k] /\ W[k] = w[k + 1] /\ T[k] = ms[k + 1]
    BY <1>2, <1>5, <2>1
  <2>3. w[(k + 1) - 1] = Encode(ms[k + 1]) \o w[k + 1]
    BY <1>1, <2>1
  <2>4. QED
    BY <2>1, <2>2, <2>3
<1>9. Encoded(w[1], T)
  BY <1>2, <1>6, <1>7, <1>8 DEF Encoded
<1>10. QED
  BY <1>4, <1>9 DEF T

-------------------------------------------------------------------------------
(* Types *)

\* A byte that recv_byte returns leaves the reader's state well typed.
LEMMA GotTypes ==
    ASSUME TypeOK, NEW b \in Byte, Got(b)
    PROVE  /\ at' \in {"start", "frame", "ended"}
           /\ frame' \in Seq(Byte)
           /\ calculatedCrc' \in Uint16
           /\ received' \in Seq([type : Byte, payload : Seq(Byte)])
           /\ expected' \in Seq(Messages)
<1> DEFINE f == Append(frame, b)
           R == [type : Byte, payload : Seq(Byte)]
<1>1. /\ at \in {"start", "frame", "ended"} /\ frame \in Seq(Byte) /\ calculatedCrc \in Uint16
      /\ received \in Seq(R) /\ expected \in Seq(Messages)
  BY DEF TypeOK
<1>2. f \in Seq(Byte)
  BY <1>1
<1>3. crcStep(calculatedCrc, b) \in Uint16 /\ 0 \in Uint16
  BY <1>1, CrcStepType, Uint16Facts
<1>4. ASSUME Complete(f) PROVE Decode(f) \in R
  <2>1. Len(f) \in Nat /\ Len(f) > 3 /\ Len(f) = 3 + Length(f) + 2
    BY <1>2, <1>4 DEF Complete
  <2> HIDE DEF f
  <2>2. f[1] \in Byte /\ f[2] \in Byte /\ f[3] \in Byte
    BY <1>2, <2>1
  <2>3. Length(f) \in Nat
    <3>1. \A x, y \in Byte : Number(x, y) \in Nat
      BY DEF Number, Byte
    <3>2. QED
      BY <2>2, <3>1 DEF Length
  <2>4. SubSeq(f, 4, 3 + Length(f)) \in Seq(Byte)
    BY <1>2, <2>1, <2>3
  <2>5. QED
    BY <2>2, <2>4 DEF Decode
<1>5. /\ <<>> \in Seq(Byte) /\ <<>> \in Seq(Messages)
      /\ expected # <<>> => Tail(expected) \in Seq(Messages)
  BY <1>1
<1>6. Complete(f) => Append(received, Decode(f)) \in Seq(R)
  BY <1>1, <1>4
<1> HIDE DEF f, R
<1>7. CASE at = "start"
  BY <1>1, <1>7 DEF Got, R
<1>8. CASE at # "start"
  <2>1. CASE ~Complete(f)
    BY <1>1, <1>2, <1>3, <1>8, <2>1 DEF Got, R, f
  <2>2. CASE Complete(f)
    BY <1>1, <1>3, <1>5, <1>6, <1>8, <2>2 DEF Got, R, f
  <2>3. QED
    BY <2>1, <2>2
<1>9. QED
  BY <1>7, <1>8

\* Every reachable state has the types declared for it, whatever the noise: the
\* checksum stays a uint16, and what is received is a byte of type and bytes of
\* payload, even of a frame that was never sent.
THEOREM SerialTypeCorrect == Spec => []TypeOK
<1>1. Init => TypeOK
  <2>1. 0 \in Uint16 /\ 0 \in 0 .. MaxNoise
    BY SerialAssumption, Uint16Facts DEF SerialAssumption
  <2>2. \A S : <<>> \in Seq(S)
    OBVIOUS
  <2>3. QED
    BY <2>1, <2>2, Zenon DEF Init, TypeOK
<1>2. ASSUME TypeOK, [Next]_vars PROVE TypeOK'
  <2>1. ASSUME NEW m \in Messages, SendMessage(m) PROVE TypeOK'
    <3>1. line' \in Seq(Byte)
      BY <1>2, <2>1, EncodeType, HeadTailConcat DEF SendMessage, TypeOK
    <3>2. sent' \in Seq(Messages) /\ expected' \in Seq(Messages)
      BY <1>2, <2>1 DEF SendMessage, TypeOK
    <3>3. QED
      BY <1>2, <2>1, <3>1, <3>2 DEF SendMessage, TypeOK, readerVars
  <2>2. CASE Noise
    <3>1. PICK i \in DOMAIN line :
              line' = RemoveAt(line, i) \/ \E b \in Noisy : line' = ReplaceAt(line, i, b)
      BY <2>2 DEF Noise
    <3>2. line \in Seq(Byte) /\ i \in 1 .. Len(line)
      BY <1>2, <3>1 DEF TypeOK
    <3>3. RemoveAt(line, i) \in Seq(Byte)
      <4>1. SubSeq(line, 1, i - 1) \in Seq(Byte) /\ SubSeq(line, i + 1, Len(line)) \in Seq(Byte)
        BY <3>2
      <4>2. QED
        BY <4>1, HeadTailConcat DEF RemoveAt
    <3>4. ASSUME NEW b \in Noisy PROVE ReplaceAt(line, i, b) \in Seq(Byte)
      <4>1. b \in Byte
        BY SerialAssumption DEF SerialAssumption
      <4>2. QED
        BY <3>2, <4>1 DEF ReplaceAt
    <3>5. line' \in Seq(Byte)
      BY <3>1, <3>3, <3>4
    <3>6. noise' \in 0 .. MaxNoise
      BY <1>2, <2>2, SerialAssumption DEF Noise, TypeOK, SerialAssumption
    <3>7. QED
      BY <1>2, <2>2, <3>5, <3>6 DEF Noise, TypeOK, readerVars
  <2>3. CASE ReadEscape
    BY <1>2, <2>3 DEF ReadEscape, TypeOK, ghostVars
  <2>4. CASE ReadByte
    <3>1. line' \in Seq(Byte) /\ Head(line) \in Byte
      BY <1>2, <2>4 DEF ReadByte, TypeOK
    <3>2. \A b \in DOMAIN Unescape : Unescape[b] \in Byte
      BY DEF Unescape, START, ESCAPE, Byte
    <3>3. PICK b \in Byte : Got(b)
      BY <2>4, <3>1, <3>2 DEF ReadByte
    <3>4. /\ at' \in {"start", "frame", "ended"}
          /\ frame' \in Seq(Byte) /\ calculatedCrc' \in Uint16
          /\ received' \in Seq([type : Byte, payload : Seq(Byte)])
          /\ expected' \in Seq(Messages)
      BY <1>2, <3>3, GotTypes
    <3>5. escaped' \in BOOLEAN /\ disturbed' \in BOOLEAN /\ sent' = sent /\ noise' = noise
      BY <2>4 DEF ReadByte
    <3>6. QED
      BY <1>2, <3>1, <3>4, <3>5 DEF TypeOK
  <2>5. CASE InvalidEscape
    BY <1>2, <2>5 DEF InvalidEscape, TypeOK, ghostVars
  <2>6. CASE ReadTimeout
    <3>1. disturbed' \in BOOLEAN /\ escaped' \in BOOLEAN /\ at' \in {"start", "frame", "ended"}
      BY <2>6 DEF ReadTimeout
    <3>2. 0 \in Uint16
      BY Uint16Facts
    <3>3. QED
      BY <1>2, <2>6, <3>1, <3>2 DEF ReadTimeout, TypeOK
  <2>7. CASE UNCHANGED vars
    BY <1>2, <2>7 DEF vars, readerVars, ghostVars, TypeOK
  <2>8. QED
    BY <1>2, <2>1, <2>2, <2>3, <2>4, <2>5, <2>6, <2>7 DEF Next, Receive
<1>3. QED
  BY <1>1, <1>2, PTL DEF Spec

-------------------------------------------------------------------------------
(* The reader and the line in front of it *)

\* The rest of a frame as it lies on the line; of a byte whose ESCAPE has been read,
\* only the byte after it.
Ahead(esc, rest) == IF esc THEN Tail(escape(rest)) ELSE escape(rest)

\* The checksum of a reader that has read f of a frame of m.
CrcSoFar(f, crc, m) ==
    /\ Len(f) <= Len(Body(m)) => crc = crc16(f)
    /\ Len(f) >= Len(Body(m)) => crc = crc16(Body(m))

\* The reader is between two frames: the line holds the frames of the messages that
\* are expected.
Hunting == at = "start" /\ ~escaped /\ Encoded(line, expected)

\* The reader is within the frame of the first message expected: it has read the
\* part in frame, the rest of it is next on the line, and later frames behind.
Within(rest, later) ==
    /\ rest \in Seq(Byte) /\ later \in Seq(Byte)
    /\ rest # <<>>
    /\ frame \o rest = Data(Head(expected))
    /\ escaped => Head(rest) \in {START, ESCAPE}
    /\ line = Ahead(escaped, rest) \o later
    /\ Encoded(later, Tail(expected))
    /\ CrcSoFar(frame, calculatedCrc, Head(expected))

\* The reader is within a frame.
Reading == at = "frame" /\ expected # <<>> /\ \E rest, later : Within(rest, later)

\* The inductive invariant.  A reader that hunts for START has forgotten the last
\* frame; a disturbed line has no message that is owed; and on one that is not
\* disturbed the reader, the line and the expected messages fit together.
LineInv ==
    /\ at = "start" => frame = <<>> /\ calculatedCrc = 0
    /\ disturbed => expected = <<>>
    /\ ~disturbed => Hunting \/ Reading

\* The checksum that ReceiveMessage keeps is the one of what it has read of the body,
\* before and after a byte (lines 219-258).
LEMMA CrcAdvances ==
    ASSUME PayloadsFit, NEW m \in Messages,
           NEW f \in Seq(Byte), NEW b \in Byte, NEW r \in Seq(Byte),
           Append(f, b) \o r = Data(m), NEW crc, CrcSoFar(f, crc, m)
    PROVE  CrcSoFar(Append(f, b), IF InBody(Append(f, b)) THEN crcStep(crc, b) ELSE crc, m)
<1> DEFINE g == Append(f, b)
           n == Len(Body(m))
<1>1. g \in Seq(Byte) /\ g # <<>> /\ Len(g) = Len(f) + 1 /\ Len(f) \in Nat /\ n \in Nat
  <2>1. Body(m) \in Seq(Byte)
    BY BodyFacts
  <2>2. n \in Nat /\ Len(f) \in Nat
    BY <2>1
  <2>3. QED
    BY <2>2, AppendProperties
<1>2. (InBody(g) <=> Len(g) <= n) /\ (Len(g) = n => g = Body(m))
  BY <1>1, FrameRead
<1>3. crc16(g) = crcStep(crc16(f), b)
  BY CrcOfAppend
<1> HIDE DEF g, n
<1>4. Len(f) <= n => crc = crc16(f)
  BY DEF CrcSoFar, n
<1>5. Len(f) >= n => crc = crc16(Body(m))
  BY DEF CrcSoFar, n
<1>6. CASE Len(g) <= n
  <2>1. Len(f) <= n
    BY <1>1, <1>6
  <2>2. crcStep(crc, b) = crc16(g)
    BY <1>3, <1>4, <2>1
  <2>3. Len(g) >= n => g = Body(m)
    BY <1>1, <1>2, <1>6
  <2>4. CrcSoFar(g, crcStep(crc, b), m)
    BY <2>2, <2>3 DEF CrcSoFar, n
  <2>5. QED
    BY <1>2, <1>6, <2>4 DEF g
<1>7. CASE ~(Len(g) <= n)
  BY <1>1, <1>2, <1>5, <1>7 DEF CrcSoFar, g, n
<1>8. QED
  BY <1>6, <1>7

\* The reader takes the next byte of the frame: it stays within the frame, or it has
\* read all of it and returns the message.
LEMMA GotNext ==
    ASSUME PayloadsFit, TypeOK, at = "frame", expected # <<>>,
           NEW rest \in Seq(Byte), NEW later \in Seq(Byte), rest # <<>>,
           frame \o rest = Data(Head(expected)),
           Encoded(later, Tail(expected)),
           CrcSoFar(frame, calculatedCrc, Head(expected)),
           Got(Head(rest)),
           line' = escape(Tail(rest)) \o later, escaped' = FALSE
    PROVE  /\ Hunting' \/ Reading'
           /\ at' = "start" => frame' = <<>> /\ calculatedCrc' = 0
           /\ received' # received => received' = Append(received, Head(expected))
<1> DEFINE b == Head(rest)
           r == Tail(rest)
           m == Head(expected)
           f == Append(frame, b)
<1>1. b \in Byte /\ r \in Seq(Byte) /\ rest = <<b>> \o r
  BY HeadTailConcat, EmptySeq
<1>2. frame \in Seq(Byte) /\ m \in Messages /\ f \in Seq(Byte) /\ f # <<>>
  <2>1. frame \in Seq(Byte) /\ m \in Messages
    BY DEF TypeOK
  <2>2. QED
    BY <1>1, <2>1, AppendProperties
<1>3. f \o r = Data(m)
  <2>1. frame \o (<<b>> \o r) = (frame \o <<b>>) \o r /\ <<b>> \in Seq(Byte)
    BY <1>1, <1>2, Associative
  <2>2. f = frame \o <<b>>
    BY <1>1, <1>2, AppendIsConcat
  <2>3. QED
    BY <1>1, <2>1, <2>2
<1>4. CrcSoFar(f, IF InBody(f) THEN crcStep(calculatedCrc, b) ELSE calculatedCrc, m)
  BY <1>1, <1>2, <1>3, CrcAdvances
<1>5. /\ Complete(f) <=> r = <<>>
      /\ r = <<>> => Checksum(f) = crc16(Body(m)) /\ Decode(f) = m
  BY <1>1, <1>2, <1>3, FrameRead
<1>6. line' = escape(r) \o later
  OBVIOUS
<1>7. CASE r # <<>>
  <2>1. /\ frame' = f /\ at' = "frame" /\ UNCHANGED <<received, expected>>
        /\ calculatedCrc' = IF InBody(f) THEN crcStep(calculatedCrc, b) ELSE calculatedCrc
    BY <1>5, <1>7 DEF Got
  <2>2. CrcSoFar(frame', calculatedCrc', m)
    BY <1>4, <2>1
  <2> HIDE DEF b, r, m, f
  <2>3. Ahead(FALSE, r) = escape(r)
    BY DEF Ahead
  <2>4. Within(r, later)'
    BY <1>1, <1>3, <1>6, <1>7, <2>1, <2>2, <2>3 DEF Within, m
  <2>5. QED
    BY <2>1, <2>4 DEF Reading
<1>8. CASE r = <<>>
  <2>1. Len(frame) >= Len(Body(m))
    <3>1. Len(f \o r) = Len(f) /\ Len(f) = Len(frame) + 1 /\ Len(frame) \in Nat
      <4>1. Len(f) = Len(frame) + 1 /\ Len(frame) \in Nat
        BY <1>1, <1>2, AppendProperties
      <4>2. f \o r = f
        BY <1>2, <1>8, ConcatEmptySeq
      <4>3. QED
        BY <4>1, <4>2
    <3>2. /\ Len(Data(m)) = Len(m.payload) + 5 /\ Len(Body(m)) = Len(m.payload) + 3
          /\ Len(m.payload) \in Nat
      BY <1>2, DataFacts, BodyFacts, Uint16Facts
    <3>3. QED
      BY <1>3, <3>1, <3>2
  <2>2. calculatedCrc = crc16(Body(m))
    BY <2>1 DEF CrcSoFar
  <2>3. /\ frame' = <<>> /\ calculatedCrc' = 0 /\ at' = "start"
        /\ received' = Append(received, m) /\ expected' = Tail(expected)
    BY <1>5, <1>8, <2>2 DEF Got
  <2>4. line' = later
    BY <1>6, <1>8, EscapeOfNothing, ConcatEmptySeq
  <2>5. Encoded(line', expected')
    BY <2>3, <2>4
  <2>6. QED
    BY <2>3, <2>5 DEF Hunting
<1>9. QED
  BY <1>7, <1>8

\* What is left of a frame on the line is bytes.
LEMMA AheadType ==
    ASSUME NEW rest \in Seq(Byte), rest # <<>>, NEW esc
    PROVE  Ahead(esc, rest) \in Seq(Byte)
<1>1. <<>> \in Seq(Byte) /\ escape(rest) \in Seq(Byte)
  BY EscapeType
<1>2. escape(rest) # <<>>
  <2>1. escape(rest) \o <<>> # <<>>
    BY <1>1, NextByte
  <2>2. QED
    BY <1>1, <2>1, ConcatEmptySeq
<1>3. QED
  BY <1>1, <1>2, HeadTailConcat DEF Ahead

\* The reader meets the first byte of a frame.
LEMMA HuntingFirst ==
    ASSUME PayloadsFit, TypeOK, Hunting, line # <<>>
    PROVE  /\ expected # <<>> /\ Head(expected) \in Messages /\ Tail(expected) \in Seq(Messages)
           /\ Head(line) = START /\ START # ESCAPE
           /\ \E later \in Seq(Byte) :
                  /\ Tail(line) = escape(Data(Head(expected))) \o later
                  /\ Encoded(later, Tail(expected))
<1>1. expected \in Seq(Messages) /\ Encoded(line, expected)
  BY DEF TypeOK, Hunting
<1>2. expected # <<>>
  BY <1>1, EncodedEmpty
<1>3. Head(expected) \in Messages /\ Tail(expected) \in Seq(Messages)
  BY <1>1, <1>2
<1> DEFINE x == escape(Data(Head(expected)))
<1>4. PICK later \in Seq(Byte) :
          line = Encode(Head(expected)) \o later /\ Encoded(later, Tail(expected))
  BY <1>1, <1>2, EncodedFirst
<1>5. Encode(Head(expected)) = <<START>> \o x /\ x \in Seq(Byte) /\ START \in Byte
  BY <1>3, EncodeFacts
<1> HIDE DEF x
<1>6. line = <<START>> \o (x \o later) /\ x \o later \in Seq(Byte)
  <2>1. <<START>> \in Seq(Byte)
    BY <1>5
  <2>2. (<<START>> \o x) \o later = <<START>> \o (x \o later)
    BY <1>5, <2>1, Associative
  <2>3. x \o later \in Seq(Byte)
    BY <1>5, HeadTailConcat
  <2>4. QED
    BY <1>4, <1>5, <2>2, <2>3
<1>7. Head(line) = START /\ Tail(line) = x \o later
  BY <1>5, <1>6, ConcatOne
<1>8. START # ESCAPE
  BY DEF START, ESCAPE
<1>9. QED
  BY <1>2, <1>3, <1>4, <1>7, <1>8 DEF x

\* The reader meets a byte within a frame.
LEMMA ReadingNext ==
    ASSUME TypeOK, NEW rest, NEW later, Within(rest, later)
    PROVE  /\ rest \in Seq(Byte) /\ later \in Seq(Byte) /\ rest # <<>>
           /\ line # <<>>
           /\ escaped => /\ Head(line) \in DOMAIN Unescape /\ Unescape[Head(line)] = Head(rest)
                         /\ Tail(line) = escape(Tail(rest)) \o later
           /\ ~escaped /\ Head(line) = ESCAPE =>
                  /\ Head(rest) \in {START, ESCAPE}
                  /\ Tail(line) = Ahead(TRUE, rest) \o later
           /\ ~escaped /\ Head(line) # ESCAPE =>
                  Head(line) = Head(rest) /\ Tail(line) = escape(Tail(rest)) \o later
<1>1. /\ rest \in Seq(Byte) /\ later \in Seq(Byte) /\ rest # <<>>
      /\ escaped => Head(rest) \in {START, ESCAPE}
      /\ line = Ahead(escaped, rest) \o later
  BY DEF Within
<1> DEFINE l == escape(rest) \o later
           u == Tail(escape(rest)) \o later
           b == Head(rest)
           next == escape(Tail(rest)) \o later
<1>2. /\ l # <<>>
      /\ b \in {START, ESCAPE} =>
             /\ Head(l) = ESCAPE /\ Tail(l) = u /\ u # <<>>
             /\ Head(u) \in DOMAIN Unescape /\ Unescape[Head(u)] = b
             /\ Tail(u) = next
      /\ b \notin {START, ESCAPE} => Head(l) = b /\ Tail(l) = next
  BY <1>1, NextByte
<1>3. line = (IF escaped THEN u ELSE l) /\ Ahead(TRUE, rest) \o later = u
  BY <1>1 DEF Ahead
<1> HIDE DEF l, u, next, b
<1>4. b = Head(rest) /\ next = escape(Tail(rest)) \o later
  BY DEF b, next
<1>5. CASE escaped
  BY <1>1, <1>2, <1>3, <1>4, <1>5
<1>6. CASE ~escaped
  BY <1>1, <1>2, <1>3, <1>4, <1>6
<1>7. QED
  BY <1>5, <1>6

\* A reader keeps its place when a message is written behind it.
LEMMA SendBehind ==
    ASSUME PayloadsFit, TypeOK, NEW m \in Messages, SendMessage(m), ~disturbed, Hunting \/ Reading
    PROVE  Hunting' \/ Reading'
<1>1. /\ line' = line \o Encode(m) /\ expected' = Append(expected, m)
      /\ at' = at /\ escaped' = escaped /\ frame' = frame /\ calculatedCrc' = calculatedCrc
  BY DEF SendMessage, readerVars
<1>2. expected \in Seq(Messages) /\ Encode(m) \in Seq(Byte)
  BY EncodeType DEF TypeOK
<1>3. CASE Hunting
  <2>1. Encoded(line', expected')
    BY <1>1, <1>2, <1>3, EncodedAppend DEF Hunting
  <2>2. QED
    BY <1>1, <1>3, <2>1 DEF Hunting
<1>4. CASE Reading
  <2>1. PICK rest, later : Within(rest, later)
    BY <1>4 DEF Reading
  <2>2. /\ at = "frame" /\ expected # <<>>
        /\ rest \in Seq(Byte) /\ later \in Seq(Byte) /\ rest # <<>>
        /\ frame \o rest = Data(Head(expected))
        /\ escaped => Head(rest) \in {START, ESCAPE}
        /\ line = Ahead(escaped, rest) \o later
        /\ Encoded(later, Tail(expected))
        /\ CrcSoFar(frame, calculatedCrc, Head(expected))
    BY <1>4, <2>1 DEF Reading, Within
  <2> DEFINE L == later \o Encode(m)
  <2>3. L \in Seq(Byte) /\ line' = Ahead(escaped, rest) \o L
    <3>1. Ahead(escaped, rest) \in Seq(Byte)
      BY <2>2, AheadType
    <3>2. (Ahead(escaped, rest) \o later) \o Encode(m)
              = Ahead(escaped, rest) \o (later \o Encode(m))
      BY <1>2, <2>2, <3>1, Associative
    <3>3. L \in Seq(Byte)
      BY <1>2, <2>2, HeadTailConcat
    <3>4. QED
      BY <1>1, <2>2, <3>2, <3>3
  <2>4. /\ expected' # <<>> /\ Head(expected') = Head(expected)
        /\ Tail(expected') = Append(Tail(expected), m) /\ Tail(expected) \in Seq(Messages)
    <3>1. Append(expected, m) # <<>> /\ Tail(expected) \in Seq(Messages)
      <4>1. Append(expected, m) # <<>>
        BY <1>2, AppendProperties
      <4>2. expected # <<>>
        BY <2>2
      <4>3. Tail(expected) \in Seq(Messages)
        BY <1>2, <4>2
      <4>4. QED
        BY <4>1, <4>3
    <3>2. /\ Head(Append(expected, m)) = Head(expected)
          /\ Tail(Append(expected, m)) = Append(Tail(expected), m)
      BY <1>2, <2>2, HeadTailAppend
    <3>3. QED
      BY <1>1, <3>1, <3>2
  <2>5. Encoded(L, Tail(expected'))
    BY <2>2, <2>4, EncodedAppend
  <2> HIDE DEF L
  <2>6. Within(rest, L)'
    BY <1>1, <2>2, <2>3, <2>4, <2>5 DEF Within
  <2>7. QED
    BY <1>1, <2>2, <2>4, <2>6 DEF Reading
<1>5. QED
  BY <1>3, <1>4

\* What a step of the reader returns while the line is undisturbed.
Exactly == received' # received /\ ~disturbed =>
               expected # <<>> /\ received' = Append(received, Head(expected))

\* A byte that is read keeps the invariant, and returns the message whose turn it is.
LEMMA ReadByteStep ==
    ASSUME PayloadsFit, TypeOK, LineInv, ReadByte
    PROVE  LineInv' /\ Exactly
<1>1. /\ at # "ended" /\ line # <<>> /\ line' = Tail(line) /\ escaped' = FALSE
      /\ disturbed' => disturbed
      /\ escaped => Head(line) \in DOMAIN Unescape /\ Got(Unescape[Head(line)])
      /\ ~escaped => Head(line) # ESCAPE /\ Got(Head(line))
  BY DEF ReadByte
<1>2. PICK b : Got(b)
  BY <1>1
<1>3. /\ at' = "start" => frame' = <<>> /\ calculatedCrc' = 0
      /\ expected = <<>> => expected' = <<>>
  BY <1>2 DEF Got, LineInv
<1>4. CASE disturbed
  <2>1. expected' = <<>>
    BY <1>3, <1>4 DEF LineInv
  <2>2. ASSUME ~disturbed' PROVE Hunting'
    <3>1. at' = "start" /\ ~escaped' /\ line' = <<>>
      BY <1>4, <2>2 DEF ReadByte, InSync
    <3>2. Encoded(line', expected')
      BY <2>1, <3>1, NothingEncoded
    <3>3. QED
      BY <3>1, <3>2 DEF Hunting
  <2>3. QED
    BY <1>3, <1>4, <2>1, <2>2 DEF LineInv, Exactly
<1>5. CASE ~disturbed /\ Hunting
  <2>1. at = "start" /\ ~escaped /\ frame = <<>> /\ calculatedCrc = 0
    BY <1>5 DEF LineInv, Hunting
  <2>2. PICK later \in Seq(Byte) :
            /\ Tail(line) = escape(Data(Head(expected))) \o later
            /\ Encoded(later, Tail(expected))
    BY <1>1, <1>5, HuntingFirst
  <2>3. /\ expected # <<>> /\ Head(expected) \in Messages /\ Head(line) = START
    BY <1>1, <1>5, HuntingFirst
  <2>4. /\ at' = "frame" /\ frame' = <<>> /\ calculatedCrc' = 0 /\ expected' = expected
        /\ received' = received
    BY <1>1, <2>1, <2>3 DEF Got
  <2> DEFINE d == Data(Head(expected))
             n == Len(Body(Head(expected)))
  <2>5. d \in Seq(Byte) /\ d # <<>> /\ <<>> \o d = d
    <3>1. /\ d \in Seq(Byte) /\ Len(d) = Len(Head(expected).payload) + 5
          /\ Len(Head(expected).payload) \in Nat
      BY <2>3, DataFacts, BodyFacts, Uint16Facts
    <3>2. d # <<>>
      BY <3>1
    <3>3. QED
      BY <3>1, <3>2, ConcatEmptySeq
  <2>6. CrcSoFar(<<>>, 0, Head(expected))
    <3>1. n \in Nat /\ n > 0 /\ Len(<<>>) = 0
      BY <2>3, BodyFacts, Uint16Facts
    <3>2. QED
      BY <3>1, CrcOfNothing DEF CrcSoFar
  <2>7. line' = Ahead(FALSE, d) \o later
    BY <1>1, <2>2 DEF Ahead
  <2> HIDE DEF d
  <2>8. Within(d, later)'
    BY <1>1, <2>2, <2>4, <2>5, <2>6, <2>7 DEF Within, d
  <2>9. Reading'
    BY <2>3, <2>4, <2>8 DEF Reading
  <2>10. QED
    BY <1>1, <1>5, <2>4, <2>9 DEF LineInv, Exactly
<1>6. CASE ~disturbed /\ Reading
  <2>1. PICK rest, later : Within(rest, later)
    BY <1>6 DEF Reading
  <2>2. /\ rest \in Seq(Byte) /\ later \in Seq(Byte) /\ rest # <<>>
        /\ Got(Head(rest)) /\ line' = escape(Tail(rest)) \o later
    <3>1. CASE escaped
      BY <1>1, <2>1, <3>1, ReadingNext
    <3>2. CASE ~escaped
      BY <1>1, <2>1, <3>2, ReadingNext
    <3>3. QED
      BY <3>1, <3>2
  <2>3. /\ at = "frame" /\ expected # <<>>
        /\ frame \o rest = Data(Head(expected))
        /\ Encoded(later, Tail(expected))
        /\ CrcSoFar(frame, calculatedCrc, Head(expected))
    BY <1>6, <2>1 DEF Reading, Within
  <2>4. /\ Hunting' \/ Reading'
        /\ received' # received => received' = Append(received, Head(expected))
    BY <1>1, <2>2, <2>3, GotNext
  <2>5. QED
    BY <1>1, <1>3, <1>6, <2>3, <2>4 DEF LineInv, Exactly
<1>7. QED
  BY <1>4, <1>5, <1>6 DEF LineInv

\* So does every step.
LEMMA LineStep ==
    ASSUME PayloadsFit, TypeOK, LineInv, [Next]_vars
    PROVE  LineInv' /\ Exactly
<1>1. ASSUME NEW m \in Messages, SendMessage(m) PROVE LineInv' /\ Exactly
  <2>1. /\ at' = at /\ frame' = frame /\ calculatedCrc' = calculatedCrc
        /\ disturbed' = disturbed /\ received' = received
        /\ disturbed => expected' = expected
    BY <1>1 DEF SendMessage, readerVars
  <2>2. ~disturbed => Hunting' \/ Reading'
    BY <1>1, SendBehind DEF LineInv
  <2>3. QED
    BY <2>1, <2>2 DEF LineInv, Exactly
<1>2. CASE Noise
  BY <1>2 DEF Noise, readerVars, LineInv, Exactly
<1>3. CASE ReadEscape
  <2>1. /\ at' = at /\ frame' = frame /\ calculatedCrc' = calculatedCrc
        /\ disturbed' = disturbed /\ received' = received /\ expected' = expected
        /\ ~escaped /\ escaped' = TRUE
        /\ line # <<>> /\ Head(line) = ESCAPE /\ line' = Tail(line)
    BY <1>3 DEF ReadEscape, ghostVars
  <2>2. ASSUME ~disturbed PROVE Reading'
    <3>1. ~Hunting
      BY <2>1, HuntingFirst
    <3>2. PICK rest, later : Within(rest, later)
      BY <2>2, <3>1 DEF LineInv, Reading
    <3>3. Head(rest) \in {START, ESCAPE} /\ line' = Ahead(TRUE, rest) \o later
      BY <2>1, <3>2, ReadingNext
    <3>4. Within(rest, later)'
      BY <2>1, <3>2, <3>3 DEF Within
    <3>5. QED
      BY <2>1, <2>2, <3>1, <3>4 DEF LineInv, Reading
  <2>3. QED
    BY <2>1, <2>2 DEF LineInv, Exactly
<1>4. CASE ReadByte
  BY <1>4, ReadByteStep
<1>5. CASE InvalidEscape
  <2>1. /\ at' = "ended" /\ disturbed' = disturbed /\ received' = received /\ expected' = expected
        /\ escaped /\ Head(line) \notin DOMAIN Unescape
    BY <1>5 DEF InvalidEscape, ghostVars
  <2>2. disturbed
    <3>1. ~Hunting
      BY <2>1 DEF Hunting
    <3>2. ~Reading
      BY <2>1, ReadingNext DEF Reading
    <3>3. QED
      BY <3>1, <3>2 DEF LineInv
  <2>3. QED
    BY <2>1, <2>2 DEF LineInv, Exactly
<1>6. CASE ReadTimeout
  <2>1. /\ line = <<>> /\ line' = <<>> /\ escaped' = FALSE /\ frame' = <<>> /\ calculatedCrc' = 0
        /\ received' = received /\ expected' = expected /\ (disturbed' => disturbed)
        /\ at' = IF escaped THEN "ended" ELSE "start"
    BY <1>6 DEF ReadTimeout
  <2>2. ASSUME ~disturbed' PROVE Hunting'
    <3>1. CASE disturbed
      <4>1. at' = "start" /\ expected' = <<>>
        BY <1>6, <2>1, <2>2, <3>1 DEF ReadTimeout, InSync, LineInv
      <4>2. Encoded(line', expected')
        BY <2>1, <4>1, NothingEncoded
      <4>3. QED
        BY <2>1, <4>1, <4>2 DEF Hunting
    <3>2. CASE ~disturbed
      <4>1. ~Reading
        BY <2>1, ReadingNext DEF Reading
      <4>2. Hunting
        BY <3>2, <4>1 DEF LineInv
      <4>3. QED
        BY <2>1, <4>2 DEF Hunting
    <3>3. QED
      BY <3>1, <3>2
  <2>3. QED
    BY <2>1, <2>2 DEF LineInv, Exactly
<1>7. CASE UNCHANGED vars
  <2>1. (Hunting <=> Hunting') /\ (Reading <=> Reading')
    BY <1>7 DEF vars, readerVars, ghostVars, Hunting, Reading, Within
  <2>2. QED
    BY <1>7, <2>1 DEF vars, readerVars, ghostVars, LineInv, Exactly
<1>8. QED
  BY <1>1, <1>2, <1>3, <1>4, <1>5, <1>6, <1>7 DEF Next, Receive

\* The invariant of the reader and the line holds in every reachable state.
THEOREM LineInvariant == ASSUME PayloadsFit PROVE Spec => []LineInv
<1>1. Init => LineInv
  BY NothingEncoded DEF Init, LineInv, Hunting
<1>2. TypeOK /\ LineInv /\ [Next]_vars => LineInv'
  BY LineStep
<1>3. QED
  BY <1>1, <1>2, SerialTypeCorrect, PTL DEF Spec

-------------------------------------------------------------------------------
(* What follows from it *)

\* Whatever bytes the payloads have, START and ESCAPE among them, and however the
\* noise falls: when the line is empty and the reader hunts for START, no message is
\* owed that was sent on an undisturbed line; and the reader ends only after noise.
THEOREM NothingIsLost == ASSUME PayloadsFit PROVE Spec => []NothingLost
<1>1. TypeOK /\ LineInv => NothingLost
  <2> SUFFICES ASSUME TypeOK, LineInv PROVE NothingLost
    OBVIOUS
  <2>1. at = "ended" => disturbed
    BY DEF LineInv, Hunting, Reading
  <2>2. ASSUME InSync PROVE expected = <<>>
    <3>1. CASE disturbed
      BY <3>1 DEF LineInv
    <3>2. CASE ~disturbed
      <4>1. Encoded(<<>>, expected) /\ expected \in Seq(Messages)
        BY <2>2, <3>2 DEF LineInv, InSync, Hunting, Reading, TypeOK
      <4>2. QED
        BY <4>1, EncodedEmpty
    <3>3. QED
      BY <3>1, <3>2
  <2>3. QED
    BY <2>1, <2>2 DEF NothingLost
<1>2. QED
  BY <1>1, LineInvariant, SerialTypeCorrect, PTL

\* On an undisturbed line ReceiveMessage returns the messages that were sent, in
\* their order, each with its type and its payload byte for byte, and nothing else,
\* also after noise once the reader has met an empty line.
THEOREM ReceivedExactly == ASSUME PayloadsFit PROVE Spec => ReceivedAsSent
<1>1. TypeOK /\ LineInv /\ [Next]_vars => [Exactly]_vars
  BY LineStep
<1>2. Exactly => (received' # received /\ ~disturbed =>
           expected # <<>> /\ received' = Append(received, Head(expected)))
  BY DEF Exactly
<1>3. QED
  BY <1>1, <1>2, LineInvariant, SerialTypeCorrect, PTL DEF Spec, ReceivedAsSent

\* Without noise, what was sent is what was received and what is expected.
Quiet == noise = 0 => ~disturbed /\ sent = received \o expected

\* Every step keeps it.
LEMMA QuietStep ==
    ASSUME TypeOK, TypeOK', Quiet, Exactly, [Next]_vars
    PROVE  Quiet'
<1> DEFINE R == [type : Byte, payload : Seq(Byte)]
<1>1. /\ sent \in Seq(Messages) /\ expected \in Seq(Messages) /\ received \in Seq(R)
      /\ noise \in Nat /\ Messages \subseteq R
  BY SerialAssumption DEF TypeOK, SerialAssumption
<1> HIDE DEF R
<1>2. expected \in Seq(R)
  BY <1>1, SeqMonotonic
<1>3. ASSUME NEW m \in Messages, SendMessage(m) PROVE Quiet'
  <2>1. /\ sent' = Append(sent, m) /\ received' = received
        /\ noise' = noise /\ disturbed' = disturbed
        /\ ~disturbed => expected' = Append(expected, m)
    BY <1>3 DEF SendMessage
  <2>2. Append(received \o expected, m) = received \o Append(expected, m)
    <3>1. <<m>> \in Seq(R) /\ m \in R
      BY <1>1
    <3>2. received \o expected \in Seq(R)
      BY <1>1, <1>2, ConcatProperties
    <3>3. Append(received \o expected, m) = (received \o expected) \o <<m>>
      BY <3>1, <3>2, AppendIsConcat
    <3>4. Append(expected, m) = expected \o <<m>>
      BY <1>2, <3>1, AppendIsConcat
    <3>5. (received \o expected) \o <<m>> = received \o (expected \o <<m>>)
      BY <1>1, <1>2, <3>1, ConcatAssociative
    <3>6. QED
      BY <3>3, <3>4, <3>5
  <2>3. QED
    BY <2>1, <2>2 DEF Quiet
<1>4. CASE Noise
  <2>1. noise' = noise + 1
    BY <1>4 DEF Noise
  <2>2. QED
    BY <1>1, <2>1 DEF Quiet
<1>5. CASE ReadByte
  <2>1. /\ sent' = sent /\ noise' = noise /\ (disturbed' => disturbed)
        /\ \E b : Got(b)
    BY <1>5 DEF ReadByte
  <2>2. \/ UNCHANGED <<received, expected>>
        \/ \E r : received' = Append(received, r)
                  /\ expected' = IF expected = <<>> THEN <<>> ELSE Tail(expected)
    BY <2>1 DEF Got
  <2>3. CASE UNCHANGED <<received, expected>>
    BY <2>1, <2>3 DEF Quiet
  <2>4. ASSUME NEW r, received' = Append(received, r), noise = 0,
               expected' = IF expected = <<>> THEN <<>> ELSE Tail(expected)
        PROVE  ~disturbed' /\ sent' = received' \o expected'
    <3>1. ~disturbed /\ sent = received \o expected
      BY <2>4 DEF Quiet
    <3>2. received' # received
      <4>1. Len(Append(received, r)) = Len(received) + 1 /\ Len(received) \in Nat
        BY <1>1
      <4>2. QED
        BY <2>4, <4>1
    <3>3. expected # <<>> /\ received' = Append(received, Head(expected))
      BY <3>1, <3>2 DEF Exactly
    <3> DEFINE h == Head(expected)
               t == Tail(expected)
    <3>4. h \in R /\ t \in Seq(R) /\ expected = <<h>> \o t /\ <<h>> \in Seq(R)
      BY <1>2, <3>3
    <3>5. received' = received \o <<h>> /\ expected' = t
      BY <1>1, <2>4, <3>3, <3>4, AppendIsConcat
    <3> HIDE DEF h, t
    <3>6. (received \o <<h>>) \o t = received \o (<<h>> \o t)
      BY <1>1, <3>4, ConcatAssociative
    <3>7. QED
      BY <2>1, <3>1, <3>4, <3>5, <3>6
  <2>5. QED
    BY <2>1, <2>2, <2>3, <2>4 DEF Quiet
<1>6. CASE ReadEscape \/ InvalidEscape
  BY <1>6 DEF ReadEscape, InvalidEscape, ghostVars, Quiet
<1>7. CASE ReadTimeout
  BY <1>7 DEF ReadTimeout, Quiet
<1>8. CASE UNCHANGED vars
  BY <1>8 DEF vars, ghostVars, Quiet
<1>9. QED
  BY <1>3, <1>4, <1>5, <1>6, <1>7, <1>8 DEF Next, Receive

\* Until the first byte is lost or changed, what has been received is a prefix of
\* what has been sent.  Under noise a checksum of sixteen bits cannot exclude an
\* invented message for every payload; the run checks it for its own.
THEOREM NothingInventedInQuiet ==
    ASSUME PayloadsFit
    PROVE  Spec => [](noise = 0 => NothingInvented /\ sent = received \o expected)
<1>1. Init => Quiet
  <2>1. <<>> \in Seq(Messages) /\ <<>> = <<>> \o <<>>
    OBVIOUS
  <2>2. QED
    BY <2>1 DEF Init, Quiet
<1>2. TypeOK /\ TypeOK' /\ LineInv /\ Quiet /\ [Next]_vars => Quiet'
  BY LineStep, QuietStep
<1>3. TypeOK /\ Quiet => (noise = 0 => NothingInvented /\ sent = received \o expected)
  <2> SUFFICES ASSUME TypeOK, Quiet, noise = 0 PROVE NothingInvented /\ sent = received \o expected
    OBVIOUS
  <2>1. sent = received \o expected
    BY DEF Quiet
  <2> DEFINE R == [type : Byte, payload : Seq(Byte)]
             n == Len(received)
  <2>2. received \in Seq(R) /\ expected \in Seq(R) /\ Len(expected) \in Nat /\ n \in Nat
    <3>1. Messages \subseteq R /\ expected \in Seq(Messages) /\ received \in Seq(R)
      BY SerialAssumption DEF TypeOK, SerialAssumption
    <3> HIDE DEF R
    <3>2. expected \in Seq(R)
      BY <3>1, SeqMonotonic
    <3>3. QED
      BY <3>1, <3>2
  <2> HIDE DEF R
  <2>3. /\ DOMAIN received = 1 .. n /\ DOMAIN sent = 1 .. n + Len(expected)
        /\ \A i \in 1 .. n : sent[i] = received[i]
    <3>1. /\ received \o expected \in Seq(R) /\ Len(received \o expected) = n + Len(expected)
          /\ \A i \in 1 .. n : (received \o expected)[i] = received[i]
      BY <2>2, ConcatProperties
    <3>2. QED
      BY <2>1, <2>2, <3>1
  <2> HIDE DEF n
  <2> DEFINE nth == [i \in 1 .. n |-> i]
  <2>4. nth \in [DOMAIN received -> DOMAIN sent]
    BY <2>2, <2>3
  <2>5. \A i, j \in DOMAIN received : received[i] = sent[nth[i]] /\ (i < j => nth[i] < nth[j])
    BY <2>3
  <2>6. NothingInvented
    BY <2>4, <2>5 DEF NothingInvented
  <2>7. QED
    BY <2>1, <2>6
<1>4. QED
  BY <1>1, <1>2, <1>3, LineInvariant, SerialTypeCorrect, PTL DEF Spec

=================================================================================
