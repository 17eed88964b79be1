--------------------------- MODULE SocketsProofs ---------------------------
(***************************************************************************)
(* Theorems about Sockets, for octets of any size, fd_sets of any length,  *)
(* any sockets, addresses and ports, and on both platforms: every address  *)
(* that a call returns is the one it tells of, and select keeps the        *)
(* sockets that are ready.  They rest on the round trips of util.ts and of *)
(* socketset.ts.                                                           *)
(***************************************************************************)
EXTENDS Sockets, FiniteSetTheorems, WellFoundedInduction, TLAPS

\* Only one quotient and remainder recompose a number.
LEMMA DivideUnique ==
    ASSUME NEW d \in Nat \ {0}, NEW q \in Nat, NEW r \in 0..(d - 1)
    PROVE  /\ r + d * q \in Nat
           /\ (r + d * q) % d = r
           /\ (r + d * q) \div d = q
  BY SMT

\* util.ts 11-27: ipFromLong undoes ipToLong.
THEOREM IpRoundTrip ==
    ASSUME NEW ip \in IP
    PROVE  /\ ipToLong(ip) \in Nat
           /\ ipFromLong(ipToLong(ip)) = ip
  <1> USE AddressesAssumption
  <1> DEFINE third == ip[3] + Base * ip[4]
             second == ip[2] + Base * third
             first == ip[1] + Base * second
  <1>1. Base \in Nat \ {0}
    OBVIOUS
  <1>2. /\ ip[1] \in 0..(Base - 1) /\ ip[2] \in 0..(Base - 1)
        /\ ip[3] \in 0..(Base - 1) /\ ip[4] \in 0..(Base - 1)
        /\ DOMAIN ip = 1..4
        /\ ip = [i \in 1..4 |-> ip[i]]
    BY DEF IP, Octet, IPV4_OCTETS
  <1>3. ip[4] \in Nat /\ ip[4] % Base = ip[4]
    BY <1>1, <1>2, SMT
  <1>4. third \in Nat /\ third % Base = ip[3] /\ third \div Base = ip[4]
    BY <1>1, <1>2, <1>3, DivideUnique
  <1> HIDE DEF third
  <1>5. second \in Nat /\ second % Base = ip[2] /\ second \div Base = third
    BY <1>1, <1>2, <1>4, DivideUnique
  <1> HIDE DEF second
  <1>6. first \in Nat /\ first % Base = ip[1] /\ first \div Base = second
    BY <1>1, <1>2, <1>5, DivideUnique
  <1>7. ipToLong(ip) = first
    BY DEF ipToLong, first, second, third
  <1> HIDE DEF first
  <1>8. ipFromLong(first) = [i \in 1..4 |-> CASE i = 1 -> ip[1] [] i = 2 -> ip[2]
                                              [] i = 3 -> ip[3] [] i = 4 -> ip[4]]
    BY <1>3, <1>4, <1>5, <1>6 DEF ipFromLong, IPV4_OCTETS
  <1>9. \A i \in 1..4 : i = 1 \/ i = 2 \/ i = 3 \/ i = 4
    OBVIOUS
  <1>10. ipFromLong(first) = [i \in 1..4 |-> ip[i]]
    BY <1>8, <1>9
  <1> QED BY <1>2, <1>6, <1>7, <1>10

-----------------------------------------------------------------------------
(* Induction and recursion on 0..n.  The induction is over a set, the      *)
(* recursion by a function g of the index and of the value before.         *)

LEMMA Induction ==
    ASSUME NEW n \in Nat, NEW S, 0 \in S, \A i \in 1..n : i - 1 \in S => i \in S
    PROVE  0..n \subseteq S
  <1> DEFINE T == (0..n) \ S
  <1> SUFFICES ASSUME T # {} PROVE FALSE
    OBVIOUS
  <1>0. T \subseteq Nat
    OBVIOUS
  <1>1. PICK x \in T : \A y \in T : ~ (<<y, x>> \in OpToRel(<, Nat))
    BY <1>0, WFMin, NatLessThanWellFounded
  <1>2. \A y \in T : ~ (y < x)
    BY <1>0, <1>1 DEF OpToRel
  <1>3. x \in 1..n /\ x - 1 \in 0..n /\ x - 1 < x
    OBVIOUS
  <1>4. x - 1 \in S
    BY <1>2, <1>3
  <1> QED BY <1>3, <1>4

\* There is a function on 0..n that starts with a and goes on by g.
Recursive(n, V, a, g) ==
    \E f \in [0..n -> V] : f[0] = a /\ \A i \in 1..n : f[i] = g[<<i, f[i - 1]>>]

LEMMA Recursion ==
    ASSUME NEW n \in Nat, NEW V, NEW a \in V, NEW g \in [(1..n) \X V -> V]
    PROVE  Recursive(n, V, a, g)
  <1> DEFINE Upto(m) == \E f \in [0..m -> V] :
                            /\ f[0] = a
                            /\ \A i \in 1..m : f[i] = g[<<i, f[i - 1]>>]
             M == {m \in 0..n : Upto(m)}
  <1>1. 0 \in M
    <2> DEFINE f == [i \in 0..0 |-> a]
    <2>1. f \in [0..0 -> V] /\ f[0] = a /\ \A i \in 1..0 : f[i] = g[<<i, f[i - 1]>>]
      OBVIOUS
    <2> HIDE DEF f
    <2> QED BY <2>1
  <1>2. ASSUME NEW m \in 1..n, m - 1 \in M PROVE m \in M
    <2>1. PICK f \in [0..(m - 1) -> V] :
              /\ f[0] = a
              /\ \A i \in 1..(m - 1) : f[i] = g[<<i, f[i - 1]>>]
      BY <1>2
    <2> DEFINE h == [i \in 0..m |-> IF i = m THEN g[<<m, f[m - 1]>>] ELSE f[i]]
    <2>2. g[<<m, f[m - 1]>>] \in V
      BY <2>1
    <2>3. h \in [0..m -> V]
      BY <2>2
    <2>4. h[0] = a
      BY <2>1
    <2>5. ASSUME NEW i \in 1..m PROVE h[i] = g[<<i, h[i - 1]>>]
      <3>1. h[i - 1] = f[i - 1]
        OBVIOUS
      <3>2. h[i] = IF i = m THEN g[<<m, f[m - 1]>>] ELSE f[i]
        OBVIOUS
      <3>3. i # m => i \in 1..(m - 1)
        OBVIOUS
      <3> HIDE DEF h
      <3> QED BY <2>1, <3>1, <3>2, <3>3
    <2> HIDE DEF h
    <2>6. Upto(m)
      BY <2>3, <2>4, <2>5, Zenon
    <2>7. m \in 0..n
      OBVIOUS
    <2> HIDE DEF Upto
    <2> QED BY <2>6, <2>7
  <1> HIDE DEF M
  <1>3. n \in M
    BY <1>1, <1>2, Induction
  <1> QED BY <1>3 DEF M, Recursive

-----------------------------------------------------------------------------
(* Powers of two, and sums of different ones.                              *)

\* The powers of two up to an exponent.
Powers(n, power) == power[0] = 1 /\ \A i \in 1..n : power[i] = 2 * power[i - 1]

LEMMA PowersAgree ==
    ASSUME NEW n \in Nat, NEW m \in Nat, NEW power, NEW other,
           Powers(n, power), Powers(m, other), n <= m
    PROVE  power[n] = other[n]
  <1> DEFINE S == {i \in 0..n : power[i] = other[i]}
  <1>1. 0 \in S
    BY DEF Powers
  <1>2. ASSUME NEW i \in 1..n, i - 1 \in S PROVE i \in S
    BY <1>2 DEF Powers
  <1> HIDE DEF S
  <1>3. 0..n \subseteq S
    BY <1>1, <1>2, Induction
  <1> QED BY <1>3 DEF S

LEMMA PowerOf ==
    ASSUME NEW n \in Nat
    PROVE  \E power : Powers(n, power) /\ Power(n) = power[n]
  <1> DEFINE g == [x \in (1..n) \X Nat |-> 2 * x[2]]
             Body(h) == [i \in 0..n |-> IF i = 0 THEN 1 ELSE 2 * h[i - 1]]
             p == CHOOSE h : h = Body(h)
  <1>1. g \in [(1..n) \X Nat -> Nat]
    OBVIOUS
  <1>2. \A i \in 1..n, m \in Nat : g[<<i, m>>] = 2 * m
    OBVIOUS
  <1> HIDE DEF g
  <1>3. PICK f \in [0..n -> Nat] : f[0] = 1 /\ \A i \in 1..n : f[i] = g[<<i, f[i - 1]>>]
    <2>1. Recursive(n, Nat, 1, g)
      BY <1>1, Recursion
    <2> QED BY <2>1 DEF Recursive
  <1>4. f = Body(f)
    <2>1. \A i \in 0..n : i = 0 \/ (i \in 1..n /\ i - 1 \in 0..n /\ i # 0)
      OBVIOUS
    <2>2. ASSUME NEW i \in 1..n
          PROVE  f[i] = 2 * f[i - 1]
      <3>1. f[i - 1] \in Nat
        BY <1>3
      <3> QED BY <1>2, <1>3, <3>1
    <2>3. \A i \in 0..n : f[i] = IF i = 0 THEN 1 ELSE 2 * f[i - 1]
      BY <1>3, <2>1, <2>2
    <2> QED BY <1>3, <2>3
  <1>5. p = Body(p)
    BY <1>4
  <1>6. Power(n) = p[n]
    BY DEF Power
  <1> HIDE DEF p
  <1>7. Powers(n, p)
    <2>1. 0 \in 0..n /\ \A i \in 1..n : i \in 0..n /\ i # 0
      OBVIOUS
    <2>2. \A i \in 0..n : p[i] = IF i = 0 THEN 1 ELSE 2 * p[i - 1]
      BY <1>5
    <2> QED BY <2>1, <2>2 DEF Powers
  <1> QED BY <1>6, <1>7

LEMMA PowerSteps ==
    /\ Power(0) = 1
    /\ \A n \in Nat : Power(n + 1) = 2 * Power(n)
    /\ \A n \in Nat : Power(n) \in Nat /\ Power(n) >= 1
  <1>1. Power(0) = 1
    <2>1. PICK power : Powers(0, power) /\ Power(0) = power[0]
      BY PowerOf
    <2> QED BY <2>1 DEF Powers
  <1>2. ASSUME NEW n \in Nat PROVE Power(n + 1) = 2 * Power(n)
    <2>1. PICK power : Powers(n, power) /\ Power(n) = power[n]
      BY PowerOf
    <2>2. n + 1 \in Nat
      OBVIOUS
    <2>3. PICK other : Powers(n + 1, other) /\ Power(n + 1) = other[n + 1]
      BY <2>2, PowerOf
    <2>4. power[n] = other[n]
      BY <2>1, <2>2, <2>3, PowersAgree
    <2>5. n + 1 \in 1..(n + 1) /\ (n + 1) - 1 = n
      OBVIOUS
    <2>6. other[n + 1] = 2 * other[n]
      BY <2>3, <2>5 DEF Powers
    <2> QED BY <2>1, <2>3, <2>4, <2>6
  <1>3. ASSUME NEW n \in Nat PROVE Power(n) \in Nat /\ Power(n) >= 1
    <2> DEFINE S == {i \in 0..n : Power(i) \in Nat /\ Power(i) >= 1}
    <2>1. 0 \in S
      BY <1>1
    <2>2. ASSUME NEW i \in 1..n, i - 1 \in S PROVE i \in S
      <3>1. i - 1 \in Nat /\ (i - 1) + 1 = i
        OBVIOUS
      <3>2. Power(i) = 2 * Power(i - 1)
        BY <1>2, <3>1
      <3> QED BY <2>2, <3>2
    <2> HIDE DEF S
    <2>3. 0..n \subseteq S
      BY <2>1, <2>2, Induction
    <2> QED BY <2>3 DEF S
  <1> QED BY <1>1, <1>2, <1>3

LEMMA PowerSum ==
    ASSUME NEW i \in Nat, NEW k \in Nat
    PROVE  Power(i + k) = Power(i) * Power(k)
  <1> DEFINE S == {j \in 0..k : Power(i + j) = Power(i) * Power(j)}
  <1>1. 0 \in S
    <2>1. i + 0 = i /\ Power(i) * 1 = Power(i)
      BY PowerSteps
    <2> QED BY <2>1, PowerSteps
  <1>2. ASSUME NEW j \in 1..k, j - 1 \in S PROVE j \in S
    <2>1. /\ j - 1 \in Nat /\ (j - 1) + 1 = j
          /\ i + (j - 1) \in Nat /\ (i + (j - 1)) + 1 = i + j
      OBVIOUS
    <2>2. Power(j) = 2 * Power(j - 1) /\ Power(i + j) = 2 * Power(i + (j - 1))
      BY <2>1, PowerSteps
    <2>3. Power(i) \in Nat /\ Power(j - 1) \in Nat
      BY <2>1, PowerSteps
    <2>4. Power(i + (j - 1)) = Power(i) * Power(j - 1)
      BY <1>2
    <2>5. 2 * (Power(i) * Power(j - 1)) = Power(i) * (2 * Power(j - 1))
      BY <2>3
    <2> QED BY <2>2, <2>4, <2>5
  <1> HIDE DEF S
  <1>3. 0..k \subseteq S
    BY <1>1, <1>2, Induction
  <1> QED BY <1>3 DEF S

LEMMA PowerGrows ==
    ASSUME NEW i \in Nat, NEW j \in Nat, j - i \in Nat
    PROVE  Power(i) <= Power(j)
  <1> DEFINE k == j - i
             x == Power(i)
             y == Power(k)
  <1>1. i + k = j
    OBVIOUS
  <1>2. k \in Nat /\ x \in Nat /\ y \in Nat /\ y >= 1
    BY PowerSteps
  <1> HIDE DEF k
  <1>3. Power(j) = x * y
    BY <1>1, <1>2, PowerSum
  <1> HIDE DEF x, y
  <1>4. x * y >= x
    BY <1>2, SMT
  <1> QED BY <1>2, <1>3, <1>4 DEF x

Bits == Bytes * BitsPerByte

\* The sums of the bits of a set of sockets.
Sums(sum, bit, T) ==
    /\ sum[0] = 0
    /\ \A i \in 0..Bits : sum[i] \in Nat
    /\ \A i \in 1..Bits : sum[i] = sum[i - 1] + IF i - 1 \in T THEN bit[i - 1] ELSE 0

LEMMA AddedOf ==
    ASSUME NEW bit, NEW T, \A socket \in PosixSocket : bit[socket] \in Nat
    PROVE  \E sum : Added(bit, T) = sum[Bits] /\ Sums(sum, bit, T)
  <1> DEFINE n == Bytes * BitsPerByte
             Bit(i) == IF i - 1 \in T THEN bit[i - 1] ELSE 0
             g == [x \in (1..n) \X Nat |-> x[2] + Bit(x[1])]
             Body(h) == [i \in 0..n |-> IF i = 0 THEN 0 ELSE h[i - 1] + Bit(i)]
             s == CHOOSE h : h = Body(h)
  <1>0. n \in Nat
    BY SocketSetAssumption
  <1>1. \A i \in 1..n : Bit(i) \in Nat
    BY <1>0 DEF PosixSocket
  <1>2. Added(bit, T) = s[n]
    BY DEF Added
  <1> HIDE DEF n, Bit
  <1>3. g \in [(1..n) \X Nat -> Nat]
    BY <1>1
  <1>4. \A i \in 1..n, m \in Nat : g[<<i, m>>] = m + Bit(i)
    OBVIOUS
  <1> HIDE DEF g
  <1>5. PICK f \in [0..n -> Nat] : f[0] = 0 /\ \A i \in 1..n : f[i] = g[<<i, f[i - 1]>>]
    <2>1. Recursive(n, Nat, 0, g)
      BY <1>0, <1>3, Recursion
    <2> QED BY <2>1 DEF Recursive
  <1>6. f = Body(f)
    <2>1. \A i \in 0..n : i = 0 \/ (i \in 1..n /\ i - 1 \in 0..n /\ i # 0)
      BY <1>0
    <2>2. \A i \in 0..n : f[i] = IF i = 0 THEN 0 ELSE f[i - 1] + Bit(i)
      BY <1>4, <1>5, <2>1
    <2> QED BY <1>5, <2>2
  <1>7. s = Body(s)
    BY <1>6
  <1> HIDE DEF s
  <1>8. s[0] = 0 /\ \A i \in 1..n : s[i] = s[i - 1] + Bit(i)
    <2>1. 0 \in 0..n /\ \A i \in 1..n : i \in 0..n /\ i # 0
      BY <1>0
    <2>2. \A i \in 0..n : s[i] = IF i = 0 THEN 0 ELSE s[i - 1] + Bit(i)
      BY <1>7
    <2> QED BY <2>1, <2>2
  <1>9. \A i \in 0..n : s[i] \in Nat
    <2> DEFINE S == {i \in 0..n : s[i] \in Nat}
    <2>1. 0 \in S
      BY <1>0, <1>8
    <2>2. ASSUME NEW i \in 1..n, i - 1 \in S PROVE i \in S
      BY <1>0, <1>1, <1>8, <2>2
    <2> HIDE DEF S
    <2>3. 0..n \subseteq S
      BY <1>0, <2>1, <2>2, Induction
    <2> QED BY <2>3 DEF S
  <1> QED BY <1>2, <1>8, <1>9 DEF n, Bit, Bits, Sums

-----------------------------------------------------------------------------
(* Bits.  Sockets that share a byte add up to a number whose bits are      *)
(* theirs.                                                                 *)

LEMMA Divide ==
    ASSUME NEW d \in Nat \ {0}, NEW n \in Nat
    PROVE  /\ n % d \in 0..(d - 1)
           /\ n \div d \in Nat
           /\ n = d * (n \div d) + (n % d)
  BY SMT

\* The bits of the sockets of one byte.
InByte(T, b) == \A t \in T : t \in PosixSocket /\ t \div BitsPerByte = b

SocketBits == [socket \in PosixSocket |-> bitOf(socket)]

LEMMA BitInByte ==
    ASSUME NEW t \in PosixSocket
    PROVE  LET low == BitsPerByte * (t \div BitsPerByte)
           IN  /\ t \in Nat /\ t - low \in 0..(BitsPerByte - 1)
               /\ SocketBits[t] = Power(t - low) /\ bitOf(t) = Power(t - low)
               /\ SocketBits[t] \in Nat
  <1> DEFINE low == BitsPerByte * (t \div BitsPerByte)
  <1>1. t \in Nat /\ BitsPerByte \in Nat \ {0}
    BY SocketSetAssumption DEF PosixSocket
  <1>2. /\ low \in Nat
        /\ t % BitsPerByte \in 0..(BitsPerByte - 1) /\ t = low + (t % BitsPerByte)
    <2>1. /\ t \div BitsPerByte \in Nat /\ t % BitsPerByte \in 0..(BitsPerByte - 1)
          /\ t = low + (t % BitsPerByte)
      BY <1>1, Divide
    <2>2. low \in Nat
      BY <1>1, <2>1
    <2> QED BY <2>1, <2>2
  <1> HIDE DEF low
  <1>3. t - low = t % BitsPerByte /\ t % BitsPerByte \in Nat
    BY <1>1, <1>2
  <1>4. SocketBits[t] = bitOf(t) /\ bitOf(t) = Power(t - low)
    BY <1>3 DEF bitOf, SocketBits
  <1> QED BY <1>1, <1>2, <1>3, <1>4, PowerSteps DEF low

\* Up to a socket, the sum is less than the next bit of the byte.
LEMMA SumsBelow ==
    ASSUME NEW b \in Nat, NEW T, InByte(T, b),
           NEW sum, Sums(sum, SocketBits, T), NEW last \in 0..Bits
    PROVE  LET low == BitsPerByte * b
               Top(i) == IF i <= low THEN 0
                         ELSE IF i - low <= BitsPerByte THEN i - low ELSE BitsPerByte
           IN  sum[last] < Power(Top(last))
  <1> DEFINE low == BitsPerByte * b
             Top(i) == IF i <= low THEN 0
                       ELSE IF i - low <= BitsPerByte THEN i - low ELSE BitsPerByte
             S == {i \in 0..last : sum[i] < Power(Top(i))}
  <1>0. /\ BitsPerByte \in Nat \ {0} /\ Bits \in Nat /\ low \in Nat
        /\ last \in Nat
    BY SocketSetAssumption DEF Bits
  <1> HIDE DEF low
  <1>1. 0 \in S
    <2>1. Top(0) = 0 /\ 0 \in 0..last
      BY <1>0
    <2> QED BY <2>1, PowerSteps DEF Sums
  <1>2. ASSUME NEW i \in 1..last, i - 1 \in S PROVE i \in S
    <2>1. /\ i \in 1..Bits /\ i \in 0..Bits /\ i - 1 \in 0..Bits
          /\ i \in Nat /\ i - 1 \in Nat /\ i \in 0..last
      BY <1>0
    <2>2. Top(i - 1) \in Nat
      BY <1>0, <2>1
    <2>3. Top(i) = Top(i - 1) \/ Top(i) = Top(i - 1) + 1
      BY <1>0, <2>1
    <2>4. sum[i - 1] < Power(Top(i - 1)) /\ sum[i - 1] \in Nat
      BY <1>2, <2>1 DEF Sums
    <2>5. sum[i] = sum[i - 1] + IF i - 1 \in T THEN SocketBits[i - 1] ELSE 0
      BY <2>1 DEF Sums
    <2>6. CASE i - 1 \in T
      <3>1. i - 1 \in PosixSocket /\ (i - 1) \div BitsPerByte = b
        BY <2>6 DEF InByte
      <3>2. (i - 1) - low \in 0..(BitsPerByte - 1) /\ SocketBits[i - 1] = Power((i - 1) - low)
        BY <3>1, BitInByte DEF low
      <3>3. Top(i - 1) = (i - 1) - low /\ Top(i) = Top(i - 1) + 1
        BY <1>0, <2>1, <3>2
      <3> HIDE DEF Top
      <3>4. Power(Top(i)) = 2 * Power(Top(i - 1)) /\ Power(Top(i - 1)) \in Nat
        BY <2>2, <3>3, PowerSteps
      <3>5. sum[i] = sum[i - 1] + Power(Top(i - 1))
        BY <2>5, <2>6, <3>2, <3>3
      <3>6. sum[i] < Power(Top(i))
        BY <2>4, <3>4, <3>5
      <3> QED BY <2>1, <3>6
    <2>7. CASE i - 1 \notin T
      <3>1. sum[i] = sum[i - 1]
        BY <2>4, <2>5, <2>7
      <3> HIDE DEF Top
      <3>2. Power(Top(i - 1) + 1) = 2 * Power(Top(i - 1)) /\ Power(Top(i - 1)) \in Nat
        BY <2>2, PowerSteps
      <3>3. sum[i] < Power(Top(i))
        <4>1. CASE Top(i) = Top(i - 1)
          BY <2>4, <3>1, <4>1
        <4>2. CASE Top(i) = Top(i - 1) + 1
          BY <2>4, <3>1, <3>2, <4>2
        <4> QED BY <2>3, <4>1, <4>2
      <3> QED BY <2>1, <3>3
    <2> QED BY <2>6, <2>7
  <1> HIDE DEF S, Top
  <1>3. last \in S
    <2>1. 0..last \subseteq S
      BY <1>0, <1>1, <1>2, Induction
    <2> QED BY <1>0, <2>1
  <1> QED BY <1>3 DEF S, Top, low

\* What is added below the sockets of a byte is nothing, within them is less
\* than the next bit, and beyond a bit is a multiple of the next.
LEMMA AddedBit ==
    ASSUME NEW b \in Nat, NEW T, NEW s \in PosixSocket, s \div BitsPerByte = b,
           InByte(T, b)
    PROVE  (Added(SocketBits, T) \div bitOf(s)) % 2 = 1
               <=> s \in T
  <1> DEFINE n == Bits
             low == BitsPerByte * b
             bit == SocketBits
             d == IF s \in T THEN 1 ELSE 0
             P == Power(s - low)
  <1>1. /\ BitsPerByte \in Nat \ {0}
        /\ n \in Nat
        /\ low \in Nat
        /\ s \in Nat /\ s + 1 \in 1..n
    BY SocketSetAssumption DEF PosixSocket, Bits
  <1>2. ASSUME NEW t \in PosixSocket, t \div BitsPerByte = b
        PROVE  /\ t \in Nat /\ t - low \in 0..(BitsPerByte - 1)
               /\ bit[t] = Power(t - low) /\ bitOf(t) = Power(t - low)
    BY <1>2, BitInByte
  <1>3. \A t \in PosixSocket : bit[t] \in Nat
    BY BitInByte
  <1>4. PICK sum : Added(bit, T) = sum[n] /\ Sums(sum, bit, T)
    BY <1>3, AddedOf
  <1>5. s - low \in 0..(BitsPerByte - 1) /\ s - low \in Nat /\ bitOf(s) = P /\ P \in Nat \ {0}
    <2>1. s - low \in 0..(BitsPerByte - 1) /\ bitOf(s) = P
      BY <1>2
    <2>2. s - low \in Nat
      BY <1>1, <2>1
    <2>3. P \in Nat /\ P >= 1
      BY <2>2, PowerSteps
    <2> QED BY <2>1, <2>2, <2>3
  \* Below s the sum is less than the bit of s.
  <1>6. sum[s] < P
    <2> DEFINE top == IF s <= low THEN 0
                      ELSE IF s - low <= BitsPerByte THEN s - low ELSE BitsPerByte
    <2>1. s \in 0..Bits
      BY <1>1
    <2>2. sum[s] < Power(top)
      BY <1>4, <2>1, SumsBelow
    <2>3. top = s - low
      <3> HIDE DEF low
      <3> QED BY <1>1, <1>5
    <2> HIDE DEF top
    <2> QED BY <2>2, <2>3
  <1> HIDE DEF bit, n, low, P
  \* Beyond s it has the bit of s and multiples of the next.
  <1>7. \E m \in Nat : sum[n] = (sum[s] + P * d) + P * (2 * m)
    <2> DEFINE Beyond(k) == \E m \in Nat : sum[s + 1 + k] = (sum[s] + P * d) + P * (2 * m)
               last == n - (s + 1)
               S == {k \in 0..last : Beyond(k)}
    <2>0. last \in Nat /\ s + 1 + last = n
      BY <1>1
    <2>1. 0 \in S
      <3>1. s + 1 \in 1..n /\ (s + 1) - 1 = s /\ s + 1 + 0 = s + 1 /\ s \in 0..n
        BY <1>1
      <3>2. bit[s] = P
        BY <1>2 DEF P
      <3>3. sum[s + 1] = sum[s] + IF s \in T THEN bit[s] ELSE 0
        BY <1>4, <3>1 DEF Sums, n
      <3>4. sum[s] \in Nat
        BY <1>4, <3>1 DEF Sums, n
      <3>5. sum[s + 1] = (sum[s] + P * d) + P * (2 * 0)
        BY <1>5, <3>2, <3>3, <3>4
      <3>6. Beyond(0)
        BY <3>1, <3>5
      <3> HIDE DEF Beyond
      <3> QED BY <2>0, <3>6
    <2>2. ASSUME NEW k \in 1..last, k - 1 \in S PROVE k \in S
      <3>1. PICK m \in Nat : sum[s + 1 + (k - 1)] = (sum[s] + P * d) + P * (2 * m)
        BY <2>2
      <3> DEFINE i == s + 1 + k
      <3>2. /\ i \in 1..n /\ i - 1 = s + 1 + (k - 1) /\ i - 1 \in 0..n
            /\ s \in 0..n /\ i - 1 = s + k
        BY <1>1, <2>0
      <3>3. sum[i] = sum[i - 1] + IF i - 1 \in T THEN bit[i - 1] ELSE 0
        BY <1>4, <3>2 DEF Sums, n
      <3>4. sum[s] \in Nat /\ sum[i - 1] \in Nat
        BY <1>4, <3>2 DEF Sums, n
      <3>5. CASE i - 1 \in T
        <4>1. i - 1 \in PosixSocket /\ (i - 1) \div BitsPerByte = b
          BY <3>5 DEF InByte
        <4>2. bit[i - 1] = Power((i - 1) - low)
          BY <1>2, <4>1
        <4>3. /\ (i - 1) - low = (s - low) + k
              /\ k - 1 \in Nat /\ k \in Nat /\ (k - 1) + 1 = k
          BY <1>1, <1>5, <3>2
        <4>4. Power((i - 1) - low) = P * Power(k)
          BY <1>5, <4>3, PowerSum DEF P
        <4>5. Power(k) = 2 * Power(k - 1) /\ Power(k - 1) \in Nat
          BY <4>3, PowerSteps
        <4> DEFINE q == Power(k - 1)
        <4>6. sum[i] = ((sum[s] + P * d) + P * (2 * m)) + P * (2 * q)
          <5> HIDE DEF i, q
          <5>1. bit[i - 1] = P * (2 * q)
            BY <4>2, <4>4, <4>5 DEF q
          <5> QED BY <3>1, <3>2, <3>3, <3>5, <5>1
        <4>7. q \in Nat /\ m + q \in Nat
          BY <4>5
        <4> HIDE DEF q
        <4>8. P * (2 * m) + P * (2 * q) = P * (2 * (m + q))
          BY <1>5, <4>7
        <4>9. P * (2 * m) \in Nat /\ P * (2 * q) \in Nat /\ P * d \in Nat
          BY <1>5, <4>7
        <4>10. sum[i] = (sum[s] + P * d) + P * (2 * (m + q))
          <5> DEFINE x == P * d
                     y == P * (2 * m)
                     z == P * (2 * q)
          <5>1. x \in Nat /\ y \in Nat /\ z \in Nat
            BY <4>9
          <5>2. sum[i] = ((sum[s] + x) + y) + z /\ P * (2 * (m + q)) = y + z
            BY <4>6, <4>8
          <5> HIDE DEF x, y, z
          <5>3. ((sum[s] + x) + y) + z = (sum[s] + x) + (y + z)
            BY <3>4, <5>1
          <5> QED BY <5>2, <5>3 DEF x
        <4> QED BY <4>7, <4>10
      <3>6. CASE i - 1 \notin T
        <4>1. sum[i] = sum[i - 1]
          BY <3>3, <3>4, <3>6
        <4> QED BY <3>1, <3>2, <4>1
      <3> QED BY <3>5, <3>6
    <2> HIDE DEF S
    <2>3. last \in S
      BY <2>0, <2>1, <2>2, Induction
    <2> QED BY <2>0, <2>3 DEF S
  <1>8. PICK m \in Nat : sum[n] = (sum[s] + P * d) + P * (2 * m)
    BY <1>7
  <1>9. sum[n] = P * (d + (2 * m)) + sum[s] /\ sum[s] \in 0..(P - 1) /\ d + (2 * m) \in Nat
    <2>1. sum[s] \in Nat
      BY <1>1, <1>4 DEF Sums, n
    <2>2. P * (d + (2 * m)) = (P * d) + (P * (2 * m)) /\ P * d \in Nat /\ P * (2 * m) \in Nat
      BY <1>5
    <2> QED BY <1>5, <1>6, <1>8, <2>1, <2>2
  <1>10. sum[n] \div P = d + (2 * m)
    <2> DEFINE q == d + (2 * m)
               r == sum[s]
    <2>1. sum[n] = r + P * q /\ q \in Nat /\ r \in 0..(P - 1) /\ P \in Nat \ {0}
      BY <1>5, <1>9
    <2> HIDE DEF q, r
    <2>2. (r + P * q) \div P = q
      BY <2>1, DivideUnique
    <2> QED BY <2>1, <2>2 DEF q
  <1>11. (d + (2 * m)) % 2 = d
    BY SMT
  <1>12. d = 1 <=> s \in T
    OBVIOUS
  <1> QED BY <1>4, <1>5, <1>10, <1>11, <1>12 DEF bit

-----------------------------------------------------------------------------
(* POSIX fd_sets.                                                          *)

LEMMA SocketsInBytes ==
    \A s \in PosixSocket : s \in Nat /\ byteOf(s) \in 0..(Bytes - 1) /\ FdByte(s) = byteOf(s)
  <1> TAKE s \in PosixSocket
  <1>1. s \in Nat /\ s < Bytes * BitsPerByte
    BY SocketSetAssumption DEF PosixSocket
  <1>2. /\ byteOf(s) \in Nat /\ s % BitsPerByte \in Nat
        /\ s = BitsPerByte * byteOf(s) + (s % BitsPerByte)
    <2>1. BitsPerByte \in Nat \ {0}
      BY SocketSetAssumption
    <2>2. /\ s \div BitsPerByte \in Nat /\ s % BitsPerByte \in 0..(BitsPerByte - 1)
          /\ s = BitsPerByte * (s \div BitsPerByte) + (s % BitsPerByte)
      BY <1>1, <2>1, Divide
    <2>3. s % BitsPerByte \in Nat
      BY <2>1, <2>2
    <2> QED BY <2>2, <2>3 DEF byteOf
  <1> DEFINE b == byteOf(s)
  <1> HIDE DEF b
  <1>3. b < Bytes
    <2> SUFFICES ASSUME b >= Bytes PROVE FALSE
      BY <1>2, SocketSetAssumption DEF b
    <2>1. b - Bytes \in Nat /\ b \in Nat
      BY <1>2, SocketSetAssumption DEF b
    <2>2. /\ BitsPerByte * b = (BitsPerByte * Bytes) + (BitsPerByte * (b - Bytes))
          /\ BitsPerByte * (b - Bytes) \in Nat
          /\ BitsPerByte * Bytes = Bytes * BitsPerByte
          /\ Bytes * BitsPerByte \in Nat
          /\ BitsPerByte * b \in Nat
      <3> DEFINE e == b - Bytes
                 B == BitsPerByte
      <3>1. b = Bytes + e /\ e \in Nat /\ Bytes \in Nat /\ B \in Nat
        BY <2>1, SocketSetAssumption
      <3> HIDE DEF e, B
      <3>2. B * (Bytes + e) = (B * Bytes) + (B * e)
        BY <3>1, SMT
      <3>3. B * e \in Nat /\ B * Bytes \in Nat /\ B * b \in Nat /\ B * Bytes = Bytes * B
        BY <2>1, <3>1, SMT
      <3> QED BY <3>1, <3>2, <3>3 DEF e, B
    <2>3. BitsPerByte * b >= Bytes * BitsPerByte
      <3> DEFINE x == BitsPerByte * b
                 y == BitsPerByte * (b - Bytes)
                 z == BitsPerByte * Bytes
                 w == Bytes * BitsPerByte
      <3>1. x = z + y /\ y \in Nat /\ z = w /\ w \in Nat
        BY <2>2
      <3> HIDE DEF x, y, z, w
      <3>2. x >= w
        BY <3>1
      <3> QED BY <3>2 DEF x, w
    <2>4. s = (BitsPerByte * b) + (s % BitsPerByte)
      BY <1>2 DEF b
    <2> QED BY <1>1, <1>2, <2>2, <2>3, <2>4
  <1>4. FdByte(s) = byteOf(s)
    BY DEF FdByte, byteOf
  <1>5. byteOf(s) \in 0..(Bytes - 1)
    BY <1>2, <1>3, SocketSetAssumption DEF b
  <1> QED BY <1>1, <1>4, <1>5

\* What fits in the bytes has a bit.
LEMMA FitsHasBits ==
    ASSUME NEW S, S \subseteq Nat, PosixFits(S)
    PROVE  S \subseteq PosixSocket
  <1> SUFFICES ASSUME NEW s \in S PROVE s \in PosixSocket
    OBVIOUS
  <1>1. /\ byteOf(s) \in Nat /\ s % BitsPerByte \in 0..(BitsPerByte - 1)
        /\ s = BitsPerByte * byteOf(s) + (s % BitsPerByte)
        /\ byteOf(s) < Bytes
        /\ s \in Nat
    BY SocketSetAssumption, Divide DEF byteOf, PosixFits
  <1> DEFINE b == byteOf(s)
             r == s % BitsPerByte
  <1>2. /\ b \in Nat /\ r \in 0..(BitsPerByte - 1)
        /\ s = (BitsPerByte * b) + r /\ b < Bytes /\ s \in Nat
    BY <1>1
  <1> HIDE DEF b, r
  <1>3. (Bytes - 1) - b \in Nat
    BY <1>2, SocketSetAssumption
  <1>4. /\ Bytes * BitsPerByte = ((BitsPerByte * b) + (BitsPerByte * ((Bytes - 1) - b))) + BitsPerByte
        /\ BitsPerByte * ((Bytes - 1) - b) \in Nat
        /\ BitsPerByte * b \in Nat
    BY <1>2, <1>3, SocketSetAssumption
  <1>5. s < Bytes * BitsPerByte
    <2> DEFINE x == BitsPerByte * b
               y == BitsPerByte * ((Bytes - 1) - b)
               w == Bytes * BitsPerByte
    <2>1. w = (x + y) + BitsPerByte /\ x \in Nat /\ y \in Nat /\ s = x + r
      BY <1>2, <1>4
    <2> HIDE DEF x, y, w
    <2>2. s < w
      BY <1>2, <2>1, SocketSetAssumption
    <2> QED BY <2>2 DEF w
  <1> QED BY <1>2, <1>5, SocketSetAssumption DEF PosixSocket

\* Bytes that writeUInt8 takes.
PosixFdSet == [0..(Bytes - 1) -> 0..(Power(BitsPerByte) - 1)]

LEMMA PosixBits ==
    ASSUME NEW S, S \subseteq PosixSocket, NEW s \in PosixSocket
    PROVE  /\ (PosixEncode(S)[byteOf(s)] \div bitOf(s)) % 2 = 1 <=> s \in S
           /\ PosixEncode(S) \in PosixFdSet
  <1> DEFINE Within(byte) == {socket \in S : byteOf(socket) = byte}
             bit == SocketBits
  <1>1. PosixEncode(S) = [byte \in 0..(Bytes - 1) |-> Added(bit, Within(byte))]
    BY DEF PosixEncode, SocketBits
  <1>2. byteOf(s) \in 0..(Bytes - 1) /\ byteOf(s) \in Nat
    BY SocketsInBytes
  <1>3. (Added(bit, Within(byteOf(s))) \div bitOf(s)) % 2 = 1 <=> s \in Within(byteOf(s))
    <2> DEFINE b == byteOf(s)
               T == Within(b)
    <2>1. b \in Nat /\ s \div BitsPerByte = b /\ InByte(T, b)
      BY <1>2 DEF byteOf, InByte
    <2> HIDE DEF b, T
    <2>2. (Added(bit, T) \div bitOf(s)) % 2 = 1 <=> s \in T
      BY <2>1, AddedBit
    <2> QED BY <2>2 DEF b, T
  <1>4. \A byte \in 0..(Bytes - 1) : Added(bit, Within(byte)) \in 0..(Power(BitsPerByte) - 1)
    <2> TAKE byte \in 0..(Bytes - 1)
    <2> DEFINE T == Within(byte)
               low == BitsPerByte * byte
               top == IF Bits <= low THEN 0
                      ELSE IF Bits - low <= BitsPerByte THEN Bits - low ELSE BitsPerByte
    <2>1. /\ Bits \in 0..Bits /\ byte \in Nat /\ BitsPerByte \in Nat
          /\ InByte(T, byte)
      BY SocketSetAssumption DEF Bits, InByte, byteOf
    <2>2. \A t \in PosixSocket : bit[t] \in Nat
      BY BitInByte
    <2> HIDE DEF T
    <2>3. PICK sum : Added(bit, T) = sum[Bits] /\ Sums(sum, bit, T)
      BY <2>2, AddedOf
    <2>4. sum[Bits] < Power(top)
      BY <2>1, <2>3, SumsBelow
    <2>5. sum[Bits] \in Nat
      BY <2>1, <2>3 DEF Sums
    <2>6. BitsPerByte - top \in Nat /\ top \in Nat
      <3>1. Bits \in Nat /\ low \in Nat
        BY SocketSetAssumption, <2>1 DEF Bits
      <3> HIDE DEF low
      <3> QED BY <2>1, <3>1
    <2> HIDE DEF top
    <2>7. Power(top) <= Power(BitsPerByte) /\ Power(top) \in Nat /\ Power(BitsPerByte) \in Nat
      BY <2>1, <2>6, PowerGrows, PowerSteps
    <2> QED BY <2>3, <2>4, <2>5, <2>7 DEF T
  <1> HIDE DEF bit, Within
  <1>5. PosixEncode(S)[byteOf(s)] = Added(bit, Within(byteOf(s)))
    BY <1>1, <1>2
  <1>6. s \in Within(byteOf(s)) <=> s \in S
    BY DEF Within
  <1>7. PosixEncode(S) \in PosixFdSet
    BY <1>1, <1>4 DEF PosixFdSet
  <1> QED BY <1>3, <1>5, <1>6, <1>7

\* The fd_set of a Set has its sockets, and none besides.
LEMMA PosixHolds ==
    ASSUME NEW S, S \subseteq PosixSocket
    PROVE  PosixSockets(PosixEncode(S)) = S
  <1> DEFINE fdSet == PosixEncode(S)
  <1>1. \A s \in PosixSocket : FdByte(s) = byteOf(s) /\ FdBit(s) = bitOf(s)
    BY DEF FdByte, FdBit, byteOf, bitOf
  <1>2. \A s \in PosixSocket : (fdSet[FdByte(s)] \div FdBit(s)) % 2 = 1 <=> s \in S
    BY <1>1, PosixBits
  <1> HIDE DEF fdSet
  <1>3. PosixSockets(fdSet) = S
    BY <1>2 DEF PosixSockets
  <1> QED BY <1>3 DEF fdSet

\* What the system leaves is the fd_set of the sockets that are ready.
LEMMA PosixKeeps ==
    ASSUME NEW S, S \subseteq PosixSocket, NEW some
    PROVE  PosixKeep(PosixEncode(S), some) = PosixEncode(S \cap some)
  <1> DEFINE T == S \cap some
  <1>1. PosixSockets(PosixEncode(S)) \cap some = T
    BY PosixHolds
  <1>2. [socket \in PosixSocket |-> FdBit(socket)] = [socket \in PosixSocket |-> bitOf(socket)]
    BY DEF FdBit, bitOf
  <1> HIDE DEF T
  <1>3. \A byte : {socket \in T : FdByte(socket) = byte} = {socket \in T : byteOf(socket) = byte}
    BY DEF FdByte, byteOf
  <1>4. PosixKeep(PosixEncode(S), some) = PosixEncode(T)
    BY <1>1, <1>2, <1>3 DEF PosixKeep, PosixEncode
  <1> QED BY <1>4 DEF T

\* socketset.ts 33-54: posixSocketSet decodes what it encoded, and what the
\* system leaves of it; no byte is ever too large for writeUInt8.
THEOREM PosixRoundTrip ==
    ASSUME NEW S, S \subseteq Nat, PosixFits(S), NEW some
    PROVE  /\ PosixEncode(S) \in PosixFdSet
           /\ PosixDecode(PosixEncode(S), S) = S
           /\ PosixKeep(PosixEncode(S), some) \in PosixFdSet
           /\ PosixDecode(PosixKeep(PosixEncode(S), some), S) = S \cap some
  <1>1. S \subseteq PosixSocket
    BY FitsHasBits
  <1> DEFINE T == S \cap some
  <1>2. T \subseteq PosixSocket
    BY <1>1
  <1>3. ASSUME NEW R, R \subseteq PosixSocket
        PROVE  /\ PosixEncode(R) \in PosixFdSet
               /\ PosixDecode(PosixEncode(R), S) = S \cap R
    <2>1. 0 \in PosixSocket
      <3>1. Bytes * BitsPerByte \in Nat /\ Bytes * BitsPerByte # 0
        BY SocketSetAssumption
      <3> QED BY <3>1 DEF PosixSocket
    <2>2. PosixEncode(R) \in PosixFdSet
      BY <1>3, <2>1, PosixBits
    <2> DEFINE fdSet == PosixEncode(R)
    <2>3. \A s \in S : (fdSet[byteOf(s)] \div bitOf(s)) % 2 = 1 <=> s \in R
      BY <1>1, <1>3, PosixBits
    <2> HIDE DEF fdSet
    <2>4. PosixDecode(fdSet, S) = S \cap R
      BY <2>3 DEF PosixDecode
    <2> QED BY <2>2, <2>4 DEF fdSet
  <1>4. PosixKeep(PosixEncode(S), some) = PosixEncode(T)
    BY <1>1, PosixKeeps
  <1> HIDE DEF T
  <1>5. /\ PosixEncode(S) \in PosixFdSet
        /\ PosixDecode(PosixEncode(S), S) = S
    BY <1>1, <1>3
  <1>6. /\ PosixEncode(T) \in PosixFdSet
        /\ PosixDecode(PosixEncode(T), S) = S \cap T
    BY <1>2, <1>3
  <1>7. S \cap T = S \cap some
    BY DEF T
  <1> QED BY <1>4, <1>5, <1>6, <1>7

-----------------------------------------------------------------------------
(* Winsock's fd_sets.                                                      *)

\* The sockets in their order are all of them.
LEMMA SequenceOf ==
    ASSUME NEW S, IsFiniteSet(S)
    PROVE  /\ Cardinality(S) \in Nat
           /\ SetToSeq(S) \in [1..Cardinality(S) -> S]
           /\ \A s \in S : \E i \in 1..Cardinality(S) : SetToSeq(S)[i] = s
  <1> DEFINE n == Cardinality(S)
             f == SetToSeq(S)
  <1>1. n \in Nat /\ ExistsBijection(1..n, S)
    BY FS_CardinalityType
  <1>2. f \in [1..n -> S] /\ IsInjective(f)
    <2>1. \E h \in [1..n -> S] : IsInjective(h)
      BY <1>1 DEF ExistsBijection, Bijection, Injection
    <2> QED BY <2>1 DEF SetToSeq
  <1> HIDE DEF n, f
  <1>3. Cardinality(1..n) = n
    <2>1. Cardinality(1..n) = IF 1 > n THEN 0 ELSE (n - 1) + 1
      BY <1>1, FS_Interval
    <2> QED BY <1>1, <2>1
  <1>4. f \in Injection(1..n, S)
    BY <1>2 DEF Injection
  <1>5. f \in Surjection(1..n, S)
    BY <1>3, <1>4, FS_Injection DEF n
  <1> QED BY <1>1, <1>2, <1>5 DEF n, f, Surjection

WindowsFdSet == [count : Nat, sockets : [1..WindowsSize -> Nat]]

LEMMA WindowsHolds ==
    ASSUME NEW S, S \subseteq Nat, WindowsFits(S)
    PROVE  LET fdSet == WindowsEncode(S)
           IN  /\ fdSet \in WindowsFdSet
               /\ fdSet.count <= WindowsSize
               /\ \A s \in Nat : s \in S <=> \E i \in 1..fdSet.count : fdSet.sockets[i] = s
  <1> DEFINE n == Cardinality(S)
             f == SetToSeq(S)
             fdSet == WindowsEncode(S)
  <1>1. IsFiniteSet(S) /\ n <= WindowsSize
    BY DEF WindowsFits
  <1>2. n \in Nat /\ f \in [1..n -> S] /\ \A s \in S : \E i \in 1..n : f[i] = s
    BY <1>1, SequenceOf
  <1>3. fdSet = [count |-> n,
                 sockets |-> [i \in 1..WindowsSize |-> IF i <= n THEN f[i] ELSE 0]]
    BY DEF WindowsEncode
  <1> HIDE DEF n, f, fdSet
  <1>4. \A i \in 1..WindowsSize : (IF i <= n THEN f[i] ELSE 0) \in Nat
    <2> TAKE i \in 1..WindowsSize
    <2>1. i <= n => i \in 1..n
      BY <1>2, SocketSetAssumption
    <2>2. \A j \in 1..n : f[j] \in Nat
      BY <1>2
    <2> QED BY <2>1, <2>2
  <1>5. fdSet \in WindowsFdSet
    BY <1>2, <1>3, <1>4 DEF WindowsFdSet
  <1>6. fdSet.count = n /\ \A i \in 1..n : fdSet.sockets[i] = f[i]
    BY <1>1, <1>2, <1>3, SocketSetAssumption
  <1>7. \A s \in Nat : s \in S <=> \E i \in 1..fdSet.count : fdSet.sockets[i] = s
    BY <1>2, <1>6
  <1> QED BY <1>1, <1>5, <1>6, <1>7 DEF fdSet

\* The system moves the sockets that are ready to the front, and no other.
LEMMA WindowsKeeps ==
    ASSUME NEW fdSet \in WindowsFdSet, fdSet.count <= WindowsSize, NEW some
    PROVE  LET left == WindowsKeep(fdSet, some)
           IN  /\ left \in WindowsFdSet
               /\ \A s \in Nat : (\E i \in 1..left.count : left.sockets[i] = s) <=>
                                 /\ s \in some
                                 /\ \E i \in 1..fdSet.count : fdSet.sockets[i] = s
  <1> DEFINE n == fdSet.count
             given == fdSet.sockets
             Put(i, q) == IF given[i] \in some THEN Append(q, given[i]) ELSE q
             g == [x \in (1..n) \X Seq(Nat) |-> Put(x[1], x[2])]
             Body(h) == [i \in 0..n |->
                            IF i = 0 THEN <<>>
                            ELSE IF given[i] \in some THEN Append(h[i - 1], given[i])
                            ELSE h[i - 1]]
             kept == CHOOSE h : h = Body(h)
             Has(q, s) == \E i \in 1..Len(q) : q[i] = s
  <1>1. /\ n \in Nat /\ given \in [1..WindowsSize -> Nat]
        /\ WindowsSize \in Nat /\ n <= WindowsSize
        /\ \A i \in 1..n : i \in 1..WindowsSize /\ given[i] \in Nat
    BY SocketSetAssumption DEF WindowsFdSet
  <1>2. WindowsKeep(fdSet, some) =
            [count |-> Len(kept[n]),
             sockets |-> [index \in 1..WindowsSize |->
                            IF index <= Len(kept[n]) THEN kept[n][index] ELSE given[index]]]
    BY DEF WindowsKeep
  <1> HIDE DEF n, given
  <1>3. kept = Body(kept)
    <2>1. g \in [(1..n) \X Seq(Nat) -> Seq(Nat)]
      BY <1>1
    <2>2. \A i \in 1..n, q \in Seq(Nat) : g[<<i, q>>] = Put(i, q)
      OBVIOUS
    <2> HIDE DEF g, Put
    <2>3. PICK f \in [0..n -> Seq(Nat)] :
              f[0] = <<>> /\ \A i \in 1..n : f[i] = g[<<i, f[i - 1]>>]
      <3>1. <<>> \in Seq(Nat)
        OBVIOUS
      <3>2. Recursive(n, Seq(Nat), <<>>, g)
        BY <1>1, <2>1, <3>1, Recursion
      <3> QED BY <3>2 DEF Recursive
    <2>4. \A i \in 0..n : i = 0 \/ (i \in 1..n /\ i - 1 \in 0..n /\ i # 0)
      BY <1>1
    <2>5. \A i \in 0..n : f[i] = IF i = 0 THEN <<>> ELSE Put(i, f[i - 1])
      BY <2>2, <2>3, <2>4
    <2>6. f = Body(f)
      BY <2>3, <2>5 DEF Put
    <2> QED BY <2>6
  <1> HIDE DEF kept
  <1>4. kept[0] = <<>> /\ \A i \in 1..n : kept[i] = Put(i, kept[i - 1])
    <2>1. 0 \in 0..n /\ \A i \in 1..n : i \in 0..n /\ i # 0
      BY <1>1
    <2>2. \A i \in 0..n : kept[i] = IF i = 0 THEN <<>> ELSE Put(i, kept[i - 1])
      BY <1>3
    <2> HIDE DEF Put
    <2> QED BY <2>1, <2>2
  <1>5. ASSUME NEW q \in Seq(Nat), NEW x \in Nat, NEW s \in Nat
        PROVE  Has(Append(q, x), s) <=> (Has(q, s) \/ x = s)
    <2> DEFINE l == Len(q)
               r == Append(q, x)
    <2>1. /\ l \in Nat /\ Len(r) = l + 1
          /\ \A i \in 1..l : r[i] = q[i]
          /\ r[l + 1] = x
      OBVIOUS
    <2> HIDE DEF l, r
    <2>2. \A i \in 1..(l + 1) : i \in 1..l \/ i = l + 1
      BY <2>1
    <2>3. l + 1 \in 1..(l + 1) /\ \A i \in 1..l : i \in 1..(l + 1)
      BY <2>1
    <2>4. (\E i \in 1..(l + 1) : r[i] = s) <=> (\E i \in 1..l : q[i] = s) \/ x = s
      BY <2>1, <2>2, <2>3
    <2> QED BY <2>1, <2>4 DEF l, r
  <1> DEFINE Good(i) == /\ kept[i] \in Seq(Nat)
                        /\ Len(kept[i]) <= i
                        /\ \A s \in Nat : Has(kept[i], s) <=>
                               s \in some /\ \E j \in 1..i : given[j] = s
             S == {i \in 0..n : Good(i)}
  <1>6. 0 \in S
    <2>1. kept[0] \in Seq(Nat) /\ Len(kept[0]) = 0
      BY <1>4
    <2>2. 0 \in 0..n /\ 1..0 = {}
      BY <1>1
    <2> QED BY <2>1, <2>2
  <1>7. ASSUME NEW i \in 1..n, i - 1 \in S PROVE i \in S
    <2>1. /\ Good(i - 1)
          /\ kept[i] = Put(i, kept[i - 1])
          /\ given[i] \in Nat
          /\ i \in 0..n /\ i \in 1..i /\ i \in Nat
          /\ \A j \in 1..i : j \in 1..(i - 1) \/ j = i
          /\ \A j \in 1..(i - 1) : j \in 1..i
      <3>1. Good(i - 1)
        <4> HIDE DEF Good
        <4> QED BY <1>7 DEF S
      <3>2. kept[i] = Put(i, kept[i - 1]) /\ given[i] \in Nat
        <4> HIDE DEF Put
        <4> QED BY <1>1, <1>4
      <3>3. /\ i \in 0..n /\ i \in 1..i /\ i \in Nat
            /\ \A j \in 1..i : j \in 1..(i - 1) \/ j = i
            /\ \A j \in 1..(i - 1) : j \in 1..i
        BY <1>1
      <3> HIDE DEF Good, Put
      <3> QED BY <3>1, <3>2, <3>3
    <2> DEFINE q == kept[i - 1]
    <2>2. q \in Seq(Nat) /\ Len(q) <= i - 1 /\ Len(q) \in Nat
      BY <2>1
    <2>3. \A s \in Nat : Has(q, s) <=> s \in some /\ \E j \in 1..(i - 1) : given[j] = s
      BY <2>1
    <2>4. CASE given[i] \in some
      <3>1. kept[i] = Append(q, given[i])
        BY <2>1, <2>4
      <3>2. kept[i] \in Seq(Nat) /\ Len(kept[i]) = Len(q) + 1
        BY <2>1, <2>2, <3>1
      <3>3. \A s \in Nat : Has(kept[i], s) <=> (Has(q, s) \/ given[i] = s)
        <4> HIDE DEF Has, q
        <4>1. \A s \in Nat : Has(Append(q, given[i]), s) <=> (Has(q, s) \/ given[i] = s)
          BY <1>5, <2>1, <2>2, ZenonT(40)
        <4> QED BY <3>1, <4>1
      <3> HIDE DEF Has, q
      <3>4. \A s \in Nat : Has(kept[i], s) <=> s \in some /\ \E j \in 1..i : given[j] = s
        BY <2>1, <2>3, <2>4, <3>3
      <3>5. Len(kept[i]) <= i
        BY <2>1, <2>2, <3>2
      <3> QED BY <2>1, <3>2, <3>4, <3>5
    <2>5. CASE given[i] \notin some
      <3>1. kept[i] = q
        BY <2>1, <2>5
      <3> HIDE DEF Has, q
      <3>2. \A s \in Nat : Has(kept[i], s) <=> s \in some /\ \E j \in 1..i : given[j] = s
        BY <2>1, <2>3, <2>5, <3>1
      <3>3. Len(kept[i]) <= i
        BY <2>1, <2>2, <3>1
      <3> QED BY <2>1, <2>2, <3>1, <3>2, <3>3
    <2> QED BY <2>4, <2>5
  <1> HIDE DEF S
  <1>8. n \in S
    <2>1. 0..n \subseteq S
      <3> HIDE DEF Good
      <3> QED BY <1>1, <1>6, <1>7, Induction
    <2> QED BY <1>1, <2>1
  <1> DEFINE first == kept[n]
             left == WindowsKeep(fdSet, some)
  <1>9. /\ first \in Seq(Nat) /\ Len(first) <= n
        /\ \A s \in Nat : Has(first, s) <=> s \in some /\ \E j \in 1..n : given[j] = s
    BY <1>8 DEF S
  <1>10. left = [count |-> Len(first),
                 sockets |-> [index \in 1..WindowsSize |->
                                IF index <= Len(first) THEN first[index] ELSE given[index]]]
    BY <1>2
  <1> HIDE DEF first, left, Good
  <1>11. Len(first) \in Nat /\ Len(first) <= WindowsSize /\ \A j \in 1..Len(first) : first[j] \in Nat
    BY <1>1, <1>9
  <1>12. \A index \in 1..WindowsSize :
             (IF index <= Len(first) THEN first[index] ELSE given[index]) \in Nat
    BY <1>1, <1>11
  <1>13. left \in WindowsFdSet
    BY <1>10, <1>11, <1>12 DEF WindowsFdSet
  <1>14. left.count = Len(first) /\ \A j \in 1..Len(first) : left.sockets[j] = first[j]
    BY <1>1, <1>10, <1>11
  <1>15. \A s \in Nat : (\E i \in 1..left.count : left.sockets[i] = s) <=>
                            s \in some /\ \E i \in 1..n : given[i] = s
    BY <1>9, <1>14
  <1> QED BY <1>13, <1>15 DEF left, n, given

\* socketset.ts 56-92: windowsSocketSet decodes what it encoded, and what the
\* system leaves of it, whatever it leaves behind the count.
THEOREM WindowsRoundTrip ==
    ASSUME NEW S, S \subseteq Nat, WindowsFits(S), NEW some
    PROVE  /\ WindowsEncode(S) \in WindowsFdSet
           /\ WindowsDecode(WindowsEncode(S), S) = S
           /\ WindowsKeep(WindowsEncode(S), some) \in WindowsFdSet
           /\ WindowsDecode(WindowsKeep(WindowsEncode(S), some), S) = S \cap some
  <1> DEFINE fdSet == WindowsEncode(S)
             left == WindowsKeep(fdSet, some)
  <1>1. /\ fdSet \in WindowsFdSet /\ fdSet.count <= WindowsSize
        /\ \A s \in Nat : s \in S <=> \E i \in 1..fdSet.count : fdSet.sockets[i] = s
    BY WindowsHolds
  <1> HIDE DEF fdSet
  <1>2. /\ left \in WindowsFdSet
        /\ \A s \in Nat : (\E i \in 1..left.count : left.sockets[i] = s) <=>
                              s \in some /\ \E i \in 1..fdSet.count : fdSet.sockets[i] = s
    BY <1>1, WindowsKeeps
  <1> HIDE DEF left
  <1>3. WindowsDecode(fdSet, S) = S
    BY <1>1 DEF WindowsDecode
  <1>4. WindowsDecode(left, S) = S \cap some
    BY <1>1, <1>2 DEF WindowsDecode
  <1> QED BY <1>1, <1>2, <1>3, <1>4 DEF left, fdSet

-----------------------------------------------------------------------------
(* Both layouts: socketset.ts 64-107.                                      *)

LEMMA PosixFdSetIsSet == NoSet \notin PosixFdSet
  <1>1. Power(BitsPerByte) \in Nat
    BY SocketSetAssumption, PowerSteps
  <1>2. PosixFdSet \subseteq [0..(Bytes - 1) -> Nat]
    BY <1>1 DEF PosixFdSet
  <1> QED BY <1>2, SocketSetAssumption

\* What fromFdSet makes of an fd_set that select left alone, and of one that it
\* changed.
LEMMA FdSetRoundTrip ==
    ASSUME platform \in {"posix", "win32"},
           NEW sockets \in (SUBSET Socket) \cup {NoSet}, NEW some,
           WindowsFits(Elements(sockets)), Fits(platform, sockets)
    PROVE  LET fdSet == toFdSet(platform, sockets)
               left == Keep(platform, fdSet, some)
           IN  /\ fromFdSet(platform, fdSet, sockets) = sockets
               /\ fromFdSet(platform, left, sockets) =
                      IF sockets = NoSet THEN NoSet ELSE sockets \cap some
  <1>1. CASE sockets = NoSet
    BY <1>1 DEF toFdSet, Keep, fromFdSet
  <1>2. ASSUME sockets # NoSet
        PROVE  sockets \subseteq Nat /\ WindowsFits(sockets)
    BY <1>2, SocketsAssumption DEF Elements
  <1>3. CASE sockets # NoSet /\ platform = "posix"
    <2>1. PosixFits(sockets)
      BY <1>3 DEF Fits
    <2>2. /\ PosixEncode(sockets) \in PosixFdSet
          /\ PosixDecode(PosixEncode(sockets), sockets) = sockets
          /\ PosixKeep(PosixEncode(sockets), some) \in PosixFdSet
          /\ PosixDecode(PosixKeep(PosixEncode(sockets), some), sockets) = sockets \cap some
      BY <1>2, <1>3, <2>1, PosixRoundTrip
    <2>3. PosixEncode(sockets) # NoSet /\ PosixKeep(PosixEncode(sockets), some) # NoSet
      BY <2>2, PosixFdSetIsSet
    <2>4. toFdSet(platform, sockets) = PosixEncode(sockets)
      BY <1>3 DEF toFdSet
    <2>5. /\ Keep(platform, PosixEncode(sockets), some) = PosixKeep(PosixEncode(sockets), some)
          /\ \A fdSet : fdSet # NoSet =>
                fromFdSet(platform, fdSet, sockets) = PosixDecode(fdSet, sockets)
      BY <1>3, <2>3 DEF Keep, fromFdSet
    <2> QED BY <1>3, <2>2, <2>3, <2>4, <2>5
  <1>4. CASE sockets # NoSet /\ platform = "win32"
    <2>1. /\ WindowsEncode(sockets) \in WindowsFdSet
          /\ WindowsDecode(WindowsEncode(sockets), sockets) = sockets
          /\ WindowsKeep(WindowsEncode(sockets), some) \in WindowsFdSet
          /\ WindowsDecode(WindowsKeep(WindowsEncode(sockets), some), sockets) = sockets \cap some
      BY <1>2, <1>4, WindowsRoundTrip
    <2>2. WindowsEncode(sockets) # NoSet /\ WindowsKeep(WindowsEncode(sockets), some) # NoSet
      BY <2>1, SocketSetAssumption DEF WindowsFdSet
    <2>3. toFdSet(platform, sockets) = WindowsEncode(sockets)
      BY <1>4 DEF toFdSet
    <2>4. /\ Keep(platform, WindowsEncode(sockets), some) = WindowsKeep(WindowsEncode(sockets), some)
          /\ \A fdSet : fdSet # NoSet =>
                fromFdSet(platform, fdSet, sockets) = WindowsDecode(fdSet, sockets)
      BY <1>4, <2>2 DEF Keep, fromFdSet
    <2> QED BY <1>4, <2>1, <2>2, <2>3, <2>4
  <1> QED BY <1>1, <1>3, <1>4

-----------------------------------------------------------------------------
\* The native addresses that stand for an address in JS.
Known == {toNativeAddress(address) : address \in Address}

\* address.ts 24-36: both ways, an address stays the same.
LEMMA AddressRoundTrip ==
    ASSUME NEW native \in Known
    PROVE  /\ native \in NativeAddress
           /\ fromNativeAddress(native) \in Address
           /\ toNativeAddress(fromNativeAddress(native)) = native
  <1>1. PICK address \in Address : native = toNativeAddress(address)
    BY DEF Known
  <1>2. /\ address.host \in IP
        /\ address.port \in Port
        /\ address = [host |-> address.host, port |-> address.port]
    BY DEF Address
  <1>3. ipToLong(address.host) \in Nat /\ ipFromLong(ipToLong(address.host)) = address.host
    BY <1>2, IpRoundTrip
  <1>4. native = [host |-> ipToLong(address.host), port |-> address.port]
    BY <1>1 DEF toNativeAddress
  <1>5. fromNativeAddress(native) = address
    BY <1>2, <1>3, <1>4 DEF fromNativeAddress
  <1>6. native \in NativeAddress
    BY <1>2, <1>3, <1>4 DEF NativeAddress
  <1>7. fromNativeAddress(native) \in Address
    BY <1>5
  <1>8. toNativeAddress(fromNativeAddress(native)) = native
    BY <1>1, <1>5
  <1> QED BY <1>6, <1>7, <1>8

\* An address that was not filled in is 0.0.0.0 and ENET_PORT_ANY.
LEMMA EmptyIsKnown == emptyNativeAddress \in Known
  <1> USE AddressesAssumption
  <1> DEFINE ip == [i \in 1..4 |-> 0]
             address == [host |-> ip, port |-> 0]
  <1>1. ip \in IP
    BY DEF IP, Octet, IPV4_OCTETS
  <1>2. address \in Address
    BY <1>1 DEF Address
  <1>3. ip[1] = 0 /\ ip[2] = 0 /\ ip[3] = 0 /\ ip[4] = 0
    OBVIOUS
  <1>4. Base * 0 = 0 /\ 0 + 0 = 0
    OBVIOUS
  <1>5. ipToLong(ip) = 0
    BY <1>3, <1>4 DEF ipToLong
  <1>6. toNativeAddress(address) = emptyNativeAddress
    BY <1>5 DEF toNativeAddress, emptyNativeAddress
  <1> QED BY <1>2, <1>6 DEF Known

LEMMA LocalIsKnown == LocalNative \subseteq Known
  BY SocketsAssumption DEF LocalNative, Known

-----------------------------------------------------------------------------
KnownMessage == [from : Known, size : {0, 1}]

SocketsKnown ==
    /\ platform \in {"posix", "win32"}
    /\ kind \in [Socket -> Kind]
    /\ bound \in [Socket -> Known]
    /\ queue \in [Socket -> Seq(KnownMessage)]

\* What the properties say of an answer.
AnswersAreTrue == AnswersCanBeUsed /\ KeepsReadySockets

\* The inductive invariant: every address in the system, of a socket or in a
\* queue, is one that JS can write.
IInv ==
    /\ SocketsKnown
    /\ answer \in Answer
    /\ AnswersAreTrue

\* What Tell answers with can be used.
LEMMA Telling ==
    ASSUME NEW status \in {-1, 0}, NEW native \in Known, Tell(status, native)
    PROVE  /\ answer' \in Answer
           /\ AnswersAreTrue'
  <1>1. /\ native \in NativeAddress
        /\ fromNativeAddress(native) \in Address
        /\ toNativeAddress(fromNativeAddress(native)) = native
    BY AddressRoundTrip
  <1>2. Null \notin Address /\ Null \notin NativeAddress
    BY AddressesAssumption
  <1> USE DEF AnswersAreTrue, KeepsReadySockets
  <1>3. CASE status = -1
    <2>1. answer' = [call |-> "address", address |-> Null, truth |-> Null, empty |-> FALSE]
      BY <1>3 DEF Tell, outValue
    <2> QED BY <2>1 DEF AddressAnswer, Answer, AnswersCanBeUsed
  <1>4. CASE status = 0
    <2>1. answer' = [call |-> "address", address |-> fromNativeAddress(native),
                     truth |-> native, empty |-> FALSE]
      BY <1>4 DEF Tell, outValue
    <2>2. answer' \in AddressAnswer
      BY <2>1, <1>1 DEF AddressAnswer
    <2>3. AnswersAreTrue'
      BY <2>1, <1>1, <1>2 DEF AnswersCanBeUsed
    <2> QED BY <2>2, <2>3 DEF Answer
  <1> QED BY <1>3, <1>4

\* What each call leaves in the sockets, and no call but these answers.
LEMMA NoneAnswered ==
    ASSUME answer' = NoAnswer
    PROVE  /\ answer' \in Answer
           /\ AnswersAreTrue'
  BY DEF NoAnswer, Answer, AnswersAreTrue, AnswersCanBeUsed, KeepsReadySockets

\* A socket sends from an address that JS can write.
LEMMA AddressesAreKnown ==
    ASSUME SocketsKnown, NEW socket \in Socket
    PROVE  AddressesOf(socket) \subseteq Known
  BY LocalIsKnown DEF SocketsKnown, AddressesOf

\* No call brings in an address that JS could not write.
LEMMA CallsKeepSocketsKnown ==
    ASSUME SocketsKnown, Use \/ CallOfNone \/ \E socket \in Socket : CallOf(socket)
    PROVE  SocketsKnown'
  <1> USE DEF SocketsKnown, Kind
  <1>1. CASE Use \/ CallOfNone
    BY <1>1 DEF Use, CallOfNone, Select, SelectThrows, SetHost, GetHost
  <1> SUFFICES ASSUME NEW socket \in Socket, CallOf(socket)
               PROVE  SocketsKnown'
    BY <1>1
  <1>2. ASSUME NEW type \in {"datagram", "stream"}, Create(socket, type)
        PROVE  SocketsKnown'
    BY <1>2 DEF Create
  <1>3. ASSUME NEW address \in Local \cup {Null}, Bind(socket, address)
        PROVE  SocketsKnown'
    BY <1>3, LocalIsKnown DEF Bind
  <1>4. CASE GetAddress(socket)
    BY <1>4 DEF GetAddress
  <1>5. CASE Listen(socket)
    BY <1>5 DEF Listen
  <1>6. ASSUME NEW address \in Local, NEW other \in Socket, Connect(socket, address, other)
        PROVE  SocketsKnown'
    <2>1. PICK native \in AddressesOf(socket) :
            /\ bound' = [bound EXCEPT ![socket] = native]
            /\ queue' = [queue EXCEPT ![other] = Append(@, [from |-> native, size |-> 0])]
      BY <1>6 DEF Connect
    <2>2. native \in Known
      BY AddressesAreKnown
    <2>3. [from |-> native, size |-> 0] \in KnownMessage
      BY <2>2 DEF KnownMessage
    <2>4. Append(queue[other], [from |-> native, size |-> 0]) \in Seq(KnownMessage)
      BY <2>3
    <2> QED BY <1>6, <2>1, <2>2, <2>4 DEF Connect
  <1>7. CASE AcceptNone(socket)
    BY <1>7 DEF AcceptNone
  <1>8. ASSUME NEW other \in Socket, Accept(socket, other)
        PROVE  SocketsKnown'
    <2>1. Tail(queue[socket]) \in Seq(KnownMessage)
      BY <1>8 DEF Accept
    <2> QED BY <1>8, <2>1 DEF Accept
  <1>9. ASSUME NEW address \in Local, NEW size \in {0, 1}, Send(socket, address, size)
        PROVE  SocketsKnown'
    <2>1. PICK native \in AddressesOf(socket) :
            /\ bound' = [bound EXCEPT ![socket] = native]
            /\ \/ UNCHANGED queue
               \/ \E receiver \in Socket :
                     queue' = [queue EXCEPT
                                 ![receiver] = Append(@, [from |-> native, size |-> size])]
      BY <1>9 DEF Send
    <2>2. native \in Known
      BY AddressesAreKnown
    <2>3. [from |-> native, size |-> size] \in KnownMessage
      BY <2>2 DEF KnownMessage
    <2>4. \A receiver \in Socket :
            Append(queue[receiver], [from |-> native, size |-> size]) \in Seq(KnownMessage)
      BY <2>3
    <2>5. queue' \in [Socket -> Seq(KnownMessage)]
      BY <2>1, <2>4
    <2> QED BY <1>9, <2>1, <2>2, <2>5 DEF Send
  <1>10. CASE Receive(socket)
    <2>1. queue[socket] # <<>> => Tail(queue[socket]) \in Seq(KnownMessage)
      OBVIOUS
    <2> QED BY <1>10, <2>1 DEF Receive
  <1>11. CASE Destroy(socket)
    BY <1>11, EmptyIsKnown DEF Destroy
  <1>12. ASSUME NEW asked \in SUBSET Which, NEW status \in {-1, 0}, Wait(socket, asked, status)
         PROVE  SocketsKnown'
    BY <1>12 DEF Wait
  <1> QED
    BY <1>2, <1>3, <1>4, <1>5, <1>6, <1>7, <1>8, <1>9, <1>10, <1>11, <1>12 DEF CallOf

\* Whatever a call answers can be used.
LEMMA CallsAnswer ==
    ASSUME IInv, Use \/ CallOfNone \/ \E socket \in Socket : CallOf(socket)
    PROVE  /\ answer' \in Answer
           /\ AnswersAreTrue'
  <1> USE DEF IInv, SocketsKnown
  <1> DEFINE Good == /\ answer' \in Answer
                     /\ AnswersAreTrue'
  <1> SUFFICES Good
    OBVIOUS
  <1>1. answer' = NoAnswer => Good
    BY NoneAnswered
  <1>2. \A status \in {-1, 0}, native \in Known : Tell(status, native) => Good
    BY Telling
  <1>3. ASSUME NEW given \in Arguments, Select(given)
        PROVE  Good
    <2>1. given \in Sets
      BY DEF Arguments
    <2> DEFINE encoded == [which \in Which |-> toFdSet(platform, given[which])]
               left == IF SelectFails(given)
                       THEN encoded
                       ELSE [which \in Which |-> Keep(platform, encoded[which], Ready[which])]
               kept == [which \in Which |-> fromFdSet(platform, left[which], given[which])]
    <2>2. answer' = [call |-> "select", given |-> given, kept |-> kept,
                    ready |-> Ready, failed |-> SelectFails(given)]
      BY <1>3 DEF Select
    <2>3. ASSUME NEW which \in Which
          PROVE  /\ given[which] \in (SUBSET Socket) \cup {NoSet}
                 /\ kept[which] = IF SelectFails(given) \/ given[which] = NoSet
                                  THEN given[which]
                                  ELSE given[which] \cap Ready[which]
      <3>1. /\ given[which] \in (SUBSET Socket) \cup {NoSet}
            /\ WindowsFits(Elements(given[which]))
            /\ Fits(platform, given[which])
        BY <1>3 DEF Arguments, Sets, Select
      <3> DEFINE sockets == given[which]
                 fdSet == toFdSet(platform, sockets)
      <3>2. /\ fromFdSet(platform, fdSet, sockets) = sockets
            /\ fromFdSet(platform, Keep(platform, fdSet, Ready[which]), sockets) =
                   IF sockets = NoSet THEN NoSet ELSE sockets \cap Ready[which]
        BY <3>1, FdSetRoundTrip
      <3>3. left[which] = IF SelectFails(given) THEN fdSet ELSE Keep(platform, fdSet, Ready[which])
        OBVIOUS
      <3>4. kept[which] = fromFdSet(platform, left[which], sockets)
        OBVIOUS
      <3> HIDE DEF left, kept, fdSet
      <3> QED BY <3>1, <3>2, <3>3, <3>4
    <2> HIDE DEF kept
    <2>4. Ready \in [Which -> SUBSET Socket]
      BY DEF Ready
    <2>5. kept \in Sets
      <3>1. \A which \in Which : kept[which] \in (SUBSET Socket) \cup {NoSet}
        BY <2>3
      <3>2. kept = [which \in Which |-> kept[which]]
        BY DEF kept
      <3> QED BY <3>1, <3>2 DEF Sets
    <2>6. SelectFails(given) \in BOOLEAN
      BY DEF SelectFails
    <2>7. answer' \in SetsAnswer
      BY <2>1, <2>2, <2>4, <2>5, <2>6 DEF SetsAnswer
    <2>8. answer'.call = "select" /\ KeepsReadySockets'
      BY <2>2, <2>3 DEF KeepsReadySockets
    <2>9. AnswersAreTrue'
      BY <2>8 DEF AnswersAreTrue, AnswersCanBeUsed
    <2> QED BY <2>7, <2>9 DEF Answer
  <1>4. ASSUME NEW socket \in Socket, GetAddress(socket)
        PROVE  Good
    BY <1>2, <1>4, EmptyIsKnown DEF GetAddress
  <1>5. ASSUME NEW socket \in Socket, AcceptNone(socket)
        PROVE  Good
    BY <1>2, <1>5, EmptyIsKnown DEF AcceptNone
  <1>6. ASSUME NEW socket \in Socket, queue[socket] # <<>>
        PROVE  Head(queue[socket]) \in KnownMessage
    BY <1>6
  <1>7. ASSUME NEW socket \in Socket, NEW other \in Socket, Accept(socket, other)
        PROVE  Good
    <2>1. Head(queue[socket]).from \in Known
      BY <1>6, <1>7 DEF Accept, KnownMessage
    <2> QED BY <1>2, <1>7, <2>1 DEF Accept
  <1>8. ASSUME NEW socket \in Socket, Receive(socket)
        PROVE  Good
    <2>1. CASE queue[socket] = <<>> \/ Head(queue[socket]).size = 0
      <3> DEFINE truth == IF queue[socket] # <<>> THEN Head(queue[socket]).from ELSE Null
                 empty == queue[socket] # <<>> /\ Head(queue[socket]).size = 0
      <3>1. truth \in NativeAddress \cup {Null} /\ empty \in BOOLEAN /\ (truth = Null \/ empty)
        BY <1>6, <2>1, AddressRoundTrip DEF KnownMessage
      <3>2. answer' = [call |-> "address", address |-> Null, truth |-> truth, empty |-> empty]
        BY <1>8, <2>1 DEF Receive, receivedAddress
      <3> HIDE DEF truth, empty
      <3>3. answer' \in AddressAnswer
        BY <3>1, <3>2 DEF AddressAnswer
      <3>4. AnswersAreTrue'
        BY <3>1, <3>2 DEF AnswersAreTrue, AnswersCanBeUsed, KeepsReadySockets
      <3> QED BY <3>3, <3>4 DEF Answer
    <2>2. CASE queue[socket] # <<>> /\ Head(queue[socket]).size # 0
      <3> DEFINE native == Head(queue[socket]).from
      <3>1. native \in Known /\ Head(queue[socket]).size = 1
        BY <1>6, <2>2 DEF KnownMessage
      <3>2. answer' = [call |-> "address", address |-> fromNativeAddress(native),
                       truth |-> native, empty |-> FALSE]
        <4>1. answer' = [call |-> "address", address |-> receivedAddress(1, native),
                         truth |-> native, empty |-> TRUE /\ 1 = 0]
          BY <1>8, <2>2, <3>1 DEF Receive
        <4>2. receivedAddress(1, native) = fromNativeAddress(native) /\ (TRUE /\ 1 = 0) = FALSE
          BY DEF receivedAddress
        <4> QED BY <4>1, <4>2
      <3>3. Tell(0, native)
        BY <3>2 DEF Tell, outValue
      <3> QED BY <1>2, <3>1, <3>3
    <2> QED BY <2>1, <2>2
  <1>9. ASSUME NEW socket \in Socket, CallOf(socket),
               ~GetAddress(socket), ~AcceptNone(socket), ~Receive(socket),
               \A other \in Socket : ~Accept(socket, other),
               \A asked \in SUBSET Which, status \in {-1, 0} : ~Wait(socket, asked, status)
        PROVE  answer' = NoAnswer
    BY <1>9 DEF CallOf, Create, Bind, Listen, Connect, Send, Destroy
  <1>10. ASSUME Use \/ \E given \in Arguments : SelectThrows(given)
         PROVE  answer' = NoAnswer
    BY <1>10 DEF Use, SelectThrows
  <1>11. ASSUME NEW address \in Local, NEW other \in Local, NEW status \in {-1, 0},
                SetHost(address, other.host, status)
         PROVE  Good
    <2> DEFINE copy == [host |-> other.host, port |-> address.port]
    <2>1. /\ address.port \in Port
          /\ copy \in Address
      BY SocketsAssumption DEF Address
    <2>2. toNativeAddress(copy) = [toNativeAddress(address) EXCEPT !.host = ipToLong(other.host)]
      BY DEF toNativeAddress
    <2>3. toNativeAddress(copy) \in Known
      BY <2>1 DEF Known
    <2> QED BY <1>2, <1>11, <2>2, <2>3 DEF SetHost
  <1>12. ASSUME NEW address \in Local, NEW status \in {-1, 0}, GetHost(address, status)
         PROVE  Good
    BY <1>2, <1>12, SocketsAssumption DEF GetHost, Known
  <1>13. ASSUME NEW socket \in Socket, NEW asked \in SUBSET Which, NEW status \in {-1, 0},
                Wait(socket, asked, status)
         PROVE  Good
    <2> DEFINE ready == {which \in Which : socket \in Ready[which]}
               conditions == IF status < 0 THEN asked ELSE asked \cap ready
    <2>1. answer' = [call |-> "wait", conditions |-> outValue(status, conditions)]
      BY <1>13 DEF Wait
    <2>2. outValue(status, conditions) \in (SUBSET Which) \cup {Null}
      BY DEF outValue
    <2> HIDE DEF ready, conditions
    <2>3. answer' \in WaitAnswer
      BY <2>1, <2>2 DEF WaitAnswer
    <2>4. AnswersAreTrue'
      BY <2>1 DEF AnswersAreTrue, AnswersCanBeUsed, KeepsReadySockets
    <2> QED BY <2>3, <2>4 DEF Answer
  <1> HIDE DEF Good
  <1> QED
    BY <1>1, <1>3, <1>4, <1>5, <1>7, <1>8, <1>9, <1>10, <1>11, <1>12, <1>13 DEF CallOfNone

-----------------------------------------------------------------------------
\* Addresses that JS can write are native ones.
LEMMA KnownIsTyped ==
    /\ [Socket -> Known] \subseteq [Socket -> NativeAddress]
    /\ [Socket -> Seq(KnownMessage)] \subseteq [Socket -> Seq(Message)]
  <1>1. Known \subseteq NativeAddress
    BY AddressRoundTrip
  <1>2. KnownMessage \subseteq Message
    BY <1>1 DEF KnownMessage, Message
  <1>3. ASSUME NEW q \in Seq(KnownMessage)
        PROVE  q \in Seq(Message)
    BY <1>2, <1>3
  <1> QED BY <1>1, <1>3

LEMMA InvInit == Init => IInv
  <1> SUFFICES ASSUME Init
               PROVE  IInv
    OBVIOUS
  <1>1. SocketsKnown
    BY EmptyIsKnown DEF Init, SocketsKnown, Kind
  <1> QED
    BY <1>1 DEF Init, IInv, NoAnswer, Answer, AnswersAreTrue, AnswersCanBeUsed,
                KeepsReadySockets

LEMMA InvNext == IInv /\ [Next]_vars => IInv'
  <1> SUFFICES ASSUME IInv, [Next]_vars
               PROVE  IInv'
    OBVIOUS
  <1>1. CASE Next
    <2>1. Use \/ CallOfNone \/ \E socket \in Socket : CallOf(socket)
      BY <1>1 DEF Next
    <2> QED BY <2>1, CallsKeepSocketsKnown, CallsAnswer DEF IInv
  <1>2. CASE UNCHANGED vars
    BY <1>2 DEF IInv, SocketsKnown, AnswersAreTrue, AnswersCanBeUsed, KeepsReadySockets, vars
  <1> QED BY <1>1, <1>2

\* The types of the sockets, and of every answer: a call that fails, or finds
\* nothing, answers null, and select leaves Sets that are parts of the given.
THEOREM Typing == Spec => []TypeOK
  <1>1. IInv => TypeOK
    BY KnownIsTyped DEF IInv, SocketsKnown, TypeOK
  <1> QED BY <1>1, InvInit, InvNext, PTL DEF Spec

\* socket.ts 31-39, 57-74, 90-114, address.ts 34-36: the address that a call returns
\* is, passed to another call, the one that C filled in, and there is none only when C
\* filled in none or the datagram had no bytes, whatever the size of an octet.
THEOREM AnswersTheorem == Spec => []AnswersCanBeUsed
  <1>1. IInv => AnswersCanBeUsed
    BY DEF IInv, AnswersAreTrue
  <1> QED BY <1>1, InvInit, InvNext, PTL DEF Spec

\* socketset.ts 64-118: select keeps, of every Set that fits, the sockets that
\* are ready and no other, and the Sets as they were when it fails, with bytes
\* of any size, fd_sets of any length and either layout.
THEOREM SelectTheorem == Spec => []KeepsReadySockets
  <1>1. IInv => KeepsReadySockets
    BY DEF IInv, AnswersAreTrue
  <1> QED BY <1>1, InvInit, InvNext, PTL DEF Spec
=============================================================================
