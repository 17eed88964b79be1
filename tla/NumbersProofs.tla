---------------------------- MODULE NumbersProofs ---------------------------
(***************************************************************************)
(* Theorems about Macros, for every width of the clock and of a version's  *)
(* components, and every window of at most half the clock; and about       *)
(* HandleFields, for bytes of every size and arrays of every length.       *)
(***************************************************************************)
EXTENDS MCNumbers, WellFoundedInduction, TLAPS

\* Quotient and remainder recompose a number.
LEMMA Divide ==
    ASSUME NEW d \in Nat \ {0}, NEW n \in Int
    PROVE  /\ n % d \in 0..(d - 1)
           /\ n \div d \in Int
           /\ n = d * (n \div d) + (n % d)
  BY SMT

\* Only one quotient and remainder do.
LEMMA DivideUnique ==
    ASSUME NEW d \in Nat \ {0}, NEW q \in Int, NEW r \in 0..(d - 1)
    PROVE  /\ (d * q + r) % d = r
           /\ (d * q + r) \div d = q
  BY SMT

\* Adding less than a whole turn to a clock wraps it at most once.
LEMMA WrapsOnce ==
    ASSUME NEW d \in Nat \ {0}, NEW n \in Int, NEW e \in 0..(d - 1)
    PROVE  (n + e) % d = IF (n % d) + e < d THEN (n % d) + e ELSE (n % d) + e - d
  <1> DEFINE q == n \div d
             r == n % d
             s == q + 1
  <1>1. q \in Int /\ r \in 0..(d - 1) /\ n = d * q + r
    BY Divide
  <1>2. s \in Int /\ d * s = d * q + d
    BY <1>1
  <1> HIDE DEF q, r, s
  <1>3. CASE r + e < d
    <2>1. n + e = d * q + (r + e) /\ r + e \in 0..(d - 1)
      BY <1>1, <1>3
    <2>2. (n + e) % d = r + e
      BY <2>1, <1>1, DivideUnique
    <2> QED BY <2>2, <1>3 DEF r
  <1>4. CASE ~(r + e < d)
    <2>1. n + e = d * s + (r + e - d) /\ r + e - d \in 0..(d - 1)
      BY <1>1, <1>2, <1>4
    <2>2. (n + e) % d = r + e - d
      BY <2>1, <1>2, DivideUnique, ZenonT(30)
    <2> QED BY <2>2, <1>4 DEF r
  <1> QED BY <1>3, <1>4

\* timeSubtract is subtraction modulo 2^32, like that of enet_uint32 in C.
LEMMA SubtractWraps ==
    ASSUME NEW left \in 0..(UINT32_RANGE - 1), NEW right \in 0..(UINT32_RANGE - 1)
    PROVE  timeSubtract(left, right) =
               IF left >= right THEN left - right ELSE left - right + UINT32_RANGE
  <1> USE MacrosAssumption
  <1>1. UINT32_RANGE \in Nat \ {0}
    OBVIOUS
  <1>2. \A n \in 0..(UINT32_RANGE - 1) : n % UINT32_RANGE = n
    BY <1>1, SMT
  <1>3. \A n \in UINT32_RANGE..(2 * UINT32_RANGE - 1) : n % UINT32_RANGE = n - UINT32_RANGE
    BY <1>1, SMT
  <1>4. CASE left >= right
    <2>1. Rem(left - right, UINT32_RANGE) = left - right
      BY <1>2, <1>4 DEF Rem
    <2>2. left - right + UINT32_RANGE \in UINT32_RANGE..(2 * UINT32_RANGE - 1)
      BY <1>4
    <2> QED BY <1>3, <1>4, <2>1, <2>2 DEF Rem, timeSubtract
  <1>5. CASE ~(left >= right)
    <2>1. Rem(left - right, UINT32_RANGE) = left - right
      BY <1>2, <1>5 DEF Rem
    <2>2. left - right + UINT32_RANGE \in 0..(UINT32_RANGE - 1)
      BY <1>5
    <2> QED BY <1>2, <1>5, <2>1, <2>2 DEF Rem, timeSubtract
  <1> QED BY <1>4, <1>5

\* Of two times less than the window apart, the distance to the later one is
\* what passed, and the distance back is nearly a whole turn.
LEMMA Distance ==
    ASSUME TypeOK, NEW s \in 0..ticks, NEW t \in 0..ticks, s <= t, t - s < Overflow
    PROVE  /\ timeSubtract(Stamp(t), Stamp(s)) = t - s
           /\ timeSubtract(Stamp(s), Stamp(t)) = IF s = t THEN 0 ELSE UINT32_RANGE - (t - s)
  <1> USE MacrosAssumption
  <1> DEFINE e == t - s
             a == (base + s) % UINT32_RANGE
             b == (base + t) % UINT32_RANGE
  <1>1. UINT32_RANGE \in Nat \ {0} /\ base + s \in Int /\ e \in 0..(UINT32_RANGE - 1)
    BY DEF TypeOK
  <1>2. base + t = (base + s) + e
    BY DEF TypeOK
  <1>3. a \in 0..(UINT32_RANGE - 1)
    BY <1>1, Divide
  <1>4. b = IF a + e < UINT32_RANGE THEN a + e ELSE a + e - UINT32_RANGE
    BY <1>1, <1>2, WrapsOnce
  <1>5. b \in 0..(UINT32_RANGE - 1)
    BY <1>1, <1>3, <1>4
  <1>6. /\ timeSubtract(b, a) = IF b >= a THEN b - a ELSE b - a + UINT32_RANGE
        /\ timeSubtract(a, b) = IF a >= b THEN a - b ELSE a - b + UINT32_RANGE
    BY <1>3, <1>5, SubtractWraps
  <1>7. e < Overflow /\ (e = 0 <=> s = t)
    BY DEF TypeOK
  <1> HIDE DEF a, b, e
  <1>8. timeSubtract(b, a) = e /\ timeSubtract(a, b) = IF e = 0 THEN 0 ELSE UINT32_RANGE - e
    BY <1>1, <1>3, <1>4, <1>6, <1>7
  <1> QED BY <1>7, <1>8 DEF a, b, e, Stamp

-----------------------------------------------------------------------------
\* The clock's types, however often it is set.
THEOREM Typing == Spec => []TypeOK
  <1>1. Init => TypeOK
    BY MacrosAssumption DEF Init, TypeOK
  <1>2. TypeOK /\ [Next]_vars => TypeOK'
    <2> SUFFICES ASSUME TypeOK, [Next]_vars PROVE TypeOK'
      OBVIOUS
    <2> USE MacrosAssumption DEF TypeOK
    <2>1. CASE Tick
      BY <2>1 DEF Tick
    <2>2. CASE Get
      BY <2>2 DEF Get
    <2>3. ASSUME NEW time \in 0..(UINT32_RANGE - 1), Set(time) PROVE TypeOK'
      BY <2>3 DEF Set
    <2>4. CASE UNCHANGED vars
      BY <2>4 DEF vars
    <2> QED BY <2>1, <2>2, <2>3, <2>4 DEF Next
  <1> QED BY <1>1, <1>2, PTL DEF Spec

\* macros.ts 26-38 for the real clock of 32 bits and any other: times within
\* the window compare as the moments they were taken at.
THEOREM Compares == Spec => []ComparesMoments
  <1>1. TypeOK => ComparesMoments
    <2> SUFFICES ASSUME TypeOK, NEW s \in remembered, NEW t \in remembered,
                        s - t < Overflow, t - s < Overflow
                 PROVE  /\ TIME_LESS(Stamp(s), Stamp(t)) <=> s < t
                        /\ TIME_GREATER(Stamp(s), Stamp(t)) <=> s > t
                        /\ TIME_LESS_EQUAL(Stamp(s), Stamp(t)) <=> s <= t
                        /\ TIME_GREATER_EQUAL(Stamp(s), Stamp(t)) <=> s >= t
      BY DEF ComparesMoments
    <2>1. s \in 0..ticks /\ t \in 0..ticks /\ ticks \in Nat
      BY MacrosAssumption DEF TypeOK
    <2> USE <2>1, MacrosAssumption
        DEF TIME_LESS, TIME_GREATER, TIME_LESS_EQUAL, TIME_GREATER_EQUAL
    <2>2. CASE s <= t
      BY <2>2, Distance
    <2>3. CASE t <= s
      BY <2>3, Distance
    <2> QED BY <2>2, <2>3
  <1> QED BY <1>1, Typing, PTL

\* macros.ts 40-43: ENET_TIME_DIFFERENCE gives what passed, in either order.
THEOREM Difference == Spec => []DifferenceIsElapsed
  <1>1. TypeOK => DifferenceIsElapsed
    <2> SUFFICES ASSUME TypeOK, NEW s \in remembered, NEW t \in remembered,
                        s <= t, t - s < Overflow
                 PROVE  /\ TIME_DIFFERENCE(Stamp(s), Stamp(t)) = t - s
                        /\ TIME_DIFFERENCE(Stamp(t), Stamp(s)) = t - s
      BY DEF DifferenceIsElapsed
    <2>1. s \in 0..ticks /\ t \in 0..ticks /\ ticks \in Nat
      BY MacrosAssumption DEF TypeOK
    <2> QED BY <2>1, Distance, MacrosAssumption DEF TIME_DIFFERENCE, TIME_LESS
  <1> QED BY <1>1, Typing, PTL

\* macros.ts 12-24: what ENET_VERSION_CREATE packs, the getters unpack.
THEOREM VersionRoundTrip ==
    ASSUME NEW major \in 0..(COMPONENT_RANGE - 1), NEW minor \in 0..(COMPONENT_RANGE - 1),
           NEW patch \in 0..(COMPONENT_RANGE - 1)
    PROVE  LET version == VERSION_CREATE(major, minor, patch) IN
           /\ VERSION_GET_MAJOR(version) = major
           /\ VERSION_GET_MINOR(version) = minor
           /\ VERSION_GET_PATCH(version) = patch
  <1> USE MacrosAssumption
  <1> DEFINE d == COMPONENT_RANGE
             version == VERSION_CREATE(major, minor, patch)
             high == d * major + minor
             square == d * d
             low == d * minor + patch
  <1>1. d \in Nat \ {0} /\ square \in Nat \ {0} /\ high \in Int
    OBVIOUS
  <1>2. version = d * high + patch
    BY DEF VERSION_CREATE
  <1>3. version = square * major + low
    BY DEF VERSION_CREATE
  <1>4. low \in 0..(square - 1)
    OBVIOUS
  <1> HIDE DEF d, version, high, square, low
  <1>5. version % d = patch /\ version \div d = high
    BY <1>1, <1>2, DivideUnique DEF d
  <1>6. high % d = minor
    BY <1>1, DivideUnique DEF d, high
  <1>7. version \div square = major
    BY <1>1, <1>3, <1>4, DivideUnique
  <1>8. major % d = major
    BY <1>1, SMT DEF d
  <1> QED BY <1>5, <1>6, <1>7, <1>8
        DEF d, square, version, VERSION_GET_MAJOR, VERSION_GET_MINOR, VERSION_GET_PATCH
-----------------------------------------------------------------------------
(* Induction and recursion on 0..n.  The induction is over a set, the      *)
(* recursion by a function g of the index and of the value before.         *)

LEMMA Induction ==
    ASSUME NEW n \in Nat, NEW S, 0 \in S, \A i \in 1..n : i - 1 \in S => i \in S
    PROVE  0..n \subseteq S
  <1> DEFINE T == (0..n) \ S
  <1> SUFFICES ASSUME T # {} PROVE FALSE
    OBVIOUS
  <1>0. T \subseteq Nat
    OBVIOUS
  <1>1. PICK x \in T : \A y \in T : ~ (<<y, x>> \in OpToRel(<, Nat))
    BY <1>0, WFMin, NatLessThanWellFounded
  <1>2. \A y \in T : ~ (y < x)
    BY <1>0, <1>1 DEF OpToRel
  <1>3. x \in 1..n /\ x - 1 \in 0..n /\ x - 1 < x
    OBVIOUS
  <1>4. x - 1 \in S
    BY <1>2, <1>3
  <1> QED BY <1>3, <1>4

LEMMA Recursion ==
    ASSUME NEW n \in Nat, NEW a \in Nat, NEW g \in [(1..n) \X Nat -> Nat]
    PROVE  \E f \in [0..n -> Nat] :
               f[0] = a /\ \A i \in 1..n : f[i] = g[<<i, f[i - 1]>>]
  <1> DEFINE Upto(m) == \E f \in [0..m -> Nat] :
                            /\ f[0] = a
                            /\ \A i \in 1..m : f[i] = g[<<i, f[i - 1]>>]
             M == {m \in 0..n : Upto(m)}
  <1>1. 0 \in M
    <2> DEFINE f == [i \in 0..0 |-> a]
    <2>1. f \in [0..0 -> Nat] /\ f[0] = a /\ \A i \in 1..0 : f[i] = g[<<i, f[i - 1]>>]
      OBVIOUS
    <2> HIDE DEF f
    <2> QED BY <2>1
  <1>2. ASSUME NEW m \in 1..n, m - 1 \in M PROVE m \in M
    <2>1. PICK f \in [0..(m - 1) -> Nat] :
              /\ f[0] = a
              /\ \A i \in 1..(m - 1) : f[i] = g[<<i, f[i - 1]>>]
      BY <1>2
    <2> DEFINE h == [i \in 0..m |-> IF i = m THEN g[<<m, f[m - 1]>>] ELSE f[i]]
    <2>2. g[<<m, f[m - 1]>>] \in Nat
      BY <2>1
    <2>3. h \in [0..m -> Nat]
      BY <2>2
    <2>4. h[0] = a
      BY <2>1
    <2>5. ASSUME NEW i \in 1..m PROVE h[i] = g[<<i, h[i - 1]>>]
      <3>1. h[i - 1] = f[i - 1]
        OBVIOUS
      <3>2. h[i] = IF i = m THEN g[<<m, f[m - 1]>>] ELSE f[i]
        OBVIOUS
      <3>3. i # m => i \in 1..(m - 1)
        OBVIOUS
      <3> HIDE DEF h
      <3> QED BY <2>1, <3>1, <3>2, <3>3
    <2> HIDE DEF h
    <2>6. Upto(m)
      BY <2>3, <2>4, <2>5, Zenon
    <2>7. m \in 0..n
      OBVIOUS
    <2> HIDE DEF Upto
    <2> QED BY <2>6, <2>7
  <1> HIDE DEF M
  <1>3. n \in M
    BY <1>1, <1>2, Induction
  <1> QED BY <1>3 DEF M

-----------------------------------------------------------------------------
(* Structs.                                                                *)

IsType(type) ==
    \E members : \E size \in Nat, align \in 1..8 :
        type = [size |-> size, align |-> align, members |-> members]

LEMMA ScalarIsType ==
    ASSUME NEW size \in 1..8
    PROVE  IsType(Scalar(size)) /\ Scalar(size).size = size
  <1>1. /\ Scalar(size) = [size |-> size, align |-> size, members |-> <<>>]
        /\ size \in Nat
    BY DEF Scalar
  <1>2. IsType(Scalar(size))
    BY <1>1, Zenon DEF IsType
  <1>3. Scalar(size).size = size
    BY <1>1
  <1> QED BY <1>2, <1>3

LEMMA ArrayIsType ==
    ASSUME NEW type, IsType(type), NEW length \in Nat
    PROVE  IsType(Array(type, length))
  <1>0. PICK members : \E size \in Nat, align \in 1..8 :
            type = [size |-> size, align |-> align, members |-> members]
    BY DEF IsType
  <1>1. PICK size \in Nat, align \in 1..8 :
            type = [size |-> size, align |-> align, members |-> members]
    BY <1>0
  <1>2. Array(type, length) = [size |-> length * size, align |-> align, members |-> members]
    BY <1>1 DEF Array
  <1>3. length * size \in Nat
    OBVIOUS
  <1> QED BY <1>2, <1>3 DEF IsType

LEMMA MaxOf ==
    ASSUME NEW S \in SUBSET (1..8), S # {}
    PROVE  Max(S) \in S
  <1> DEFINE T == {n \in 0..8 : \A x \in S : x <= n}
  <1>1. T # {}
    <2>1. 8 \in T
      OBVIOUS
    <2> QED BY <2>1
  <1>0. T \subseteq Nat
    OBVIOUS
  <1> HIDE DEF T
  <1>2. PICK n \in T : \A m \in T : ~ (<<m, n>> \in OpToRel(<, Nat))
    BY <1>0, <1>1, WFMin, NatLessThanWellFounded
  <1>3. \A m \in T : ~ (m < n)
    BY <1>0, <1>2 DEF OpToRel
  <1>4. n \in S
    <2> SUFFICES ASSUME n \notin S PROVE FALSE
      OBVIOUS
    <2>1. n \in 0..8 /\ \A x \in S : x \in 1..8 /\ x <= n /\ x # n
      BY DEF T
    <2>2. PICK x \in S : TRUE
      OBVIOUS
    <2>3. n - 1 \in 0..8
      BY <2>1, <2>2
    <2>4. \A y \in S : y <= n - 1
      BY <2>1
    <2>5. n - 1 \in T
      BY <2>3, <2>4 DEF T
    <2> QED BY <1>3, <2>1, <2>5
  <1>5. \A x \in S : n >= x
    BY DEF T
  <1> QED BY <1>4, <1>5 DEF Max

LEMMA AlignedAfter ==
    ASSUME NEW offset \in Nat, NEW align \in 1..8
    PROVE  Aligned(offset, align) \in Nat /\ Aligned(offset, align) >= offset
  <1> DEFINE n == offset + align - 1
  <1>1. n % align \in 0..(align - 1) /\ n \div align \in Int /\ n = align * (n \div align) + (n % align)
    BY Divide
  <1>2. (n \div align) * align = n - (n % align)
    BY <1>1
  <1> QED BY <1>1, <1>2 DEF Aligned

LEMMA TypeFields ==
    ASSUME NEW type, IsType(type)
    PROVE  type.size \in Nat /\ type.align \in 1..8
  <1>0. PICK members : \E size \in Nat, align \in 1..8 :
            type = [size |-> size, align |-> align, members |-> members]
    BY DEF IsType
  <1>1. PICK size \in Nat, align \in 1..8 :
            type = [size |-> size, align |-> align, members |-> members]
    BY <1>0
  <1> QED BY <1>1

LEMMA EndsOf ==
    ASSUME NEW members, Len(members) \in Nat, \A i \in 1..Len(members) : IsType(members[i][2])
    PROVE  /\ Ends(members) \in [0..Len(members) -> Nat]
           /\ \A i \in 1..Len(members) :
                 Ends(members)[i] - members[i][2].size >= Ends(members)[i - 1]
  <1> DEFINE n == Len(members)
             Step(i, end) == Aligned(end, members[i][2].align) + members[i][2].size
             g == [x \in (1..n) \X Nat |-> Step(x[1], x[2])]
             Ending(f) == f = [i \in 0..n |-> IF i = 0 THEN 0 ELSE Step(i, f[i - 1])]
  <1>1. ASSUME NEW i \in 1..n, NEW end \in Nat
        PROVE  Step(i, end) \in Nat /\ Step(i, end) - members[i][2].size >= end
    <2>1. members[i][2].size \in Nat /\ members[i][2].align \in 1..8
      BY TypeFields
    <2>2. Aligned(end, members[i][2].align) \in Nat /\ Aligned(end, members[i][2].align) >= end
      BY <2>1, AlignedAfter
    <2> QED BY <2>1, <2>2
  <1> HIDE DEF Step, n
  <1>2. g \in [(1..n) \X Nat -> Nat]
    BY <1>1
  <1>3. \A i \in 1..n, end \in Nat : g[<<i, end>>] = Step(i, end)
    OBVIOUS
  <1>4. n \in Nat /\ 0 \in Nat
    BY DEF n
  <1> HIDE DEF g
  <1>5. PICK f \in [0..n -> Nat] : f[0] = 0 /\ \A i \in 1..n : f[i] = g[<<i, f[i - 1]>>]
    BY <1>2, <1>4, Recursion
  <1>6. \A i \in 1..n : f[i] = Step(i, f[i - 1])
    <2> SUFFICES ASSUME NEW i \in 1..n PROVE f[i] = Step(i, f[i - 1])
      OBVIOUS
    <2>1. f[i - 1] \in Nat
      BY <1>4, <1>5
    <2> QED BY <1>3, <1>5, <2>1
  <1>7. f = [i \in 0..n |-> IF i = 0 THEN 0 ELSE Step(i, f[i - 1])]
    <2>1. \A i \in 0..n : i = 0 \/ i \in 1..n
      BY <1>4
    <2>2. \A i \in 0..n : f[i] = IF i = 0 THEN 0 ELSE Step(i, f[i - 1])
      BY <1>5, <1>6, <2>1
    <2> QED BY <1>5, <2>2
  <1>8. Ends(members) = CHOOSE end : Ending(end)
    BY DEF Ends, Step, n
  <1>9. Ending(Ends(members))
    BY <1>7, <1>8
  <1> DEFINE end == Ends(members)
  <1> HIDE DEF end
  <1>10. end = [i \in 0..n |-> IF i = 0 THEN 0 ELSE Step(i, end[i - 1])]
    BY <1>9 DEF end
  <1>11. /\ end[0] = 0
         /\ \A i \in 1..n : end[i] = Step(i, end[i - 1]) /\ i - 1 \in 0..n
         /\ end = [i \in 0..n |-> end[i]]
    <2> DEFINE Rule(i) == IF i = 0 THEN 0 ELSE Step(i, end[i - 1])
    <2>1. end = [i \in 0..n |-> Rule(i)]
      BY <1>10
    <2> HIDE DEF Rule
    <2>2. DOMAIN end = 0..n /\ \A i \in 0..n : end[i] = Rule(i)
      BY <2>1
    <2>3. /\ 0 \in 0..n
          /\ \A i \in 1..n : i \in 0..n /\ i # 0 /\ i - 1 \in 0..n
      BY <1>4
    <2>4. end = [i \in 0..n |-> end[i]]
      BY <2>1, <2>2
    <2> QED BY <2>2, <2>3, <2>4 DEF Rule
  <1>12. 0..n \subseteq {i \in 0..n : end[i] \in Nat}
    <2> DEFINE S == {i \in 0..n : end[i] \in Nat}
    <2>1. 0 \in S /\ \A i \in 1..n : i - 1 \in S => i \in S
      BY <1>1, <1>4, <1>11
    <2> HIDE DEF S
    <2>2. 0..n \subseteq S
      BY <1>4, <2>1, Induction
    <2> QED BY <2>2 DEF S
  <1>13. end \in [0..n -> Nat]
    BY <1>11, <1>12
  <1>14. \A i \in 1..n : end[i] - members[i][2].size >= end[i - 1]
    BY <1>1, <1>11, <1>12
  <1> QED BY <1>13, <1>14 DEF end, n

Entries(s) == {s[i] : i \in DOMAIN s}

\* Names and types, the names not the one that stands for none.
Named(E) == {e \in E : e[1] # Unnamed}

\* The members that a program declares, E the ones with names.
Declares(members, E) ==
    /\ members \in Seq(Entries(members))
    /\ Entries(members) # {}
    /\ \A e \in Entries(members) : e = <<e[1], e[2]>> /\ IsType(e[2])
    /\ E = Named(Entries(members))

\* The struct has these members, with room for each.
Laid(struct, E) ==
    LET Place(name) == struct.members[name]
    IN  /\ IsType(struct)
        /\ DOMAIN struct.members = {e[1] : e \in E}
        /\ \A name \in DOMAIN struct.members :
              /\ <<name, Place(name).type>> \in E
              /\ Place(name).at \in Nat
              /\ Place(name).at + Place(name).type.size <= struct.size
        /\ \A m, n \in DOMAIN struct.members :
              \/ m = n
              \/ Place(m).at + Place(m).type.size <= Place(n).at
              \/ Place(n).at + Place(n).type.size <= Place(m).at

\* Struct keeps the declared members apart and inside it.
LEMMA StructIsLaid ==
    ASSUME NEW members, NEW E, Declares(members, E)
    PROVE  Laid(Struct(members), E)
  <1> DEFINE n == Len(members)
             Type(i) == members[i][2]
             end == Ends(members)
             aligns == {Type(i).align : i \in DOMAIN members}
             align == Max(aligns)
             names == {members[i][1] : i \in DOMAIN members} \ {Unnamed}
             Position(name) == CHOOSE i \in DOMAIN members : members[i][1] = name
             places == [name \in names |->
                           [at |-> end[Position(name)] - Type(Position(name)).size,
                            type |-> Type(Position(name))]]
             size == Aligned(end[n], align)
  <1>1. /\ n \in Nat \ {0} /\ DOMAIN members = 1..n
        /\ \A i \in 1..n : members[i] \in Entries(members)
    BY DEF Entries, Declares
  <1>2. Struct(members) = [size |-> size, align |-> align, members |-> places]
    BY DEF Struct
  <1>3. \A i \in 1..n : /\ IsType(Type(i)) /\ Type(i).size \in Nat /\ Type(i).align \in 1..8
                        /\ members[i] = <<members[i][1], Type(i)>>
    BY <1>1, TypeFields DEF Declares
  <1> HIDE DEF Type
  <1>4. /\ end \in [0..n -> Nat]
        /\ \A i \in 1..n : end[i] - Type(i).size >= end[i - 1]
    BY <1>1, <1>3, EndsOf DEF Type
  <1>5. align \in 1..8
    <2>1. aligns \in SUBSET (1..8) /\ aligns # {}
      BY <1>1, <1>3
    <2> HIDE DEF aligns
    <2> QED BY <2>1, MaxOf
  <1>6. \A i, j \in 0..n : i <= j => end[i] <= end[j]
    <2> SUFFICES ASSUME NEW i \in 0..n PROVE \A j \in 0..n : i <= j => end[i] <= end[j]
      OBVIOUS
    <2> DEFINE S == {j \in 0..n : i <= j => end[i] <= end[j]}
    <2> HIDE DEF end
    <2>1. 0 \in S
      BY <1>1, <1>4
    <2>2. ASSUME NEW j \in 1..n, j - 1 \in S PROVE j \in S
      <3>1. j \in 0..n /\ j - 1 \in 0..n
        BY <1>1
      <3>2. end[i] \in Nat /\ end[j] \in Nat /\ end[j - 1] \in Nat /\ Type(j).size \in Nat
        BY <1>3, <1>4, <3>1
      <3>3. end[j] >= end[j - 1]
        BY <1>4, <3>2
      <3>4. i <= j => i <= j - 1 \/ i = j
        BY <1>1
      <3> QED BY <2>2, <3>1, <3>2, <3>3, <3>4
    <2> HIDE DEF S
    <2>3. 0..n \subseteq S
      BY <1>1, <2>1, <2>2, Induction
    <2> QED BY <2>3 DEF S
  <1> HIDE DEF end, aligns, align, n
  <1>7. ASSUME NEW name \in names
        PROVE  Position(name) \in 1..n /\ members[Position(name)][1] = name
    BY <1>1
  <1>8. /\ end[n] \in Nat /\ size \in Nat /\ size >= end[n]
    <2>1. end[n] \in Nat
      BY <1>1, <1>4
    <2> QED BY <1>5, <2>1, AlignedAfter
  <1>9. IsType(Struct(members))
    BY <1>2, <1>5, <1>8, Zenon DEF IsType
  <1>10. DOMAIN places = {e[1] : e \in E}
    BY DEF Entries, Declares, Named
  <1> HIDE DEF Position, size, names
  <1>11. ASSUME NEW name \in names
         PROVE  /\ places[name].type = Type(Position(name))
                /\ places[name].at = end[Position(name)] - Type(Position(name)).size
                /\ places[name].at \in Nat
                /\ places[name].at >= end[Position(name) - 1]
                /\ places[name].at + places[name].type.size = end[Position(name)]
    <2>1. /\ places[name].type = Type(Position(name))
          /\ places[name].at = end[Position(name)] - Type(Position(name)).size
      OBVIOUS
    <2> HIDE DEF places
    <2>2. /\ Position(name) \in 1..n /\ Position(name) \in 0..n /\ Position(name) - 1 \in 0..n
      BY <1>1, <1>7
    <2>3. /\ end[Position(name)] \in Nat /\ end[Position(name) - 1] \in Nat
          /\ Type(Position(name)).size \in Nat
          /\ end[Position(name)] - Type(Position(name)).size >= end[Position(name) - 1]
      BY <1>3, <1>4, <2>2
    <2> QED BY <2>1, <2>3
  <1> HIDE DEF places
  <1>12. ASSUME NEW name \in names
         PROVE  /\ <<name, places[name].type>> \in E
                /\ places[name].at + places[name].type.size <= size
    <2>1. <<name, places[name].type>> = members[Position(name)]
      BY <1>3, <1>7, <1>11
    <2>2. end[Position(name)] <= end[n] /\ end[Position(name)] \in Nat
      BY <1>1, <1>4, <1>6, <1>7
    <2>3. places[name].at + places[name].type.size <= size
      BY <1>8, <1>11, <2>2
    <2>4. name # Unnamed
      BY DEF names
    <2> QED BY <1>1, <1>7, <2>1, <2>3, <2>4 DEF Declares, Named
  <1>13. ASSUME NEW l \in names, NEW m \in names, l # m
         PROVE  \/ places[l].at + places[l].type.size <= places[m].at
                \/ places[m].at + places[m].type.size <= places[l].at
    <2>1. Position(l) # Position(m)
      BY <1>7, <1>13
    <2>2. ASSUME NEW i \in 1..n, NEW j \in 1..n, i < j PROVE end[i] <= end[j - 1]
      BY <1>1, <1>6, <2>2
    <2>3. ASSUME NEW name \in names
          PROVE  end[Position(name)] \in Nat /\ end[Position(name) - 1] \in Nat
      <3>1. Position(name) \in 0..n /\ Position(name) - 1 \in 0..n
        BY <1>1, <1>7
      <3> QED BY <1>4, <3>1
    <2>4. ASSUME NEW a \in names, NEW b \in names, Position(a) < Position(b)
          PROVE  places[a].at + places[a].type.size <= places[b].at
      <3>1. Position(a) \in 1..n /\ Position(b) \in 1..n
        BY <1>7
      <3>2. end[Position(a)] <= end[Position(b) - 1]
        BY <2>2, <2>4, <3>1
      <3>3. /\ places[a].at + places[a].type.size = end[Position(a)]
            /\ places[b].at >= end[Position(b) - 1] /\ places[b].at \in Nat
        BY <1>11
      <3> QED BY <2>3, <3>2, <3>3
    <2>5. Position(l) < Position(m) \/ Position(m) < Position(l)
      BY <1>1, <1>7, <2>1
    <2> QED BY <2>4, <2>5
  <1>14. DOMAIN places = names
    BY DEF places
  <1>15. Struct(members).members = places /\ Struct(members).size = size
    BY <1>2
  <1>16. names = {e[1] : e \in E}
    BY <1>10, <1>14
  <1> QED BY <1>9, <1>11, <1>12, <1>13, <1>14, <1>15, <1>16 DEF Laid

-----------------------------------------------------------------------------
(* What the declarations that are joined declare.                          *)

LEMMA EntriesOfBoth ==
    ASSUME NEW E, NEW s \in Seq(E), NEW t \in Seq(E)
    PROVE  s \o t \in Seq(E) /\ Entries(s \o t) = Entries(s) \cup Entries(t)
  <1> DEFINE u == s \o t
  <1>1. /\ u \in Seq(E) /\ DOMAIN s = 1..Len(s) /\ DOMAIN t = 1..Len(t)
        /\ DOMAIN u = 1..(Len(s) + Len(t)) /\ Len(s) \in Nat /\ Len(t) \in Nat
        /\ \A i \in 1..Len(s) : u[i] = s[i]
        /\ \A i \in 1..Len(t) : u[Len(s) + i] = t[i]
    OBVIOUS
  <1> HIDE DEF u
  <1>2. ASSUME NEW e \in Entries(u) PROVE e \in Entries(s) \cup Entries(t)
    <2>1. PICK i \in 1..(Len(s) + Len(t)) : e = u[i]
      BY <1>1 DEF Entries
    <2>2. CASE i <= Len(s)
      <3>1. i \in 1..Len(s)
        BY <1>1, <2>2
      <3>2. e = s[i] /\ i \in DOMAIN s
        BY <1>1, <2>1, <3>1
      <3> QED BY <3>2 DEF Entries
    <2>3. CASE i > Len(s)
      <3>1. i - Len(s) \in 1..Len(t) /\ Len(s) + (i - Len(s)) = i
        BY <1>1, <2>3
      <3>2. e = t[i - Len(s)] /\ i - Len(s) \in DOMAIN t
        BY <1>1, <2>1, <3>1
      <3> QED BY <3>2 DEF Entries
    <2> QED BY <1>1, <2>2, <2>3
  <1>3. ASSUME NEW i \in 1..Len(s) PROVE s[i] \in Entries(u)
    <2>1. i \in DOMAIN u /\ u[i] = s[i]
      BY <1>1
    <2> QED BY <2>1 DEF Entries
  <1>4. ASSUME NEW i \in 1..Len(t) PROVE t[i] \in Entries(u)
    <2>1. Len(s) + i \in DOMAIN u /\ u[Len(s) + i] = t[i]
      BY <1>1
    <2> QED BY <2>1 DEF Entries
  <1>5. Entries(s) \cup Entries(t) \subseteq Entries(u)
    BY <1>1, <1>3, <1>4 DEF Entries
  <1> QED BY <1>1, <1>2, <1>5 DEF u

LEMMA Joined ==
    ASSUME NEW s, NEW t, NEW D, NEW E, Declares(s, D), Declares(t, E)
    PROVE  Declares(s \o t, D \cup E)
  <1> DEFINE F == Entries(s) \cup Entries(t)
  <1>1. s \in Seq(F) /\ t \in Seq(F)
    <2>1. s \in Seq(Entries(s)) /\ t \in Seq(Entries(t))
      BY DEF Declares
    <2> QED BY <2>1
  <1> HIDE DEF F
  <1>2. s \o t \in Seq(F) /\ Entries(s \o t) = Entries(s) \cup Entries(t)
    BY <1>1, EntriesOfBoth
  <1> QED BY <1>2 DEF Declares, Named, F

LEMMA OfDeclares ==
    ASSUME NEW N, Unnamed \notin N, NEW type, IsType(type), NEW names \in Seq(N), names # <<>>
    PROVE  Declares(Of(type, names), {<<name, type>> : name \in Entries(names)})
  <1> DEFINE s == Of(type, names)
             E == {<<name, type>> : name \in Entries(names)}
  <1>1. s = [i \in 1..Len(names) |-> <<names[i], type>>] /\ DOMAIN names = 1..Len(names)
        /\ Len(names) \in Nat /\ Len(names) # 0
    BY DEF Of
  <1>2. \A i \in 1..Len(names) : <<names[i], type>> \in E /\ names[i] # Unnamed
    BY <1>1 DEF Entries
  <1>3. s \in Seq(E) /\ Entries(s) = E
    BY <1>1, <1>2 DEF Entries
  <1>4. E # {}
    <2>1. 1 \in 1..Len(names)
      BY <1>1
    <2> QED BY <1>2, <2>1
  <1>5. \A e \in E : e = <<e[1], e[2]>> /\ e[2] = type /\ e[1] # Unnamed
    BY <1>1, <1>2 DEF Entries
  <1> HIDE DEF E, s
  <1>6. Declares(s, E)
    BY <1>3, <1>4, <1>5 DEF Declares, Named
  <1> QED BY <1>6 DEF s, E

\* Members without names.
LEMMA OthersDeclare ==
    ASSUME NEW type, IsType(type), NEW count \in Nat \ {0}
    PROVE  Declares(Others(type, count), {})
  <1>1. Others(type, count) = [i \in 1..count |-> <<Unnamed, type>>]
    BY DEF Others
  <1>2. \A n \in Nat \ {0} : 1 \in 1..n
    OBVIOUS
  <1>3. 1 \in 1..count
    BY <1>2
  <1> DEFINE s == [i \in 1..count |-> <<Unnamed, type>>]
             E == {<<Unnamed, type>>}
  <1>4. s \in Seq(E)
    OBVIOUS
  <1>5. DOMAIN s = 1..count /\ \A i \in 1..count : s[i] = <<Unnamed, type>>
    OBVIOUS
  <1> HIDE DEF s
  <1>6. Entries(s) = E
    BY <1>3, <1>5 DEF Entries
  <1>7. \A e \in E : e = <<e[1], e[2]>> /\ e[2] = type /\ e[1] = Unnamed
    OBVIOUS
  <1>8. E # {}
    OBVIOUS
  <1> HIDE DEF E
  <1>9. Declares(s, {})
    BY <1>4, <1>6, <1>7, <1>8 DEF Declares, Named
  <1> QED BY <1>1, <1>9 DEF s

LEMMA NamesEntries ==
    ASSUME NEW N, NEW k \in N, NEW l \in N, NEW m \in N, NEW n \in N
    PROVE  /\ <<k>> \in Seq(N) /\ Entries(<<k>>) = {k}
           /\ <<k, l>> \in Seq(N) /\ Entries(<<k, l>>) = {k, l}
           /\ <<k, l, m>> \in Seq(N) /\ Entries(<<k, l, m>>) = {k, l, m}
           /\ <<k, l, m, n>> \in Seq(N) /\ Entries(<<k, l, m, n>>) = {k, l, m, n}
  <1>1. 1..1 = {1} /\ 1..2 = {1, 2} /\ 1..3 = {1, 2, 3} /\ 1..4 = {1, 2, 3, 4}
    OBVIOUS
  <1>2. /\ <<k>> \in Seq(N) /\ <<k, l>> \in Seq(N)
        /\ <<k, l, m>> \in Seq(N) /\ <<k, l, m, n>> \in Seq(N)
    OBVIOUS
  <1>3. Entries(<<k>>) = {k}
    BY <1>1 DEF Entries
  <1>4. Entries(<<k, l>>) = {k, l}
    BY <1>1 DEF Entries
  <1>5. Entries(<<k, l, m>>) = {k, l, m}
    BY <1>1 DEF Entries
  <1>6. Entries(<<k, l, m, n>>) = {k, l, m, n}
    BY <1>1 DEF Entries
  <1> QED BY <1>2, <1>3, <1>4, <1>5, <1>6

\* The members of one type.
All(type, names) == {<<name, type>> : name \in names}

LEMMA OfNames ==
    ASSUME NEW type, IsType(type), NEW k, NEW l, NEW m, NEW n, Unnamed \notin {k, l, m, n}
    PROVE  /\ Declares(Of(type, <<k>>), All(type, {k}))
           /\ Declares(Of(type, <<k, l>>), All(type, {k, l}))
           /\ Declares(Of(type, <<k, l, m>>), All(type, {k, l, m}))
           /\ Declares(Of(type, <<k, l, m, n>>), All(type, {k, l, m, n}))
  <1> DEFINE N == {k, l, m, n}
  <1>1. k \in N /\ l \in N /\ m \in N /\ n \in N /\ Unnamed \notin N
    OBVIOUS
  <1> HIDE DEF N
  <1>2. ASSUME NEW names \in Seq(N), names # <<>>
        PROVE  Declares(Of(type, names), All(type, Entries(names)))
    BY <1>1, <1>2, OfDeclares DEF All
  <1>3. /\ <<k>> \in Seq(N) /\ Entries(<<k>>) = {k}
        /\ <<k, l>> \in Seq(N) /\ Entries(<<k, l>>) = {k, l}
        /\ <<k, l, m>> \in Seq(N) /\ Entries(<<k, l, m>>) = {k, l, m}
        /\ <<k, l, m, n>> \in Seq(N) /\ Entries(<<k, l, m, n>>) = {k, l, m, n}
    BY <1>1, NamesEntries
  <1>4. <<k>> # <<>> /\ <<k, l>> # <<>> /\ <<k, l, m>> # <<>> /\ <<k, l, m, n>> # <<>>
    OBVIOUS
  <1> HIDE DEF All
  <1> QED BY <1>2, <1>3, <1>4

-----------------------------------------------------------------------------
(* The structs of ENet.                                                    *)

LEMMA ScalarTypes ==
    ASSUME NEW p \in Platform
    PROVE  /\ IsType(uint8) /\ IsType(uint16) /\ IsType(uint32) /\ IsType(int)
           /\ IsType(size_t(p)) /\ IsType(pointer(p)) /\ IsType(enetSocket(p))
           /\ uint16.size = 2 /\ uint32.size = 4
           /\ size_t(p).size \in 1..8 /\ pointer(p).size \in 1..8
  <1>1. p.word \in 1..8
    BY DEF Platform
  <1>2. \A size \in 1..8 : IsType(Scalar(size)) /\ Scalar(size).size = size
    BY ScalarIsType
  <1>3. 1 \in 1..8 /\ 2 \in 1..8 /\ 4 \in 1..8
    OBVIOUS
  <1> QED BY <1>1, <1>2, <1>3 DEF uint8, uint16, uint32, int, size_t, pointer, enetSocket

AddressMembers == All(uint32, {"host"}) \cup All(uint16, {"port"})

LEMMA AddressLaid == Laid(enetAddress, AddressMembers)
  <1>1. IsType(uint32) /\ IsType(uint16)
    <2>1. [word |-> 4, windows |-> FALSE] \in Platform
      BY DEF Platform
    <2> QED BY <2>1, ScalarTypes
  <1>2. "host" # Unnamed /\ "port" # Unnamed
    BY DEF Unnamed
  <1>3. Declares(Of(uint32, <<"host">>), All(uint32, {"host"}))
    BY <1>1, <1>2, OfNames
  <1>4. Declares(Of(uint16, <<"port">>), All(uint16, {"port"}))
    BY <1>1, <1>2, OfNames
  <1>5. Declares(Of(uint32, <<"host">>) \o Of(uint16, <<"port">>), AddressMembers)
    BY <1>3, <1>4, Joined DEF AddressMembers
  <1> QED BY <1>5, StructIsLaid DEF enetAddress

LEMMA JoinedOthers ==
    ASSUME NEW s, NEW D, Declares(s, D), NEW type, IsType(type), NEW count \in Nat \ {0}
    PROVE  Declares(s \o Others(type, count), D)
  <1>1. Declares(Others(type, count), {})
    BY OthersDeclare
  <1> DEFINE t == Others(type, count)
             E == {}
  <1> HIDE DEF t, E
  <1>2. Declares(s \o t, D \cup E)
    BY <1>1, Joined DEF t, E
  <1>3. D \cup E = D
    BY DEF E
  <1> QED BY <1>2, <1>3 DEF t

BufferMembers(p) == All(pointer(p), {"data"}) \cup All(size_t(p), {"dataLength"})

LEMMA BufferLaid ==
    ASSUME NEW p \in Platform
    PROVE  Laid(enetBuffer(p), BufferMembers(p))
  <1> DEFINE data == Of(pointer(p), <<"data">>)
             dataLength == Of(size_t(p), <<"dataLength">>)
             D == All(pointer(p), {"data"})
             E == All(size_t(p), {"dataLength"})
  <1>1. "data" # Unnamed /\ "dataLength" # Unnamed
    BY DEF Unnamed
  <1>2. Declares(data, D)
    BY <1>1, ScalarTypes, OfNames
  <1>3. Declares(dataLength, E)
    BY <1>1, ScalarTypes, OfNames
  <1>4. enetBuffer(p) = Struct(IF p.windows THEN dataLength \o data ELSE data \o dataLength)
    BY DEF enetBuffer
  <1>5. BufferMembers(p) = D \cup E /\ BufferMembers(p) = E \cup D
    BY DEF BufferMembers
  <1> HIDE DEF data, dataLength, D, E
  <1>6. Declares(data \o dataLength, D \cup E)
    BY <1>2, <1>3, Joined
  <1>7. Declares(dataLength \o data, E \cup D)
    BY <1>2, <1>3, Joined
  <1>8. Laid(Struct(data \o dataLength), BufferMembers(p))
    BY <1>5, <1>6, StructIsLaid
  <1>9. Laid(Struct(dataLength \o data), BufferMembers(p))
    BY <1>5, <1>7, StructIsLaid
  <1> QED BY <1>4, <1>8, <1>9

PacketMembers(p) ==
    All(size_t(p), {"referenceCount"})
    \cup All(uint32, {"flags"})
    \cup All(pointer(p), {"data"})
    \cup All(size_t(p), {"dataLength"})
    \cup All(pointer(p), {"freeCallback", "userData"})

LEMMA PacketLaid ==
    ASSUME NEW p \in Platform
    PROVE  Laid(enetPacket(p), PacketMembers(p))
  <1> DEFINE s1 == Of(size_t(p), <<"referenceCount">>)
             s2 == Of(uint32, <<"flags">>)
             s3 == Of(pointer(p), <<"data">>)
             s4 == Of(size_t(p), <<"dataLength">>)
             s5 == Of(pointer(p), <<"freeCallback", "userData">>)
             E1 == All(size_t(p), {"referenceCount"})
             E2 == All(uint32, {"flags"})
             E3 == All(pointer(p), {"data"})
             E4 == All(size_t(p), {"dataLength"})
             E5 == All(pointer(p), {"freeCallback", "userData"})
  <1>0. Unnamed \notin {"referenceCount", "flags", "data", "dataLength", "freeCallback", "userData"}
    BY DEF Unnamed
  <1>1. Declares(s1, E1)
    BY <1>0, ScalarTypes, OfNames
  <1>2. Declares(s2, E2)
    BY <1>0, ScalarTypes, OfNames
  <1>3. Declares(s3, E3)
    BY <1>0, ScalarTypes, OfNames
  <1>4. Declares(s4, E4)
    BY <1>0, ScalarTypes, OfNames
  <1>5. Declares(s5, E5)
    BY <1>0, ScalarTypes, OfNames
  <1>6. enetPacket(p) = Struct(s1 \o s2 \o s3 \o s4 \o s5)
    BY DEF enetPacket
  <1>7. PacketMembers(p) = E1 \cup E2 \cup E3 \cup E4 \cup E5
    BY DEF PacketMembers
  <1> HIDE DEF s1, s2, s3, s4, s5, E1, E2, E3, E4, E5
  <1>8. Declares(s1 \o s2 \o s3 \o s4 \o s5, E1 \cup E2 \cup E3 \cup E4 \cup E5)
    BY <1>1, <1>2, <1>3, <1>4, <1>5, Joined, Zenon
  <1> QED BY <1>6, <1>7, <1>8, StructIsLaid

LEMMA BufferIsType == \A p \in Platform : IsType(enetBuffer(p))
  BY BufferLaid DEF Laid

LEMMA AddressIsType == IsType(enetAddress)
  BY AddressLaid DEF Laid

LEMMA ArrayTypes ==
    ASSUME NEW p \in Platform
    PROVE  /\ IsType(enetListNode(p))
           /\ IsType(Array(uint32, UNSEQUENCED_WINDOW_WORDS))
           /\ IsType(Array(enetProtocol, ENET_PROTOCOL_MAXIMUM_PACKET_COMMANDS))
           /\ IsType(Array(enetBuffer(p), ENET_BUFFER_MAXIMUM))
           /\ IsType(Array(pointer(p), 4))
           /\ IsType(Array(uint8, 2 * ENET_PROTOCOL_MAXIMUM_MTU))
  <1>1. \A type : IsType(type) => \A length \in Nat : IsType(Array(type, length))
    BY ArrayIsType
  <1>2. /\ UNSEQUENCED_WINDOW_WORDS \in Nat /\ ENET_PROTOCOL_MAXIMUM_PACKET_COMMANDS \in Nat
        /\ ENET_BUFFER_MAXIMUM \in Nat /\ 2 * ENET_PROTOCOL_MAXIMUM_MTU \in Nat
        /\ 2 \in Nat /\ 4 \in Nat /\ 48 \in Nat
    BY DEF UNSEQUENCED_WINDOW_WORDS, ENET_PROTOCOL_MAXIMUM_PACKET_COMMANDS,
           ENET_BUFFER_MAXIMUM, ENET_PROTOCOL_MAXIMUM_MTU
  <1>3. IsType(enetProtocol)
    BY <1>1, <1>2, ScalarTypes DEF enetProtocol
  <1>4. IsType(enetListNode(p))
    BY <1>1, <1>2, ScalarTypes DEF enetListNode
  <1> QED BY <1>1, <1>2, <1>3, <1>4, ScalarTypes, BufferIsType

PeerMembers(p) ==
    All(enetAddress, {"address"})
    \cup All(size_t(p), {"channelCount"})
    \cup All(uint32, {"incomingBandwidth", "outgoingBandwidth"})
    \cup All(uint32, {"packetLoss"})
    \cup All(uint32, {"roundTripTime"})
    \cup All(uint32, {"mtu"})

LEMMA PeerLaid ==
    ASSUME NEW p \in Platform
    PROVE  Laid(enetPeer(p), PeerMembers(p))
  <1> DEFINE Passes(type, count) ==
                 \A s, D : Declares(s, D) => Declares(s \o Others(type, count), D)
             E1 == All(enetAddress, {"address"})
             E2 == All(size_t(p), {"channelCount"})
             E3 == All(uint32, {"incomingBandwidth", "outgoingBandwidth"})
             E4 == All(uint32, {"packetLoss"})
             E5 == All(uint32, {"roundTripTime"})
             E6 == All(uint32, {"mtu"})
             s1 == Others(enetListNode(p), 1) \o Others(pointer(p), 1) \o Others(uint16, 2)
                   \o Others(uint32, 1) \o Others(uint8, 2)
             s2 == s1 \o Of(enetAddress, <<"address">>)
             s3 == s2 \o Others(pointer(p), 1) \o Others(int, 1) \o Others(pointer(p), 1)
             s4 == s3 \o Of(size_t(p), <<"channelCount">>)
             s5 == s4 \o Of(uint32, <<"incomingBandwidth", "outgoingBandwidth">>)
             s6 == s5 \o Others(uint32, 11)
             s7 == s6 \o Of(uint32, <<"packetLoss">>)
             s8 == s7 \o Others(uint32, 16)
             s9 == s8 \o Of(uint32, <<"roundTripTime">>)
             s10 == s9 \o Others(uint32, 1)
             s11 == s10 \o Of(uint32, <<"mtu">>)
             s12 == s11 \o Others(uint32, 2) \o Others(uint16, 1) \o Others(enetListNode(p), 5)
                   \o Others(uint16, 4)
                   \o Others(Array(uint32, UNSEQUENCED_WINDOW_WORDS), 1)
                   \o Others(uint32, 1) \o Others(size_t(p), 1)
             F1 == {} \cup E1
             F2 == F1 \cup E2
             F3 == F2 \cup E3
             F4 == F3 \cup E4
             F5 == F4 \cup E5
             F6 == F5 \cup E6
  <1>1. Unnamed \notin {"address", "channelCount", "incomingBandwidth",
                        "outgoingBandwidth", "packetLoss", "roundTripTime", "mtu"}
    BY DEF Unnamed
  <1>2. /\ IsType(Array(uint32, UNSEQUENCED_WINDOW_WORDS))
        /\ IsType(enetAddress)
        /\ IsType(enetListNode(p))
        /\ IsType(int)
        /\ IsType(pointer(p))
        /\ IsType(size_t(p))
        /\ IsType(uint16)
        /\ IsType(uint32)
        /\ IsType(uint8)
    BY ScalarTypes, ArrayTypes, AddressIsType
  <1>3. /\ Passes(Array(uint32, UNSEQUENCED_WINDOW_WORDS), 1)
        /\ Passes(enetListNode(p), 1)
        /\ Passes(enetListNode(p), 5)
        /\ Passes(int, 1)
        /\ Passes(pointer(p), 1)
        /\ Passes(size_t(p), 1)
        /\ Passes(uint16, 1)
        /\ Passes(uint16, 2)
        /\ Passes(uint16, 4)
        /\ Passes(uint32, 1)
        /\ Passes(uint32, 2)
        /\ Passes(uint32, 11)
        /\ Passes(uint32, 16)
        /\ Passes(uint8, 2)
    BY <1>2, JoinedOthers
  <1>4. Declares(Of(enetAddress, <<"address">>), E1)
    BY <1>1, <1>2, OfNames
  <1>5. Declares(Of(size_t(p), <<"channelCount">>), E2)
    BY <1>1, <1>2, OfNames
  <1>6. Declares(Of(uint32, <<"incomingBandwidth", "outgoingBandwidth">>), E3)
    BY <1>1, <1>2, OfNames
  <1>7. Declares(Of(uint32, <<"packetLoss">>), E4)
    BY <1>1, <1>2, OfNames
  <1>8. Declares(Of(uint32, <<"roundTripTime">>), E5)
    BY <1>1, <1>2, OfNames
  <1>9. Declares(Of(uint32, <<"mtu">>), E6)
    BY <1>1, <1>2, OfNames
  <1>10. Declares(Others(enetListNode(p), 1), {})
    BY <1>2, OthersDeclare
  <1>11. enetPeer(p) = Struct(s12)
    BY DEF enetPeer
  <1>12. PeerMembers(p) = F6
    BY DEF PeerMembers
  <1> HIDE DEF E1, E2, E3, E4, E5, E6, F1, F2, F3, F4, F5, F6, s1, s2, s3, s4, s5,
               s6, s7, s8, s9, s10, s11, s12
  <1>13. Declares(s1, {})
    BY <1>3, <1>10, Zenon DEF s1
  <1>14. Declares(s2, F1)
    BY <1>4, <1>13, Joined, Zenon DEF s2, F1
  <1>15. Declares(s3, F1)
    BY <1>3, <1>14, Zenon DEF s3
  <1>16. Declares(s4, F2)
    BY <1>5, <1>15, Joined, Zenon DEF s4, F2
  <1>17. Declares(s5, F3)
    BY <1>6, <1>16, Joined, Zenon DEF s5, F3
  <1>18. Declares(s6, F3)
    BY <1>3, <1>17, Zenon DEF s6
  <1>19. Declares(s7, F4)
    BY <1>7, <1>18, Joined, Zenon DEF s7, F4
  <1>20. Declares(s8, F4)
    BY <1>3, <1>19, Zenon DEF s8
  <1>21. Declares(s9, F5)
    BY <1>8, <1>20, Joined, Zenon DEF s9, F5
  <1>22. Declares(s10, F5)
    BY <1>3, <1>21, Zenon DEF s10
  <1>23. Declares(s11, F6)
    BY <1>9, <1>22, Joined, Zenon DEF s11, F6
  <1>24. Declares(s12, F6)
    BY <1>3, <1>23, Zenon DEF s12
  <1> QED BY <1>11, <1>12, <1>24, StructIsLaid

HostMembers(p) ==
    All(enetAddress, {"address"})
    \cup All(uint32, {"incomingBandwidth", "outgoingBandwidth"})
    \cup All(pointer(p), {"peers"})
    \cup All(size_t(p), {"peerCount", "channelLimit"})
    \cup All(pointer(p), {"checksum"})
    \cup All(enetAddress, {"receivedAddress"})
    \cup All(pointer(p), {"receivedData"})
    \cup All(size_t(p), {"receivedDataLength"})
    \cup All(uint32, {"totalSentData", "totalSentPackets", "totalReceivedData", "totalReceivedPackets"})
    \cup All(pointer(p), {"intercept"})
    \cup All(size_t(p), {"duplicatePeers", "maximumPacketSize", "maximumWaitingData"})

LEMMA HostLaid ==
    ASSUME NEW p \in Platform
    PROVE  Laid(enetHost(p), HostMembers(p))
  <1> DEFINE Passes(type, count) ==
                 \A s, D : Declares(s, D) => Declares(s \o Others(type, count), D)
             E1 == All(enetAddress, {"address"})
             E2 == All(uint32, {"incomingBandwidth", "outgoingBandwidth"})
             E3 == All(pointer(p), {"peers"})
             E4 == All(size_t(p), {"peerCount", "channelLimit"})
             E5 == All(pointer(p), {"checksum"})
             E6 == All(enetAddress, {"receivedAddress"})
             E7 == All(pointer(p), {"receivedData"})
             E8 == All(size_t(p), {"receivedDataLength"})
             E9 == All(uint32, {"totalSentData", "totalSentPackets", "totalReceivedData",
                     "totalReceivedPackets"})
             E10 == All(pointer(p), {"intercept"})
             E11 == All(size_t(p), {"duplicatePeers", "maximumPacketSize", "maximumWaitingData"})
             s1 == Others(enetSocket(p), 1)
             s2 == s1 \o Of(enetAddress, <<"address">>)
             s3 == s2 \o Of(uint32, <<"incomingBandwidth", "outgoingBandwidth">>)
             s4 == s3 \o Others(uint32, 3) \o Others(int, 1)
             s5 == s4 \o Of(pointer(p), <<"peers">>)
             s6 == s5 \o Of(size_t(p), <<"peerCount", "channelLimit">>)
             s7 == s6 \o Others(uint32, 1) \o Others(enetListNode(p), 1) \o Others(uint32, 1)
                   \o Others(size_t(p), 1) \o Others(uint16, 1)
                   \o Others(Array(enetProtocol, ENET_PROTOCOL_MAXIMUM_PACKET_COMMANDS), 1)
                   \o Others(size_t(p), 1)
                   \o Others(Array(enetBuffer(p), ENET_BUFFER_MAXIMUM), 1)
                   \o Others(size_t(p), 1)
             s8 == s7 \o Of(pointer(p), <<"checksum">>)
             s9 == s8 \o Others(Array(pointer(p), 4), 1)
                   \o Others(Array(uint8, 2 * ENET_PROTOCOL_MAXIMUM_MTU), 1)
             s10 == s9 \o Of(enetAddress, <<"receivedAddress">>)
             s11 == s10 \o Of(pointer(p), <<"receivedData">>)
             s12 == s11 \o Of(size_t(p), <<"receivedDataLength">>)
             s13 == s12
                   \o Of(uint32, <<"totalSentData", "totalSentPackets",
                            "totalReceivedData", "totalReceivedPackets">>)
             s14 == s13 \o Of(pointer(p), <<"intercept">>)
             s15 == s14 \o Others(size_t(p), 2)
             s16 == s15
                   \o Of(size_t(p), <<"duplicatePeers", "maximumPacketSize",
                            "maximumWaitingData">>)
             F1 == {} \cup E1
             F2 == F1 \cup E2
             F3 == F2 \cup E3
             F4 == F3 \cup E4
             F5 == F4 \cup E5
             F6 == F5 \cup E6
             F7 == F6 \cup E7
             F8 == F7 \cup E8
             F9 == F8 \cup E9
             F10 == F9 \cup E10
             F11 == F10 \cup E11
  <1>1. Unnamed \notin {"address", "incomingBandwidth", "outgoingBandwidth",
                        "peers", "peerCount", "channelLimit", "checksum",
                        "receivedAddress", "receivedData", "receivedDataLength",
                        "totalSentData", "totalSentPackets", "totalReceivedData",
                        "totalReceivedPackets", "intercept", "duplicatePeers",
                        "maximumPacketSize", "maximumWaitingData"}
    BY DEF Unnamed
  <1>2. /\ IsType(Array(enetBuffer(p), ENET_BUFFER_MAXIMUM))
        /\ IsType(Array(enetProtocol, ENET_PROTOCOL_MAXIMUM_PACKET_COMMANDS))
        /\ IsType(Array(pointer(p), 4))
        /\ IsType(Array(uint8, 2 * ENET_PROTOCOL_MAXIMUM_MTU))
        /\ IsType(enetAddress)
        /\ IsType(enetListNode(p))
        /\ IsType(enetSocket(p))
        /\ IsType(int)
        /\ IsType(pointer(p))
        /\ IsType(size_t(p))
        /\ IsType(uint16)
        /\ IsType(uint32)
    BY ScalarTypes, ArrayTypes, AddressIsType, BufferIsType
  <1>3. /\ Passes(Array(enetBuffer(p), ENET_BUFFER_MAXIMUM), 1)
        /\ Passes(Array(enetProtocol, ENET_PROTOCOL_MAXIMUM_PACKET_COMMANDS), 1)
        /\ Passes(Array(pointer(p), 4), 1)
        /\ Passes(Array(uint8, 2 * ENET_PROTOCOL_MAXIMUM_MTU), 1)
        /\ Passes(enetListNode(p), 1)
        /\ Passes(enetSocket(p), 1)
        /\ Passes(int, 1)
        /\ Passes(size_t(p), 1)
        /\ Passes(size_t(p), 2)
        /\ Passes(uint16, 1)
        /\ Passes(uint32, 1)
        /\ Passes(uint32, 3)
    BY <1>2, JoinedOthers
  <1>4. Declares(Of(enetAddress, <<"address">>), E1)
    BY <1>1, <1>2, OfNames
  <1>5. Declares(Of(uint32, <<"incomingBandwidth", "outgoingBandwidth">>), E2)
    BY <1>1, <1>2, OfNames
  <1>6. Declares(Of(pointer(p), <<"peers">>), E3)
    BY <1>1, <1>2, OfNames
  <1>7. Declares(Of(size_t(p), <<"peerCount", "channelLimit">>), E4)
    BY <1>1, <1>2, OfNames
  <1>8. Declares(Of(pointer(p), <<"checksum">>), E5)
    BY <1>1, <1>2, OfNames
  <1>9. Declares(Of(enetAddress, <<"receivedAddress">>), E6)
    BY <1>1, <1>2, OfNames
  <1>10. Declares(Of(pointer(p), <<"receivedData">>), E7)
    BY <1>1, <1>2, OfNames
  <1>11. Declares(Of(size_t(p), <<"receivedDataLength">>), E8)
    BY <1>1, <1>2, OfNames
  <1>12. Declares(Of(uint32, <<"totalSentData", "totalSentPackets",
                                   "totalReceivedData", "totalReceivedPackets">>), E9)
    BY <1>1, <1>2, OfNames
  <1>13. Declares(Of(pointer(p), <<"intercept">>), E10)
    BY <1>1, <1>2, OfNames
  <1>14. Declares(Of(size_t(p), <<"duplicatePeers", "maximumPacketSize",
                                   "maximumWaitingData">>), E11)
    BY <1>1, <1>2, OfNames
  <1>15. Declares(Others(enetSocket(p), 1), {})
    BY <1>2, OthersDeclare
  <1>16. enetHost(p) = Struct(s16)
    BY DEF enetHost
  <1>17. HostMembers(p) = F11
    BY DEF HostMembers
  <1> HIDE DEF E1, E2, E3, E4, E5, E6, E7, E8, E9, E10, E11, F1, F2, F3, F4, F5, F6,
               F7, F8, F9, F10, F11, s1, s2, s3, s4, s5, s6, s7, s8, s9, s10, s11,
               s12, s13, s14, s15, s16
  <1>18. Declares(s1, {})
    BY <1>3, <1>15, Zenon DEF s1
  <1>19. Declares(s2, F1)
    BY <1>4, <1>18, Joined, Zenon DEF s2, F1
  <1>20. Declares(s3, F2)
    BY <1>5, <1>19, Joined, Zenon DEF s3, F2
  <1>21. Declares(s4, F2)
    BY <1>3, <1>20, Zenon DEF s4
  <1>22. Declares(s5, F3)
    BY <1>6, <1>21, Joined, Zenon DEF s5, F3
  <1>23. Declares(s6, F4)
    BY <1>7, <1>22, Joined, Zenon DEF s6, F4
  <1>24. Declares(s7, F4)
    BY <1>3, <1>23, Zenon DEF s7
  <1>25. Declares(s8, F5)
    BY <1>8, <1>24, Joined, Zenon DEF s8, F5
  <1>26. Declares(s9, F5)
    BY <1>3, <1>25, Zenon DEF s9
  <1>27. Declares(s10, F6)
    BY <1>9, <1>26, Joined, Zenon DEF s10, F6
  <1>28. Declares(s11, F7)
    BY <1>10, <1>27, Joined, Zenon DEF s11, F7
  <1>29. Declares(s12, F8)
    BY <1>11, <1>28, Joined, Zenon DEF s12, F8
  <1>30. Declares(s13, F9)
    BY <1>12, <1>29, Joined, Zenon DEF s13, F9
  <1>31. Declares(s14, F10)
    BY <1>13, <1>30, Joined, Zenon DEF s14, F10
  <1>32. Declares(s15, F10)
    BY <1>3, <1>31, Zenon DEF s15
  <1>33. Declares(s16, F11)
    BY <1>14, <1>32, Joined, Zenon DEF s16, F11
  <1> QED BY <1>16, <1>17, <1>33, StructIsLaid

-----------------------------------------------------------------------------
(* The accessors: each names the type that the member is declared with.    *)

\* A name has one type.
OneType(E) == \A d, e \in E : d[1] = e[1] => d[2] = e[2]

\* The accessors name the types of the declared members, or of those of an address.
Agree(p, accessors, E) ==
    \A a \in accessors :
        \/ \E name, type : /\ a = <<<<name>>, type>>
                           /\ <<name, type>> \in E
                           /\ type \in {uint32, size_t(p), pointer(p)}
        \/ \E name, inner, type : /\ a = <<<<name, inner>>, type>>
                                  /\ <<name, enetAddress>> \in E
                                  /\ <<inner, type>> \in AddressMembers

LEMMA AddressTypes ==
    /\ \A inner, type : <<inner, type>> \in AddressMembers
          => /\ inner \in DOMAIN enetAddress.members
             /\ enetAddress.members[inner].type = type
             /\ type.size \in 1..8
    /\ \A p \in Platform : enetAddress \notin {uint32, size_t(p), pointer(p)}
  <1>0. PICK p \in Platform : TRUE
    <2>1. [word |-> 4, windows |-> FALSE] \in Platform
      BY DEF Platform
    <2> QED BY <2>1
  <1>1. uint16.size = 2 /\ uint32.size = 4
    BY <1>0, ScalarTypes
  <1>2. /\ DOMAIN enetAddress.members = {e[1] : e \in AddressMembers}
        /\ \A name \in DOMAIN enetAddress.members :
               <<name, enetAddress.members[name].type>> \in AddressMembers
    BY AddressLaid DEF Laid
  <1>3. AddressMembers = {<<"host", uint32>>, <<"port", uint16>>}
    BY DEF AddressMembers, All
  <1>4. \A d, e \in AddressMembers : d[1] = e[1] => d[2] = e[2]
    BY <1>3
  <1>5. ASSUME NEW inner, NEW type, <<inner, type>> \in AddressMembers
        PROVE  /\ inner \in DOMAIN enetAddress.members
               /\ enetAddress.members[inner].type = type
               /\ type.size \in 1..8
    <2>1. inner \in DOMAIN enetAddress.members
      BY <1>2, <1>5
    <2>2. enetAddress.members[inner].type = type
      BY <1>2, <1>4, <1>5, <2>1
    <2>3. type = uint32 \/ type = uint16
      BY <1>3, <1>5
    <2> QED BY <1>1, <2>1, <2>2, <2>3
  <1>6. ASSUME NEW size PROVE enetAddress # Scalar(size)
    <2>1. "host" \in DOMAIN enetAddress.members
      BY <1>2, <1>3
    <2>2. Scalar(size).members = <<>>
      BY DEF Scalar
    <2>3. "host" \notin DOMAIN <<>>
      OBVIOUS
    <2> QED BY <2>1, <2>2, <2>3
  <1>7. \A q \in Platform : enetAddress \notin {uint32, size_t(q), pointer(q)}
    BY <1>6 DEF uint32, size_t, pointer
  <1> QED BY <1>5, <1>7

\* What the path of an accessor leads to.
Leads(struct, a) ==
    LET outer == struct.members[a[1][1]]
        inner == outer.type.members[a[1][2]]
    IN  /\ a = <<a[1], a[2]>>
        /\ a[1][1] \in DOMAIN struct.members
        /\ Member(struct, a[1]).type = a[2]
        /\ a[2].size \in 1..8
        /\ \/ /\ a[1] = <<a[1][1]>>
              /\ outer.type # enetAddress
              /\ Member(struct, a[1]) = outer
           \/ /\ a[1] = <<a[1][1], a[1][2]>>
              /\ outer.type = enetAddress
              /\ a[1][2] \in DOMAIN enetAddress.members
              /\ Member(struct, a[1]) = [at |-> outer.at + inner.at, type |-> inner.type]

\* The path of an accessor that names the declared type leads to a member.
LEMMA PathLeads ==
    ASSUME NEW p \in Platform, NEW struct, NEW E, Laid(struct, E), OneType(E),
           NEW accessors, Agree(p, accessors, E), NEW a \in accessors
    PROVE  Leads(struct, a)
  <1>1. /\ DOMAIN struct.members = {e[1] : e \in E}
        /\ \A name \in DOMAIN struct.members : <<name, struct.members[name].type>> \in E
    BY DEF Laid
  <1>2. ASSUME NEW name, NEW type, <<name, type>> \in E
        PROVE  name \in DOMAIN struct.members /\ struct.members[name].type = type
    <2>1. name \in DOMAIN struct.members
      BY <1>1, <1>2
    <2> QED BY <1>1, <1>2, <2>1 DEF OneType
  <1>3. CASE \E name, type : /\ a = <<<<name>>, type>>
                             /\ <<name, type>> \in E
                             /\ type \in {uint32, size_t(p), pointer(p)}
    <2>1. PICK name, type : /\ a = <<<<name>>, type>>
                            /\ <<name, type>> \in E
                            /\ type \in {uint32, size_t(p), pointer(p)}
      BY <1>3
    <2>2. name \in DOMAIN struct.members /\ struct.members[name].type = type
      BY <1>2, <2>1
    <2>3. a[1] = <<name>> /\ a[1][1] = name /\ a[2] = type /\ Len(a[1]) = 1
      BY <2>1
    <2>4. Member(struct, a[1]) = struct.members[name]
      BY <2>3 DEF Member
    <2>5. type.size \in 1..8
      BY <2>1, ScalarTypes
    <2>6. type # enetAddress
      BY <2>1, AddressTypes
    <2> QED BY <2>1, <2>2, <2>3, <2>4, <2>5, <2>6 DEF Leads
  <1>4. CASE \E name, inner, type : /\ a = <<<<name, inner>>, type>>
                                    /\ <<name, enetAddress>> \in E
                                    /\ <<inner, type>> \in AddressMembers
    <2>1. PICK name, inner, type : /\ a = <<<<name, inner>>, type>>
                                   /\ <<name, enetAddress>> \in E
                                   /\ <<inner, type>> \in AddressMembers
      BY <1>4
    <2>2. name \in DOMAIN struct.members /\ struct.members[name].type = enetAddress
      BY <1>2, <2>1
    <2>3. /\ a[1] = <<name, inner>> /\ a[1][1] = name /\ a[1][2] = inner
          /\ a[2] = type /\ Len(a[1]) = 2
      BY <2>1
    <2>4. Member(struct, a[1]) = [at |-> struct.members[name].at + enetAddress.members[inner].at,
                                  type |-> enetAddress.members[inner].type]
      BY <2>2, <2>3 DEF Member
    <2>5. /\ inner \in DOMAIN enetAddress.members
          /\ enetAddress.members[inner].type = type
          /\ type.size \in 1..8
      BY <2>1, AddressTypes
    <2> QED BY <2>1, <2>2, <2>3, <2>4, <2>5 DEF Leads
  <1> QED BY <1>3, <1>4 DEF Agree

\* Where in a struct the accessors of an object read and write.
Places(struct, accessors) ==
    LET At(a) == Member(struct, a[1]).at
    IN  /\ struct.size \in Nat
        /\ \A a \in accessors :
              /\ Member(struct, a[1]).type = a[2]
              /\ TypeOf(accessors, a[1]) = a[2]
              /\ At(a) \in Nat /\ a[2].size \in 1..8
              /\ At(a) + a[2].size <= struct.size
        /\ \A a, b \in accessors :
              \/ a[1] = b[1]
              \/ At(a) + a[2].size <= At(b)
              \/ At(b) + b[2].size <= At(a)

LEMMA AccessorsPlaces ==
    ASSUME NEW p \in Platform, NEW struct, NEW E, Laid(struct, E), OneType(E),
           NEW accessors, Agree(p, accessors, E)
    PROVE  Places(struct, accessors)
  <1> DEFINE At(a) == Member(struct, a[1]).at
             Outer(a) == struct.members[a[1][1]]
             Inner(a) == enetAddress.members[a[1][2]]
  <1>1. \A a \in accessors : Leads(struct, a)
    BY PathLeads
  <1>2. struct.size \in Nat
    BY TypeFields DEF Laid
  <1>3. ASSUME NEW a \in accessors
        PROVE  /\ Outer(a).at \in Nat /\ Outer(a).type.size \in Nat
               /\ Outer(a).at + Outer(a).type.size <= struct.size
               /\ At(a) \in Nat /\ a[2].size \in 1..8
               /\ Outer(a).at <= At(a)
               /\ At(a) + a[2].size <= Outer(a).at + Outer(a).type.size
    <2>1. Leads(struct, a)
      BY <1>1
    <2>2. Outer(a).at \in Nat /\ Outer(a).at + Outer(a).type.size <= struct.size
      BY <2>1 DEF Laid, Leads
    <2>3. CASE a[1] = <<a[1][1]>> /\ Outer(a).type # enetAddress /\ Member(struct, a[1]) = Outer(a)
      <3>1. Outer(a).type = a[2] /\ a[2].size \in 1..8 /\ At(a) = Outer(a).at
        BY <2>1, <2>3 DEF Leads
      <3> QED BY <2>2, <3>1
    <2>4. CASE /\ a[1] = <<a[1][1], a[1][2]>>
               /\ Outer(a).type = enetAddress
               /\ a[1][2] \in DOMAIN enetAddress.members
               /\ Member(struct, a[1]) = [at |-> Outer(a).at + Inner(a).at, type |-> Inner(a).type]
      <3>1. /\ Inner(a).at \in Nat
            /\ Inner(a).at + Inner(a).type.size <= enetAddress.size
        BY <2>4, AddressLaid DEF Laid
      <3>2. enetAddress.size \in Nat
        BY AddressIsType, TypeFields
      <3>3. At(a) = Outer(a).at + Inner(a).at /\ Inner(a).type = a[2] /\ a[2].size \in 1..8
        BY <2>1, <2>4 DEF Leads
      <3>4. Outer(a).type.size = enetAddress.size
        BY <2>4
      <3> HIDE DEF At, Outer, Inner
      <3> QED BY <2>2, <3>1, <3>2, <3>3, <3>4
    <2> QED BY <2>1, <2>3, <2>4 DEF Leads
  <1>4. ASSUME NEW a \in accessors PROVE TypeOf(accessors, a[1]) = a[2]
    <2> DEFINE b == CHOOSE accessor \in accessors : accessor[1] = a[1]
    <2>1. b \in accessors /\ b[1] = a[1]
      OBVIOUS
    <2>2. TypeOf(accessors, a[1]) = b[2]
      BY DEF TypeOf
    <2> HIDE DEF b
    <2>3. Member(struct, a[1]).type = a[2] /\ Member(struct, b[1]).type = b[2]
      BY <1>1, <2>1 DEF Leads
    <2> QED BY <2>1, <2>2, <2>3
  <1>5. ASSUME NEW a \in accessors, NEW b \in accessors, a[1] # b[1]
        PROVE  \/ At(a) + a[2].size <= At(b)
               \/ At(b) + b[2].size <= At(a)
    <2>1. Leads(struct, a) /\ Leads(struct, b)
      BY <1>1
    <2>2. CASE a[1][1] # b[1][1]
      <3>1. a[1][1] \in DOMAIN struct.members /\ b[1][1] \in DOMAIN struct.members
        BY <2>1 DEF Leads
      <3>2. \/ Outer(a).at + Outer(a).type.size <= Outer(b).at
            \/ Outer(b).at + Outer(b).type.size <= Outer(a).at
        BY <2>2, <3>1 DEF Laid
      <3>3. /\ Outer(a).at \in Nat /\ Outer(a).type.size \in Nat
            /\ At(a) \in Nat /\ a[2].size \in 1..8 /\ Outer(a).at <= At(a)
            /\ At(a) + a[2].size <= Outer(a).at + Outer(a).type.size
        BY <1>3
      <3>4. /\ Outer(b).at \in Nat /\ Outer(b).type.size \in Nat
            /\ At(b) \in Nat /\ b[2].size \in 1..8 /\ Outer(b).at <= At(b)
            /\ At(b) + b[2].size <= Outer(b).at + Outer(b).type.size
        BY <1>3
      <3> HIDE DEF At, Outer
      <3> QED BY <3>2, <3>3, <3>4
    <2>3. CASE a[1][1] = b[1][1]
      <3>1. Outer(a) = Outer(b)
        BY <2>3
      <3> HIDE DEF At, Outer, Inner
      <3>2. /\ a[1] = <<a[1][1], a[1][2]>> /\ b[1] = <<b[1][1], b[1][2]>>
            /\ a[1][2] \in DOMAIN enetAddress.members /\ b[1][2] \in DOMAIN enetAddress.members
            /\ At(a) = Outer(a).at + Inner(a).at /\ At(b) = Outer(b).at + Inner(b).at
            /\ a[2] = Inner(a).type /\ b[2] = Inner(b).type
        <4>1. Outer(a).type = enetAddress /\ Outer(b).type = enetAddress
          <5>1. Outer(a).type # enetAddress => a[1] = <<a[1][1]>> /\ b[1] = <<b[1][1]>>
            BY <2>1, <3>1 DEF Leads, Outer
          <5> QED BY <1>5, <2>3, <3>1, <5>1
        <4>2. ASSUME NEW d \in accessors, Outer(d).type = enetAddress
              PROVE  /\ d[1] = <<d[1][1], d[1][2]>>
                     /\ d[1][2] \in DOMAIN enetAddress.members
                     /\ At(d) = Outer(d).at + Inner(d).at
                     /\ d[2] = Inner(d).type
          <5>1. Leads(struct, d)
            BY <1>1
          <5>2. /\ d[1] = <<d[1][1], d[1][2]>>
                /\ d[1][2] \in DOMAIN enetAddress.members
                /\ Member(struct, d[1]) = [at |-> Outer(d).at + Inner(d).at, type |-> Inner(d).type]
                /\ Member(struct, d[1]).type = d[2]
            BY <4>2, <5>1 DEF Leads, Outer, Inner
          <5>3. At(d) = Member(struct, d[1]).at
            BY DEF At
          <5> QED BY <5>2, <5>3
        <4> QED BY <4>1, <4>2
      <3>3. a[1][2] # b[1][2]
        BY <1>5, <2>3, <3>2
      <3>4. /\ Inner(a).at \in Nat /\ Inner(b).at \in Nat
            /\ \/ Inner(a).at + Inner(a).type.size <= Inner(b).at
               \/ Inner(b).at + Inner(b).type.size <= Inner(a).at
        BY <3>2, <3>3, AddressLaid DEF Laid, Inner
      <3>5. Outer(a).at \in Nat /\ a[2].size \in 1..8 /\ b[2].size \in 1..8
        BY <1>3
      <3> QED BY <3>1, <3>2, <3>4, <3>5
    <2> QED BY <2>2, <2>3
  <1>6. \A a \in accessors : Member(struct, a[1]).type = a[2]
    BY <1>1 DEF Leads
  <1>7. \A a \in accessors : At(a) + a[2].size <= struct.size
    <2> SUFFICES ASSUME NEW a \in accessors PROVE At(a) + a[2].size <= struct.size
      OBVIOUS
    <2> HIDE DEF At, Outer
    <2> QED BY <1>2, <1>3
  <1> QED BY <1>2, <1>3, <1>4, <1>5, <1>6, <1>7 DEF Places

LEMMA BufferAccessors ==
    ASSUME NEW p \in Platform
    PROVE  Places(enetBuffer(p), fromNativeBuffers(p))
  <1> DEFINE E == BufferMembers(p)
  <1>1. OneType(E)
    BY DEF OneType, BufferMembers, All
  <1>2. Agree(p, fromNativeBuffers(p), E)
    BY DEF Agree, fromNativeBuffers, As, BufferMembers, All
  <1> QED BY <1>1, <1>2, BufferLaid, AccessorsPlaces

LEMMA PacketAccessors ==
    ASSUME NEW p \in Platform
    PROVE  Places(enetPacket(p), packetPrototype(p))
  <1> DEFINE E == PacketMembers(p)
  <1>1. OneType(E)
    BY DEF OneType, PacketMembers, All
  <1>2. Agree(p, packetPrototype(p), E)
    BY DEF Agree, packetPrototype, As, PacketMembers, All
  <1> QED BY <1>1, <1>2, PacketLaid, AccessorsPlaces

LEMMA PeerAccessors ==
    ASSUME NEW p \in Platform
    PROVE  Places(enetPeer(p), peerPrototype(p))
  <1> DEFINE E == PeerMembers(p)
  <1>1. OneType(E)
    BY DEF OneType, PeerMembers, All
  <1>2. Agree(p, peerPrototype(p), E)
    BY DEF Agree, peerPrototype, As, readAddress, PeerMembers, AddressMembers, All
  <1> QED BY <1>1, <1>2, PeerLaid, AccessorsPlaces

LEMMA HostAccessors ==
    ASSUME NEW p \in Platform
    PROVE  Places(enetHost(p), hostPrototype(p))
  <1> DEFINE E == HostMembers(p)
  <1>1. OneType(E)
    BY DEF OneType, HostMembers, All
  <1>2. Agree(p, hostPrototype(p), E)
    BY DEF Agree, hostPrototype, As, readAddress, HostMembers, AddressMembers, All
  <1> QED BY <1>1, <1>2, HostLaid, AccessorsPlaces

\* The fields are the same on each platform.
LEMMA PathsOf ==
    /\ \A D, E : Paths(D \cup E) = Paths(D) \cup Paths(E)
    /\ \A names, type : Paths(As(type, names)) = {<<name>> : name \in names}
  <1>1. \A D, E : Paths(D \cup E) = Paths(D) \cup Paths(E)
    BY DEF Paths
  <1>2. ASSUME NEW names, NEW type PROVE Paths(As(type, names)) = {<<name>> : name \in names}
    <2>1. \A a \in As(type, names) : a[1] \in {<<name>> : name \in names}
      BY DEF As
    <2>2. ASSUME NEW name \in names PROVE <<name>> \in Paths(As(type, names))
      <3>1. <<<<name>>, type>> \in As(type, names) /\ <<<<name>>, type>>[1] = <<name>>
        BY DEF As
      <3> QED BY <3>1, Zenon DEF Paths
    <2> QED BY <2>1, <2>2 DEF Paths
  <1> QED BY <1>1, <1>2

LEMMA SamePaths ==
    ASSUME NEW p \in Platform, NEW q \in Platform, NEW object \in Object
    PROVE  Paths(Accessors(p)[object]) = Paths(Accessors(q)[object])
  <1> DEFINE Same(D, E) == Paths(D) = Paths(E)
  <1>1. /\ \A names : Same(As(uint32, names), As(uint32, names))
        /\ \A names : Same(As(size_t(p), names), As(size_t(q), names))
        /\ \A names : Same(As(pointer(p), names), As(pointer(q), names))
        /\ \A name : Same(readAddress(name), readAddress(name))
    BY PathsOf, Zenon
  <1>2. ASSUME NEW A, NEW B, NEW D, NEW E, Same(A, B), Same(D, E)
        PROVE  Same(A \cup D, B \cup E)
    <2>1. Paths(A \cup D) = Paths(A) \cup Paths(D) /\ Paths(B \cup E) = Paths(B) \cup Paths(E)
      BY PathsOf, Zenon
    <2> QED BY <1>2, <2>1, Zenon
  <1> HIDE DEF Same
  <1>3. Same(hostPrototype(p), hostPrototype(q))
    BY <1>1, <1>2, Zenon DEF hostPrototype
  <1>4. Same(packetPrototype(p), packetPrototype(q))
    BY <1>1, <1>2, Zenon DEF packetPrototype
  <1>5. Same(peerPrototype(p), peerPrototype(q))
    BY <1>1, <1>2, Zenon DEF peerPrototype
  <1>6. Same(fromNativeBuffers(p), fromNativeBuffers(q))
    BY <1>1, <1>2, Zenon DEF fromNativeBuffers
  <1> QED BY <1>3, <1>4, <1>5, <1>6 DEF Accessors, Object, Writable, Same

LEMMA ObjectPlaces ==
    ASSUME NEW p \in Platform, NEW object \in Object
    PROVE  Places(Declared(p)[object], Accessors(p)[object])
  BY HostAccessors, PacketAccessors, PeerAccessors, BufferAccessors
     DEF Declared, Accessors, Object, Writable

-----------------------------------------------------------------------------
(* The fields: where C has them is where their accessors look, and no two  *)
(* of them overlap.                                                        *)

LEMMA FieldParts ==
    ASSUME NEW p \in Platform, NEW field \in Field
    PROVE  /\ field[1] \in Object /\ field[2] \in Nat
           /\ field = <<field[1], field[2], field[3]>>
           /\ \E a \in Accessors(p)[field[1]] : a[1] = field[3]
  <1> DEFINE q == [word |-> 8, windows |-> FALSE]
  <1>1. q \in Platform
    BY DEF Platform
  <1>2. Field = UNION {{object} \X Index(object) \X Paths(Accessors(q)[object]) :
                           object \in Object}
    BY DEF Field
  <1> HIDE DEF q
  <1>3. PICK object \in Object :
            field \in {object} \X Index(object) \X Paths(Accessors(q)[object])
    BY <1>2
  <1>4. /\ field[1] = object /\ field[2] \in Index(object)
        /\ field[3] \in Paths(Accessors(q)[object])
        /\ field = <<field[1], field[2], field[3]>>
    BY <1>3
  <1>5. Index(object) \subseteq Nat
    BY HandleFieldsAssumption DEF Index
  <1>6. field[3] \in Paths(Accessors(p)[object])
    BY <1>1, <1>4, SamePaths
  <1>7. \E a \in Accessors(p)[object] : a[1] = field[3]
    BY <1>6 DEF Paths
  <1> QED BY <1>4, <1>5, <1>7

\* No two fields overlap.
Apart(places) ==
    /\ DOMAIN places = Field
    /\ \A field \in Field : /\ places[field] = [at |-> places[field].at, size |-> places[field].size]
                            /\ places[field].at \in Nat
                            /\ places[field].size \in 1..8
    /\ \A f, g \in Field :
           \/ f = g
           \/ f[1] # g[1]
           \/ places[f].at + places[f].size <= places[g].at
           \/ places[g].at + places[g].size <= places[f].at

LEMMA Elements ==
    ASSUME NEW size \in Nat, NEW i \in Nat, NEW j \in Nat, i < j
    PROVE  i * size + size <= j * size
  <1>1. PICK k \in Nat : j = i + 1 + k
    <2>1. j - i - 1 \in Nat /\ j = i + 1 + (j - i - 1)
      OBVIOUS
    <2> QED BY <2>1
  <1>2. j * size = i * size + size + k * size
    BY <1>1
  <1>3. k * size \in Nat /\ i * size \in Nat
    OBVIOUS
  <1> QED BY <1>2, <1>3

(* On every platform, each accessor looks where C has its field, with as many bytes, *)
(* in each element of an array, and no two fields of all handles overlap.            *)
THEOREM FieldsApart ==
    ASSUME NEW p \in Platform
    PROVE  Js(p) = C(p) /\ Apart(C(p))
  <1> DEFINE struct(field) == Declared(p)[field[1]]
             accessors(field) == Accessors(p)[field[1]]
             member(field) == Member(struct(field), field[3])
             at(field) == field[2] * struct(field).size + member(field).at
             size(field) == member(field).type.size
  <1>1. ASSUME NEW field \in Field
        PROVE  /\ field[1] \in Object /\ field[2] \in Nat
               /\ field = <<field[1], field[2], field[3]>>
               /\ struct(field).size \in Nat
               /\ member(field).at \in Nat
               /\ size(field) \in 1..8
               /\ member(field).at + size(field) <= struct(field).size
               /\ TypeOf(accessors(field), field[3]) = member(field).type
    <2>1. /\ field[1] \in Object /\ field[2] \in Nat
          /\ field = <<field[1], field[2], field[3]>>
      BY FieldParts
    <2>2. PICK a \in accessors(field) : a[1] = field[3]
      BY FieldParts
    <2>3. Places(struct(field), accessors(field))
      BY <2>1, ObjectPlaces
    <2> HIDE DEF struct, accessors
    <2> QED BY <2>1, <2>2, <2>3 DEF Places
  <1>2. C(p) = [field \in Field |-> [at |-> at(field), size |-> size(field)]]
    BY DEF C
  <1>3. Js(p) = [field \in Field |->
                     [at |-> elementPointer(0, field[2], struct(field).size) + member(field).at,
                      size |-> TypeOf(accessors(field), field[3]).size]]
    BY DEF Js
  <1> HIDE DEF struct, accessors, member
  <1>4. ASSUME NEW field \in Field
        PROVE  elementPointer(0, field[2], struct(field).size) = field[2] * struct(field).size
    <2>1. field[2] * struct(field).size \in Nat
      BY <1>1
    <2> QED BY <2>1 DEF elementPointer
  <1>5. Js(p) = C(p)
    BY <1>1, <1>2, <1>3, <1>4
  <1>6. ASSUME NEW f \in Field, NEW g \in Field, f # g, f[1] = g[1]
        PROVE  at(f) + size(f) <= at(g) \/ at(g) + size(g) <= at(f)
    <2>0. struct(f) = struct(g) /\ accessors(f) = accessors(g)
      BY <1>6 DEF struct, accessors
    <2> DEFINE n == struct(f).size
    <2>1. /\ f[2] \in Nat /\ g[2] \in Nat /\ n \in Nat
          /\ member(f).at \in Nat /\ member(g).at \in Nat
          /\ size(f) \in 1..8 /\ size(g) \in 1..8
          /\ member(f).at + size(f) <= n /\ member(g).at + size(g) <= n
          /\ at(f) = f[2] * n + member(f).at /\ at(g) = g[2] * n + member(g).at
      BY <1>1, <2>0
    <2>2. f[2] * n \in Nat /\ g[2] * n \in Nat
      BY <2>1
    <2>3. CASE f[2] = g[2]
      <3>1. f[3] # g[3]
        BY <1>1, <1>6, <2>3
      <3>2. PICK a \in accessors(f) : a[1] = f[3]
        BY FieldParts DEF accessors
      <3>3. PICK b \in accessors(f) : b[1] = g[3]
        BY <2>0, FieldParts DEF accessors
      <3>4. Places(struct(f), accessors(f))
        BY <1>1, ObjectPlaces DEF struct, accessors
      <3>5. \/ member(f).at + size(f) <= member(g).at
            \/ member(g).at + size(g) <= member(f).at
        BY <2>0, <3>1, <3>2, <3>3, <3>4 DEF Places, member
      <3> HIDE DEF at, size, n
      <3> QED BY <2>1, <2>2, <2>3, <3>5
    <2>4. CASE f[2] < g[2]
      <3>1. f[2] * n + n <= g[2] * n
        BY <2>1, <2>4, Elements
      <3> HIDE DEF at, size, n
      <3> QED BY <2>1, <2>2, <3>1
    <2>5. CASE g[2] < f[2]
      <3>1. g[2] * n + n <= f[2] * n
        BY <2>1, <2>5, Elements
      <3> HIDE DEF at, size, n
      <3> QED BY <2>1, <2>2, <3>1
    <2> QED BY <2>1, <2>3, <2>4, <2>5
  <1>7. ASSUME NEW field \in Field PROVE at(field) \in Nat
    <2>1. field[2] * struct(field).size \in Nat /\ member(field).at \in Nat
      BY <1>1
    <2> QED BY <2>1
  <1> HIDE DEF at, size
  <1>8. Apart(C(p))
    <2>1. DOMAIN C(p) = Field
      BY <1>2
    <2>2. \A field \in Field : C(p)[field] = [at |-> at(field), size |-> size(field)]
      BY <1>2
    <2>3. \A field \in Field : size(field) \in 1..8
      BY <1>1 DEF size
    <2> QED BY <1>6, <1>7, <2>1, <2>2, <2>3 DEF Apart
  <1> QED BY <1>5, <1>8

-----------------------------------------------------------------------------
(* Values and their bytes.                                                 *)

\* The lowest digit of a number to the base b, and the others.
LEMMA Digits ==
    ASSUME NEW b \in Nat, b >= 2, NEW n \in Nat
    PROVE  /\ n \div b \in Nat /\ n % b \in 0..(b - 1) /\ n = b * (n \div b) + (n % b)
           /\ \A m \in Nat : n <= b * m + b - 1 => n \div b <= m
           /\ \A m \in Nat : (b * m + b - 1) \div b = m /\ (b * m + b - 1) % b = b - 1
  <1>1. /\ n \div b \in Int /\ n % b \in 0..(b - 1) /\ n = b * (n \div b) + (n % b)
    BY Divide
  <1>2. \A k, m \in Int, r \in 0..(b - 1) : b * k + r <= b * m + b - 1 => k <= m
    <2> SUFFICES ASSUME NEW k \in Int, NEW m \in Int, NEW r \in 0..(b - 1), k >= m + 1
                 PROVE  b * k + r > b * m + b - 1
      OBVIOUS
    <2>1. PICK d \in Nat : k = m + 1 + d
      <3>1. k - m - 1 \in Nat /\ k = m + 1 + (k - m - 1)
        OBVIOUS
      <3> QED BY <3>1
    <2>2. b * k = b * m + b + b * d
      BY <2>1
    <2>3. b * d \in Nat /\ b * m \in Int
      OBVIOUS
    <2> QED BY <2>2, <2>3
  <1>3. n \div b \in Nat
    <2>1. n \div b >= 0
      <3> SUFFICES ASSUME n \div b <= -1 PROVE FALSE
        BY <1>1
      <3>1. PICK d \in Nat : n \div b = -1 - d
        <4>1. -1 - (n \div b) \in Nat /\ n \div b = -1 - (-1 - (n \div b))
          BY <1>1
        <4> QED BY <4>1
      <3>2. b * (n \div b) = -b - b * d
        BY <3>1
      <3>3. b * d \in Nat
        OBVIOUS
      <3> QED BY <1>1, <3>2, <3>3
    <2> QED BY <1>1, <2>1
  <1>4. ASSUME NEW m \in Nat
        PROVE  (b * m + b - 1) \div b = m /\ (b * m + b - 1) % b = b - 1
    <2>1. b \in Nat \ {0} /\ m \in Int /\ b - 1 \in 0..(b - 1)
      OBVIOUS
    <2>2. (b * m + (b - 1)) \div b = m /\ (b * m + (b - 1)) % b = b - 1
      BY <2>1, DivideUnique
    <2>3. b * m + (b - 1) = b * m + b - 1
      OBVIOUS
    <2> QED BY <2>2, <2>3
  <1>5. \A m \in Nat : n <= b * m + b - 1 => n \div b <= m
    BY <1>1, <1>2
  <1> QED BY <1>1, <1>3, <1>4, <1>5

LEMMA Naturals ==
    ASSUME NEW n \in Nat, NEW f, f[0] \in Nat,
           \A i \in 1..n : f[i - 1] \in Nat => f[i] \in Nat
    PROVE  \A i \in 0..n : f[i] \in Nat
  <1> DEFINE S == {i \in 0..n : f[i] \in Nat}
  <1>1. 0 \in S /\ \A i \in 1..n : i - 1 \in S => i \in S
    OBVIOUS
  <1> HIDE DEF S
  <1>2. 0..n \subseteq S
    BY <1>1, Induction
  <1> QED BY <1>2 DEF S

\* The recursive functions of HandleFields.
LEMMA LargestOf ==
    ASSUME NEW size \in Nat
    PROVE  \E largest :
              /\ Largest(size) = largest[size]
              /\ largest[0] = 0
              /\ \A i \in 0..size : largest[i] \in Nat
              /\ \A i \in 1..size : largest[i] = Base * largest[i - 1] + Base - 1
  <1> DEFINE g == [x \in (1..size) \X Nat |-> Base * x[2] + Base - 1]
             Body(h) == [i \in 0..size |-> IF i = 0 THEN 0 ELSE Base * h[i - 1] + Base - 1]
             l == CHOOSE h : h = Body(h)
  <1>1. ASSUME NEW m \in Nat PROVE Base * m + Base - 1 \in Nat
    <2>1. Base * m \in Nat /\ Base \in Nat /\ Base >= 2
      BY HandleFieldsAssumption
    <2> QED BY <2>1
  <1>2. g \in [(1..size) \X Nat -> Nat]
    BY <1>1
  <1>3. \A i \in 1..size, m \in Nat : g[<<i, m>>] = Base * m + Base - 1
    OBVIOUS
  <1> HIDE DEF g
  <1>4. PICK f \in [0..size -> Nat] : f[0] = 0 /\ \A i \in 1..size : f[i] = g[<<i, f[i - 1]>>]
    <2>1. \A a \in Nat : \E f \in [0..size -> Nat] :
              f[0] = a /\ \A i \in 1..size : f[i] = g[<<i, f[i - 1]>>]
      BY <1>2, Recursion
    <2> QED BY <2>1
  <1>5. f = Body(f)
    <2>1. \A i \in 0..size : i = 0 \/ (i \in 1..size /\ i - 1 \in 0..size /\ i # 0)
      OBVIOUS
    <2>2. \A i \in 0..size : f[i] = IF i = 0 THEN 0 ELSE Base * f[i - 1] + Base - 1
      BY <1>3, <1>4, <2>1
    <2> QED BY <1>4, <2>2
  <1>6. l = Body(l)
    BY <1>5
  <1>7. Largest(size) = l[size]
    BY DEF Largest
  <1> HIDE DEF l
  <1>8. l[0] = 0 /\ \A i \in 1..size : l[i] = Base * l[i - 1] + Base - 1
    <2>1. 0 \in 0..size /\ \A i \in 1..size : i \in 0..size /\ i # 0
      OBVIOUS
    <2>2. \A i \in 0..size : l[i] = IF i = 0 THEN 0 ELSE Base * l[i - 1] + Base - 1
      BY <1>6
    <2> QED BY <2>1, <2>2
  <1>9. \A i \in 0..size : l[i] \in Nat
    <2>1. ASSUME NEW i \in 1..size, l[i - 1] \in Nat PROVE l[i] \in Nat
      <3>1. l[i] = Base * l[i - 1] + Base - 1
        BY <1>8
      <3> QED BY <1>1, <2>1, <3>1, Zenon
    <2>2. l[0] \in Nat
      BY <1>8
    <2> QED BY <2>1, <2>2, Naturals
  <1> QED BY <1>7, <1>8, <1>9

LEMMA RestOf ==
    ASSUME NEW value \in Nat, NEW size \in Nat
    PROVE  /\ Rest(value, size)[0] = value
           /\ \A i \in 0..size : Rest(value, size)[i] \in Nat
           /\ \A i \in 1..size : Rest(value, size)[i] = Rest(value, size)[i - 1] \div Base
  <1> DEFINE g == [x \in (1..size) \X Nat |-> x[2] \div Base]
             Body(h) == [i \in 0..size |-> IF i = 0 THEN value ELSE h[i - 1] \div Base]
             r == CHOOSE h : h = Body(h)
  <1>1. ASSUME NEW m \in Nat PROVE m \div Base \in Nat
    BY HandleFieldsAssumption, Digits
  <1>2. g \in [(1..size) \X Nat -> Nat]
    BY <1>1
  <1>3. \A i \in 1..size, m \in Nat : g[<<i, m>>] = m \div Base
    OBVIOUS
  <1> HIDE DEF g
  <1>4. PICK f \in [0..size -> Nat] : f[0] = value /\ \A i \in 1..size : f[i] = g[<<i, f[i - 1]>>]
    BY <1>2, Recursion
  <1>5. f = Body(f)
    <2>1. \A i \in 0..size : i = 0 \/ (i \in 1..size /\ i - 1 \in 0..size /\ i # 0)
      OBVIOUS
    <2>2. \A i \in 0..size : f[i] = IF i = 0 THEN value ELSE f[i - 1] \div Base
      BY <1>3, <1>4, <2>1
    <2> QED BY <1>4, <2>2
  <1>6. r = Body(r)
    BY <1>5
  <1>7. Rest(value, size) = r
    BY DEF Rest
  <1> HIDE DEF r
  <1>8. r[0] = value /\ \A i \in 1..size : r[i] = r[i - 1] \div Base
    <2>1. 0 \in 0..size /\ \A i \in 1..size : i \in 0..size /\ i # 0
      OBVIOUS
    <2>2. \A i \in 0..size : r[i] = IF i = 0 THEN value ELSE r[i - 1] \div Base
      BY <1>6
    <2> QED BY <2>1, <2>2
  <1>9. \A i \in 0..size : r[i] \in Nat
    BY <1>1, <1>8, Naturals
  <1> QED BY <1>7, <1>8, <1>9

\* A value that fits leaves nothing.
LEMMA NothingLeft ==
    ASSUME NEW size \in Nat, NEW value \in Nat, value <= Largest(size)
    PROVE  Rest(value, size)[size] = 0
  <1> DEFINE rest == Rest(value, size)
  <1>1. PICK largest : /\ Largest(size) = largest[size]
                       /\ largest[0] = 0
                       /\ \A i \in 0..size : largest[i] \in Nat
                       /\ \A i \in 1..size : largest[i] = Base * largest[i - 1] + Base - 1
    BY LargestOf
  <1>2. /\ rest[0] = value
        /\ \A i \in 0..size : rest[i] \in Nat
        /\ \A i \in 1..size : rest[i] = rest[i - 1] \div Base
    BY RestOf
  <1> HIDE DEF rest
  <1> DEFINE S == {i \in 0..size : rest[i] <= largest[size - i]}
  <1>3. 0 \in S
    BY <1>1, <1>2
  <1>4. ASSUME NEW i \in 1..size, i - 1 \in S PROVE i \in S
    <2>1. size - i \in 0..size /\ size - (i - 1) \in 1..size /\ size - (i - 1) - 1 = size - i
      OBVIOUS
    <2>2. largest[size - (i - 1)] = Base * largest[size - i] + Base - 1
      BY <1>1, <2>1
    <2>3. i - 1 \in 0..size
      OBVIOUS
    <2>4. rest[i - 1] <= Base * largest[size - i] + Base - 1 /\ rest[i] = rest[i - 1] \div Base
      BY <1>2, <1>4, <2>2
    <2>5. rest[i - 1] \in Nat /\ largest[size - i] \in Nat
      BY <1>1, <1>2, <2>1, <2>3
    <2>6. rest[i - 1] \div Base <= largest[size - i]
      BY <2>4, <2>5, HandleFieldsAssumption, Digits
    <2> QED BY <2>4, <2>6
  <1> HIDE DEF S
  <1>5. 0..size \subseteq S
    BY <1>3, <1>4, Induction
  <1>6. rest[size] <= largest[0] /\ rest[size] \in Nat
    <2>1. size \in S /\ size \in 0..size /\ size - size = 0
      BY <1>5
    <2> QED BY <1>2, <2>1 DEF S
  <1> QED BY <1>1, <1>6 DEF rest

\* The bytes of memory that is all bits off or all on.
LEMMA UniformBytes ==
    ASSUME NEW size \in Nat, NEW i \in 0..(size - 1)
    PROVE  /\ Rest(0, size)[i] % Base = 0
           /\ Rest(Largest(size), size)[i] % Base = Base - 1
           /\ Largest(size) \in Nat /\ Largest(size) >= 1
  <1>1. PICK largest : /\ Largest(size) = largest[size]
                       /\ largest[0] = 0
                       /\ \A j \in 0..size : largest[j] \in Nat
                       /\ \A j \in 1..size : largest[j] = Base * largest[j - 1] + Base - 1
    BY LargestOf
  <1>0. Base \in Nat /\ Base >= 2
    BY HandleFieldsAssumption
  <1>2. Largest(size) \in Nat /\ size \in 0..size /\ size \in 1..size
    BY <1>1
  <1>3. Largest(size) >= 1
    <2>1. largest[size] = Base * largest[size - 1] + Base - 1 /\ size - 1 \in 0..size
      BY <1>1, <1>2
    <2>2. largest[size - 1] \in Nat
      BY <1>1, <2>1
    <2>3. Base * largest[size - 1] \in Nat
      BY <1>0, <2>2
    <2> QED BY <1>0, <1>1, <2>1, <2>3
  <1>4. \A j \in 0..size : Rest(0, size)[j] = 0
    <2> DEFINE rest == Rest(0, size)
               S == {j \in 0..size : rest[j] = 0}
    <2>1. rest[0] = 0 /\ \A j \in 1..size : rest[j] = rest[j - 1] \div Base
      BY RestOf
    <2>2. 0 \div Base = 0
      <3>1. 0 \div Base \in Nat /\ 0 <= Base * 0 + Base - 1
        BY <1>0, Digits
      <3>2. 0 \div Base <= 0
        BY <1>0, <3>1, Digits
      <3> QED BY <3>1, <3>2
    <2> HIDE DEF rest
    <2>3. 0 \in S /\ \A j \in 1..size : j - 1 \in S => j \in S
      BY <2>1, <2>2
    <2> HIDE DEF S
    <2>4. 0..size \subseteq S
      BY <2>3, Induction
    <2> QED BY <2>4 DEF S, rest
  <1>5. \A j \in 0..size : Rest(Largest(size), size)[j] = largest[size - j]
    <2> DEFINE rest == Rest(Largest(size), size)
               S == {j \in 0..size : rest[j] = largest[size - j]}
    <2>1. rest[0] = Largest(size) /\ \A j \in 1..size : rest[j] = rest[j - 1] \div Base
      BY <1>2, RestOf
    <2> HIDE DEF rest
    <2>2. 0 \in S
      BY <1>1, <2>1
    <2>3. ASSUME NEW j \in 1..size, j - 1 \in S PROVE j \in S
      <3>1. size - j \in 0..size /\ size - (j - 1) \in 1..size /\ size - (j - 1) - 1 = size - j
        OBVIOUS
      <3>2. largest[size - (j - 1)] = Base * largest[size - j] + Base - 1 /\ largest[size - j] \in Nat
        BY <1>1, <3>1
      <3>3. (Base * largest[size - j] + Base - 1) \div Base = largest[size - j]
        BY <1>0, <3>2, Digits
      <3>4. rest[j] = largest[size - (j - 1)] \div Base
        BY <2>1, <2>3
      <3> QED BY <3>2, <3>3, <3>4
    <2> HIDE DEF S
    <2>4. 0..size \subseteq S
      BY <2>2, <2>3, Induction
    <2> QED BY <2>4 DEF S, rest
  <1>6. i \in 0..size /\ size - i \in 1..size /\ size - i - 1 \in 0..size
    OBVIOUS
  <1>7. Rest(Largest(size), size)[i] = Base * largest[size - i - 1] + Base - 1
    BY <1>1, <1>5, <1>6
  <1>8. largest[size - i - 1] \in Nat
    BY <1>1, <1>6
  <1>9. (Base * largest[size - i - 1] + Base - 1) % Base = Base - 1
    BY <1>0, <1>8, Digits
  <1>10. 0 % Base = 0
    <2>1. 0 % Base \in 0..(Base - 1) /\ 0 = Base * (0 \div Base) + (0 % Base) /\ 0 \div Base \in Nat
      BY <1>0, Digits
    <2>2. Base * (0 \div Base) \in Nat
      BY <1>0, <2>1
    <2> QED BY <2>1, <2>2
  <1> QED BY <1>2, <1>3, <1>4, <1>6, <1>7, <1>9, <1>10

\* Reading joins the bytes of the value that was stored.
LEMMA ReadsBack ==
    ASSUME NEW object, NEW at \in Nat, NEW size \in Nat, NEW place,
           place = [at |-> at, size |-> size],
           NEW value \in Nat, value <= Largest(size)
    PROVE  (\A i \in 0..(size - 1) :
               /\ <<object, at + i>> \in DOMAIN memory
               /\ memory[<<object, at + i>>] = Rest(value, size)[i] % Base)
           => readNumber(object, place) = value
  <1> DEFINE rest == Rest(value, size)
             Byte(i) == IF <<object, place.at + i>> \in DOMAIN memory
                        THEN memory[<<object, place.at + i>>] ELSE 0
             Body(h) == [i \in 0..place.size |->
                            IF i = 0 THEN 0 ELSE Byte(place.size - i) + Base * h[i - 1]]
             highest == CHOOSE h : h = Body(h)
             g == [x \in (1..size) \X Nat |-> Byte(size - x[1]) + Base * x[2]]
  <1>a. SUFFICES ASSUME \A i \in 0..(size - 1) :
                            /\ <<object, at + i>> \in DOMAIN memory
                            /\ memory[<<object, at + i>>] = rest[i] % Base
                 PROVE  readNumber(object, place) = value
    OBVIOUS
  <1>0. Base \in Nat /\ Base >= 2 /\ place.at = at /\ place.size = size
    BY HandleFieldsAssumption
  <1>1. /\ rest[0] = value /\ rest[size] = 0
        /\ \A i \in 0..size : rest[i] \in Nat
        /\ \A i \in 1..size : rest[i] = rest[i - 1] \div Base
    BY RestOf, NothingLeft
  <1>2. \A i \in 0..(size - 1) : Byte(i) = rest[i] % Base
    BY <1>0, <1>a
  <1> HIDE DEF Byte, rest
  <1>3. \A i \in 0..(size - 1) : Byte(i) \in Nat
    <2> SUFFICES ASSUME NEW i \in 0..(size - 1) PROVE Byte(i) \in Nat
      OBVIOUS
    <2>1. rest[i] \in Nat
      BY <1>1
    <2>2. rest[i] % Base \in 0..(Base - 1)
      BY <1>0, <2>1, Digits
    <2> QED BY <1>0, <1>2, <2>2
  <1>4. ASSUME NEW i \in 1..size, NEW m \in Nat PROVE Byte(size - i) + Base * m \in Nat
    <2>1. Byte(size - i) \in Nat
      <3>1. size - i \in 0..(size - 1)
        OBVIOUS
      <3> QED BY <1>3, <3>1
    <2>2. Base * m \in Nat
      BY <1>0
    <2> QED BY <2>1, <2>2
  <1>5. g \in [(1..size) \X Nat -> Nat]
    BY <1>4
  <1>6. \A i \in 1..size, m \in Nat : g[<<i, m>>] = Byte(size - i) + Base * m
    OBVIOUS
  <1> HIDE DEF g
  <1>7. PICK f \in [0..size -> Nat] : f[0] = 0 /\ \A i \in 1..size : f[i] = g[<<i, f[i - 1]>>]
    <2>1. \A a \in Nat : \E f \in [0..size -> Nat] :
              f[0] = a /\ \A i \in 1..size : f[i] = g[<<i, f[i - 1]>>]
      BY <1>5, Recursion, ZenonT(40)
    <2> QED BY <2>1
  <1>8. f = Body(f)
    <2>1. \A i \in 0..size : i = 0 \/ (i \in 1..size /\ i - 1 \in 0..size /\ i # 0)
      OBVIOUS
    <2>2. \A i \in 0..size : f[i] = IF i = 0 THEN 0 ELSE Byte(size - i) + Base * f[i - 1]
      BY <1>6, <1>7, <2>1
    <2> QED BY <1>0, <1>7, <2>2
  <1>9. highest = Body(highest)
    BY <1>8
  <1>10. readNumber(object, place) = highest[size]
    BY <1>0 DEF readNumber, Highest, Byte
  <1> HIDE DEF highest
  <1>11. highest[0] = 0 /\ \A i \in 1..size : highest[i] = Byte(size - i) + Base * highest[i - 1]
    <2>1. 0 \in 0..size /\ \A i \in 1..size : i \in 0..size /\ i # 0
      OBVIOUS
    <2>2. \A i \in 0..size : highest[i] = IF i = 0 THEN 0 ELSE Byte(size - i) + Base * highest[i - 1]
      BY <1>0, <1>9
    <2> QED BY <2>1, <2>2
  <1> DEFINE S == {i \in 0..size : highest[i] = rest[size - i]}
  <1>12. 0 \in S
    BY <1>1, <1>11
  <1>13. ASSUME NEW i \in 1..size, i - 1 \in S PROVE i \in S
    <2>1. /\ size - i \in 0..(size - 1) /\ size - i \in 0..size
          /\ size - (i - 1) \in 1..size /\ size - (i - 1) - 1 = size - i
      OBVIOUS
    <2>2. highest[i] = (rest[size - i] % Base) + Base * rest[size - (i - 1)]
      BY <1>2, <1>11, <1>13, <2>1
    <2>3. rest[size - (i - 1)] = rest[size - i] \div Base
      BY <1>1, <2>1
    <2>4. rest[size - i] \in Nat
      BY <1>1, <2>1
    <2>5. /\ rest[size - i] = Base * (rest[size - i] \div Base) + (rest[size - i] % Base)
          /\ rest[size - i] \div Base \in Nat /\ rest[size - i] % Base \in 0..(Base - 1)
      BY <1>0, <2>4, Digits
    <2>6. Base * (rest[size - i] \div Base) \in Nat
      <3>1. \A k \in Nat : Base * k \in Nat
        BY <1>0
      <3> QED BY <2>5, <3>1, Zenon
    <2>7. highest[i] = rest[size - i]
      BY <1>0, <2>2, <2>3, <2>5, <2>6
    <2> QED BY <2>7
  <1> HIDE DEF S
  <1>14. 0..size \subseteq S
    BY <1>12, <1>13, Induction
  <1>15. highest[size] = rest[0]
    <2>1. size \in S /\ size - size = 0
      BY <1>14
    <2> QED BY <2>1 DEF S
  <1> QED BY <1>1, <1>10, <1>15

-----------------------------------------------------------------------------
(* The inductive invariant: accessors look where C has the fields, no two  *)
(* of which overlap, and memory has the bytes of what was stored last.     *)

\* The bytes of a field are those of its value, which fits.
Kept(field) ==
    /\ stored[field] \in Nat /\ stored[field] <= Largest(c[field].size)
    /\ \A i \in 0..(c[field].size - 1) :
          memory[<<field[1], c[field].at + i>>]
              = Rest(stored[field], c[field].size)[i] % Base

FieldInv ==
    /\ js = c /\ Apart(c)
    /\ DOMAIN memory = Bytes
    /\ DOMAIN stored = Field
    /\ \A field \in Field : Kept(field)

NumbersInv == c = Nothing \/ FieldInv

LEMMA FieldBytes ==
    ASSUME Apart(c), NEW field \in Field, NEW i \in 0..(c[field].size - 1)
    PROVE  <<field[1], c[field].at + i>> \in Bytes
  BY DEF Apart, Bytes

LEMMA FieldsStart == FieldsInit => FieldInv
  <1> SUFFICES ASSUME FieldsInit PROVE FieldInv
    OBVIOUS
  <1>1. PICK p \in Platform : c = C(p) /\ js = Js(p)
    BY DEF FieldsInit
  <1>2. js = c /\ Apart(c)
    BY <1>1, FieldsApart
  <1>3. PICK byte \in {0, Base - 1} :
            /\ memory = [b \in Bytes |-> byte]
            /\ stored = [field \in Field |-> IF byte = 0 THEN 0 ELSE Largest(c[field].size)]
    BY DEF FieldsInit
  <1>4. ASSUME NEW field \in Field PROVE Kept(field)
    <2>1. c[field].size \in 1..8 /\ c[field].at \in Nat
      BY <1>2 DEF Apart
    <2>2. Largest(c[field].size) \in Nat
      <3>1. c[field].size \in Nat /\ 0 \in 0..(c[field].size - 1)
        BY <2>1
      <3> QED BY <3>1, UniformBytes
    <2>3. ASSUME NEW i \in 0..(c[field].size - 1)
          PROVE  memory[<<field[1], c[field].at + i>>]
                     = Rest(stored[field], c[field].size)[i] % Base
      <3>1. <<field[1], c[field].at + i>> \in Bytes
        BY <1>2, FieldBytes
      <3>2. memory[<<field[1], c[field].at + i>>] = byte
        BY <1>3, <3>1
      <3>3. c[field].size \in Nat
        BY <2>1
      <3>4. /\ Rest(0, c[field].size)[i] % Base = 0
            /\ Rest(Largest(c[field].size), c[field].size)[i] % Base = Base - 1
        BY <3>3, UniformBytes
      <3>5. stored[field] = IF byte = 0 THEN 0 ELSE Largest(c[field].size)
        BY <1>3
      <3> QED BY <1>3, <3>2, <3>4, <3>5
    <2>4. stored[field] \in Nat /\ stored[field] <= Largest(c[field].size)
      BY <1>3, <2>2
    <2> QED BY <2>3, <2>4 DEF Kept
  <1>5. DOMAIN memory = Bytes /\ DOMAIN stored = Field
    BY <1>3
  <1> QED BY <1>2, <1>4, <1>5 DEF FieldInv

\* A store changes the bytes of its own field only.
LEMMA StoreKeeps ==
    ASSUME FieldInv, NEW field \in Field, NEW value \in Values(field),
           Store(field[1], c[field], value), Remember(field, value)
    PROVE  FieldInv'
  <1>1. js' = c' /\ c' = c /\ Apart(c) /\ DOMAIN memory = Bytes /\ DOMAIN stored = Field
    BY DEF FieldInv, Remember
  <1>2. Apart(c)' /\ Bytes' = Bytes
    BY <1>1 DEF Bytes
  <1> DEFINE size == c[field].size
             at == c[field].at
  <1>3. size \in 1..8 /\ at \in Nat
    BY <1>1 DEF Apart
  <1>4. /\ memory' = [byte \in DOMAIN memory |->
                         IF byte[1] = field[1] /\ byte[2] - at \in 0..(size - 1)
                         THEN Rest(value, size)[byte[2] - at] % Base
                         ELSE memory[byte]]
    BY DEF Store
  <1>5. stored' = [stored EXCEPT ![field] = value]
    BY DEF Remember
  <1>6. DOMAIN memory' = Bytes' /\ DOMAIN stored' = Field
    BY <1>1, <1>2, <1>4, <1>5
  <1>7. value \in Nat /\ value <= Largest(size)
    <2>1. size \in Nat /\ 0 \in 0..(size - 1)
      BY <1>3
    <2> HIDE DEF size
    <2>2. Largest(size) \in Nat /\ Largest(size) >= 1
      BY <2>1, UniformBytes
    <2>3. value \in {0, 1, Largest(size)}
      BY DEF Values, size
    <2> QED BY <2>2, <2>3
  <1> HIDE DEF size, at
  <1>8. ASSUME NEW g \in Field PROVE Kept(g)'
    <2>1. c[g].size \in 1..8 /\ c[g].at \in Nat
      BY <1>1 DEF Apart
    <2>2. ASSUME NEW i \in 0..(c[g].size - 1)
          PROVE  memory'[<<g[1], c[g].at + i>>]
                     = IF g[1] = field[1] /\ (c[g].at + i) - at \in 0..(size - 1)
                       THEN Rest(value, size)[(c[g].at + i) - at] % Base
                       ELSE memory[<<g[1], c[g].at + i>>]
      <3>1. <<g[1], c[g].at + i>> \in DOMAIN memory
        BY <1>1, FieldBytes
      <3> DEFINE byte == <<g[1], c[g].at + i>>
      <3>2. byte[1] = g[1] /\ byte[2] = c[g].at + i /\ byte \in DOMAIN memory
        BY <3>1
      <3> HIDE DEF byte
      <3>3. memory'[byte] = IF byte[1] = field[1] /\ byte[2] - at \in 0..(size - 1)
                            THEN Rest(value, size)[byte[2] - at] % Base
                            ELSE memory[byte]
        BY <1>4, <3>2
      <3> QED BY <3>2, <3>3 DEF byte
    <2>3. CASE g = field
      <3>1. stored'[g] = value
        BY <1>1, <1>5, <2>3
      <3>2. c[g].size = size /\ c[g].at = at
        BY <2>3 DEF size, at
      <3>3. ASSUME NEW i \in 0..(size - 1)
            PROVE  memory'[<<g[1], at + i>>] = Rest(value, size)[i] % Base
        <4>1. (at + i) - at = i
          BY <1>3
        <4> QED BY <2>2, <2>3, <3>2, <4>1
      <3>4. c'[g].size = size /\ c'[g].at = at
        BY <1>1, <3>2
      <3> QED BY <1>7, <3>1, <3>3, <3>4 DEF Kept
    <2>4. CASE g # field
      <3>1. stored'[g] = stored[g]
        BY <1>1, <1>5, <2>4
      <3>2. ASSUME NEW i \in 0..(c[g].size - 1)
            PROVE  memory'[<<g[1], c[g].at + i>>] = memory[<<g[1], c[g].at + i>>]
        <4>1. \/ g[1] # field[1]
              \/ c[g].at + c[g].size <= at
              \/ at + size <= c[g].at
          BY <1>1, <2>4 DEF Apart, at, size
        <4>2. g[1] = field[1] => (c[g].at + i) - at \notin 0..(size - 1)
          BY <1>3, <2>1, <4>1
        <4> QED BY <2>2, <4>2
      <3>3. Kept(g)
        BY DEF FieldInv
      <3>4. c'[g].size = c[g].size /\ c'[g].at = c[g].at
        BY <1>1
      <3> QED BY <3>1, <3>2, <3>3, <3>4 DEF Kept
    <2> QED BY <2>3, <2>4
  <1> QED BY <1>1, <1>2, <1>6, <1>8 DEF FieldInv

LEMMA NumbersStart == NumbersInit => NumbersInv
  BY FieldsStart DEF NumbersInit, NumbersInv

LEMMA NumbersStep ==
    ASSUME NumbersInv, [ClockMoves \/ FieldsMove]_<<vars, hfVars>>
    PROVE  NumbersInv'
  <1>1. CASE UNCHANGED hfVars
    BY <1>1 DEF NumbersInv, FieldInv, Kept, Bytes, hfVars
  <1>2. CASE FieldsMove
    <2>1. PICK field \in DOMAIN c : \E value \in Values(field) :
              CStores(field, value) \/ writeNumber(field, value)
      BY <1>2 DEF FieldsMove, FieldsNext
    <2>2. PICK value \in Values(field) : CStores(field, value) \/ writeNumber(field, value)
      BY <2>1
    <2>3. FieldInv
      BY DEF NumbersInv, Nothing
    <2>4. field \in Field /\ js = c
      BY <2>3 DEF FieldInv, Apart
    <2>5. Store(field[1], c[field], value) /\ Remember(field, value)
      BY <2>2, <2>4 DEF CStores, writeNumber
    <2> QED BY <2>3, <2>4, <2>5, StoreKeeps DEF NumbersInv
  <1> QED BY <1>1, <1>2 DEF ClockMoves, vars, hfVars

LEMMA FieldsAreReadBack == NumbersInv => FieldsReadBack
  <1> SUFFICES ASSUME NumbersInv, NEW field \in DOMAIN c
               PROVE  readNumber(field[1], js[field]) = stored[field]
    BY DEF FieldsReadBack
  <1>1. FieldInv
    BY DEF NumbersInv, Nothing
  <1>2. field \in Field /\ js = c /\ Apart(c) /\ DOMAIN memory = Bytes /\ Kept(field)
    BY <1>1 DEF FieldInv, Apart
  <1>3. /\ c[field] = [at |-> c[field].at, size |-> c[field].size]
        /\ c[field].at \in Nat /\ c[field].size \in Nat
    BY <1>2 DEF Apart
  <1>4. /\ stored[field] \in Nat /\ stored[field] <= Largest(c[field].size)
        /\ \A i \in 0..(c[field].size - 1) :
               /\ <<field[1], c[field].at + i>> \in DOMAIN memory
               /\ memory[<<field[1], c[field].at + i>>]
                      = Rest(stored[field], c[field].size)[i] % Base
    BY <1>2, FieldBytes DEF Kept
  <1> QED BY <1>2, <1>3, <1>4, ReadsBack

(* Whatever C and the program stored, in whatever order and however often, every   *)
(* accessor of a handle reads what was last stored in its own field: for bytes of  *)
(* any size, arrays of any length and each platform.                               *)
THEOREM FieldsReadBackTheorem == NumbersSpec => []FieldsReadBack
  <1>1. NumbersInv /\ [ClockMoves \/ FieldsMove]_<<vars, hfVars>> => NumbersInv'
    BY NumbersStep
  <1> QED BY NumbersStart, <1>1, FieldsAreReadBack, PTL DEF NumbersSpec

=============================================================================
