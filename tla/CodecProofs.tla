----------------------------- MODULE CodecProofs -----------------------------
(***************************************************************************)
(* Codec, for any widths, numbers, texts and places to cut: what proto.py  *)
(* and machineauth.py write they read back, and of a part of it they read  *)
(* nothing that was not written.                                           *)
(*                                                                         *)
(* The definitions recur over numbers, so the first section shows that     *)
(* such a recursion has a function that obeys it.  Then upwards: Spells    *)
(* says what bytes are the varint of a number, Encodes what bytes are a    *)
(* field, Heard what a search finds in a message, each wherever in the     *)
(* data the bytes stand and wherever the data ends, and Keeps that a       *)
(* message holds what its parser asks for.                                 *)
(***************************************************************************)
EXTENDS MCTranslator, TranslatorProofs, FiniteSetTheorems

-------------------------------------------------------------------------------
(***************************************************************************)
(* Recursion over an interval.                                             *)
(***************************************************************************)

\* A set of numbers that holds 0 and with each number the next holds them all: if n
\* were missing, i |-> i + 1 would map the numbers below n that have all before them
\* in S into themselves but for 0.
LEMMA SetInduction ==
  ASSUME NEW S, 0 \in S, \A n \in Nat : n \in S => n + 1 \in S
  PROVE  Nat \subseteq S
<1> SUFFICES ASSUME NEW n \in Nat, n \notin S PROVE FALSE
  OBVIOUS
<1> DEFINE D == {i \in 0..n : \A j \in 0..i : j \in S}
           f == [i \in D |-> i + 1]
<1>1. IsFiniteSet(D) /\ IsFiniteSet(D \ {0}) /\ 0 \in D
  <2>1. IsFiniteSet(0..n)
    BY FS_Interval
  <2>2. IsFiniteSet(D)
    BY <2>1, FS_Subset
  <2>3. 0 \in D
    OBVIOUS
  <2> HIDE DEF D
  <2> QED
    BY <2>2, <2>3, FS_Subset
<1>2. \A i \in D : i \in Nat /\ i + 1 \in D \ {0}
  <2> SUFFICES ASSUME NEW i \in D PROVE i + 1 \in D \ {0}
    OBVIOUS
  <2>1. i \in 0..n /\ i \in S /\ i # n
    OBVIOUS
  <2>2. i + 1 \in 0..n /\ i + 1 \in S /\ i + 1 # 0
    BY <2>1
  <2>3. \A j \in 0..(i + 1) : j \in 0..i \/ j = i + 1
    BY <2>1
  <2> QED
    BY <2>1, <2>2, <2>3
<1> HIDE DEF D
<1>3. f \in Injection(D, D \ {0})
  <2>1. f \in [D -> D \ {0}]
    BY <1>2
  <2>2. \A i, j \in D : f[i] = f[j] => i = j
    BY <1>2
  <2> QED
    BY <2>1, <2>2 DEF Injection, IsInjective
<1>4. Cardinality(D) <= Cardinality(D \ {0})
  BY <1>1, <1>3, FS_Injection
<1>5. Cardinality(D \ {0}) = Cardinality(D) - 1 /\ Cardinality(D) \in Nat
  BY <1>1, FS_RemoveElement, FS_CardinalityType
<1> QED
  BY <1>4, <1>5

\* What the value at i is, given the function, where that asks only for values below i.
Rules(n, T) ==
  {rule \in [(0..n) \X [0..n -> T] -> T] :
     \A i \in 0..n : \A f, g \in [0..n -> T] :
       (\A j \in 0 .. i - 1 : f[j] = g[j]) => rule[<<i, f>>] = rule[<<i, g>>]}

\* The functions that obey a rule.
Obeying(rule, n, T) == {f \in [0..n -> T] : \A i \in 0..n : f[i] = rule[<<i, f>>]}

\* There is a function that obeys such a rule.
LEMMA Recursion ==
  ASSUME NEW n \in Nat, NEW T, NEW t \in T, NEW Rule \in Rules(n, T)
  PROVE  Obeying(Rule, n, T) # {}
<1>0. /\ Rule \in [(0..n) \X [0..n -> T] -> T]
      /\ \A i \in 0..n : \A f, g \in [0..n -> T] :
           (\A j \in 0 .. i - 1 : f[j] = g[j]) => Rule[<<i, f>>] = Rule[<<i, g>>]
  BY DEF Rules
<1> DEFINE F == [0..n -> T]
           Obeys(f, k) == \A i \in 0..n : i < k => f[i] = Rule[<<i, f>>]
           S == {k \in Nat : k <= n + 1 => \E f \in F : Obeys(f, k)}
<1>1. 0 \in S
  <2>1. [i \in 0..n |-> t] \in F
    OBVIOUS
  <2>2. Obeys([i \in 0..n |-> t], 0)
    OBVIOUS
  <2> QED
    BY <2>1, <2>2
<1>2. ASSUME NEW k \in Nat, k \in S
      PROVE  k + 1 \in S
  <2>0. SUFFICES k + 1 <= n + 1 => \E f \in F : Obeys(f, k + 1)
    <3>1. k + 1 \in Nat
      OBVIOUS
    <3> HIDE DEF F, Obeys
    <3> QED
      BY <3>1
  <2> HAVE k + 1 <= n + 1
  <2>1. PICK f \in F : Obeys(f, k)
    <3>1. k <= n + 1
      OBVIOUS
    <3> HIDE DEF F, Obeys
    <3> QED
      BY <1>2, <3>1
  <2> DEFINE g == [f EXCEPT ![k] = Rule[<<k, f>>]]
  <2>2. k \in 0..n /\ <<k, f>> \in (0..n) \X F
    OBVIOUS
  <2>3. g \in F /\ g[k] = Rule[<<k, f>>] /\ \A i \in 0..n : i # k => g[i] = f[i]
    BY <1>0, <2>2
  <2> HIDE DEF g
  <2>4. ASSUME NEW i \in 0..n, i < k + 1
        PROVE  g[i] = Rule[<<i, g>>]
    <3>1. \A j \in 0 .. i - 1 : f[j] = g[j]
      BY <2>3, <2>4
    <3>2. Rule[<<i, f>>] = Rule[<<i, g>>]
      BY <1>0, <2>3, <3>1
    <3>3. g[i] = Rule[<<i, f>>]
      <4>1. CASE i = k
        BY <2>3, <4>1
      <4>2. CASE i # k
        <5>1. i < k
          BY <2>4, <4>2
        <5> QED
          BY <2>1, <2>3, <4>2, <5>1
      <4> QED
        BY <4>1, <4>2
    <3> QED
      BY <3>2, <3>3
  <2> QED
    BY <2>3, <2>4
<1> HIDE DEF S
<1>3. Nat \subseteq S
  BY <1>1, <1>2, SetInduction
<1>4. n + 1 \in S
  BY <1>3
<1>5. PICK f \in F : Obeys(f, n + 1)
  <2> HIDE DEF F, Obeys
  <2> QED
    BY <1>4 DEF S
<1>6. \A i \in 0..n : f[i] = Rule[<<i, f>>]
  BY <1>5
<1> QED
  BY <1>6 DEF Obeying

-------------------------------------------------------------------------------
(***************************************************************************)
(* Powers.                                                                 *)
(***************************************************************************)

\* f[i] is the i-th power of the base.
Powers(base, n, f) ==
  /\ f \in [0..n -> Nat]
  /\ f[0] = 1
  /\ \A i \in 1..n : f[i] = base * f[i - 1]

\* The definition has a function of the powers.
LEMMA PowersMet ==
  ASSUME NEW base \in Nat, NEW n \in Nat
  PROVE  \E f : Powers(base, n, f) /\ Pow(base, n) = f[n]
<1> DEFINE Rule == [p \in (0..n) \X [0..n -> Nat] |->
                      IF p[1] = 0 THEN 1 ELSE base * p[2][p[1] - 1]]
           Body(f) == [i \in 0..n |-> IF i = 0 THEN 1 ELSE base * f[i - 1]]
           power == CHOOSE f : f = Body(f)
<1>1. \A i \in 0..n : \A f \in [0..n -> Nat] :
        /\ Rule[<<i, f>>] = (IF i = 0 THEN 1 ELSE base * f[i - 1])
        /\ Rule[<<i, f>>] \in Nat
  OBVIOUS
<1>2. Rule \in [(0..n) \X [0..n -> Nat] -> Nat]
  OBVIOUS
<1> HIDE DEF Rule
<1>3. \A i \in 0..n : \A f, g \in [0..n -> Nat] :
        (\A j \in 0 .. i - 1 : f[j] = g[j]) => Rule[<<i, f>>] = Rule[<<i, g>>]
  <2> TAKE i \in 0..n
  <2> TAKE f, g \in [0..n -> Nat]
  <2>1. i # 0 => i - 1 \in 0 .. i - 1
    OBVIOUS
  <2> QED
    BY <1>1, <2>1
<1>4. 1 \in Nat /\ Rule \in Rules(n, Nat)
  BY <1>2, <1>3 DEF Rules
<1>5. PICK f \in Obeying(Rule, n, Nat) : TRUE
  BY <1>4, Recursion
<1>6. f = Body(f)
  BY <1>1 DEF Obeying
<1>7. power = Body(power)
  <2> HIDE DEF Body
  <2> QED
    BY <1>6
<1>8. Pow(base, n) = power[n]
  BY DEF Pow
<1> HIDE DEF power
<1>9. /\ DOMAIN power = 0..n /\ power[0] = 1
      /\ \A i \in 1..n : power[i] = base * power[i - 1]
  BY <1>7
<1>10. \A i \in 0..n : power[i] \in Nat
  <2> DEFINE S == {i \in Nat : i <= n => power[i] \in Nat}
  <2>1. 0 \in S
    BY <1>9
  <2>2. ASSUME NEW i \in Nat, i \in S
        PROVE  i + 1 \in S
    <3>1. i + 1 <= n => /\ i + 1 \in 1..n /\ (i + 1) - 1 = i
                        /\ power[i] \in Nat
      BY <2>2
    <3>2. i + 1 <= n => power[i + 1] = base * power[i]
      BY <1>9, <3>1
    <3>3. i + 1 <= n => power[i + 1] \in Nat
      BY <3>1, <3>2
    <3> QED
      BY <3>3
  <2> HIDE DEF S
  <2>3. Nat \subseteq S
    BY <2>1, <2>2, SetInduction
  <2> QED
    BY <2>3 DEF S
<1>11. Powers(base, n, power)
  BY <1>7, <1>9, <1>10 DEF Powers
<1> QED
  BY <1>8, <1>11

\* Two such functions agree.
LEMMA PowersAgree ==
  ASSUME NEW base \in Nat, NEW n \in Nat, NEW m \in Nat, n <= m,
         NEW f, Powers(base, n, f), NEW g, Powers(base, m, g)
  PROVE  f[n] = g[n]
<1> DEFINE S == {i \in Nat : i <= n => f[i] = g[i]}
<1>1. 0 \in S
  BY DEF Powers
<1>2. ASSUME NEW i \in Nat, i \in S
      PROVE  i + 1 \in S
  <2>1. i + 1 <= n => i + 1 \in 1..n /\ i + 1 \in 1..m /\ (i + 1) - 1 = i /\ f[i] = g[i]
    BY <1>2
  <2>2. i + 1 <= n => f[i + 1] = base * f[i] /\ g[i + 1] = base * g[i]
    BY <2>1 DEF Powers
  <2> QED
    BY <2>1, <2>2
<1> HIDE DEF S
<1>3. Nat \subseteq S
  BY <1>1, <1>2, SetInduction
<1> QED
  BY <1>3 DEF S

\* Powers are what they should be.
LEMMA PowIs ==
  ASSUME NEW base \in Nat
  PROVE  /\ \A n \in Nat : Pow(base, n) \in Nat
         /\ Pow(base, 0) = 1
         /\ \A n \in Nat : Pow(base, n + 1) = base * Pow(base, n)
<1>1. ASSUME NEW n \in Nat
      PROVE  Pow(base, n) \in Nat /\ Pow(base, n + 1) = base * Pow(base, n)
  <2>1. PICK f : Powers(base, n, f) /\ Pow(base, n) = f[n]
    BY PowersMet
  <2>2. PICK g : Powers(base, n + 1, g) /\ Pow(base, n + 1) = g[n + 1]
    BY PowersMet
  <2>3. f[n] = g[n]
    <3>1. n + 1 \in Nat /\ n <= n + 1
      OBVIOUS
    <3> QED
      BY <2>1, <2>2, <3>1, PowersAgree
  <2>4. g[n + 1] = base * g[(n + 1) - 1] /\ (n + 1) - 1 = n
    BY <2>2 DEF Powers
  <2>5. f[n] \in Nat
    BY <2>1 DEF Powers
  <2> QED
    BY <2>1, <2>2, <2>3, <2>4, <2>5
<1>2. Pow(base, 0) = 1
  <2>1. PICK f : Powers(base, 0, f) /\ Pow(base, 0) = f[0]
    BY PowersMet
  <2> QED
    BY <2>1 DEF Powers
<1> QED
  BY <1>1, <1>2

\* Powers do not shrink, and none is 0.
LEMMA PowGrows ==
  ASSUME NEW base \in Nat \ {0}, NEW n \in Nat, NEW m \in Nat, n <= m
  PROVE  Pow(base, n) <= Pow(base, m) /\ Pow(base, n) \in Nat \ {0}
<1>1. \A i \in Nat : Pow(base, i) \in Nat /\ Pow(base, i + 1) = base * Pow(base, i)
  BY PowIs
<1>2. Pow(base, 0) = 1
  BY PowIs
<1>3. \A p \in Nat : p <= base * p /\ (p # 0 => base * p # 0)
  BY Z3
<1> DEFINE S == {i \in Nat : Pow(base, i) # 0}
           T == {i \in Nat : n <= i => Pow(base, n) <= Pow(base, i)}
<1>4. ASSUME NEW i \in Nat, i \in S
      PROVE  i + 1 \in S
  BY <1>1, <1>3, <1>4
<1>5. 0 \in S
  BY <1>2
<1>6. ASSUME NEW i \in Nat, i \in T
      PROVE  i + 1 \in T
  <2>1. Pow(base, i) <= Pow(base, i + 1) /\ Pow(base, i) \in Nat /\ Pow(base, i + 1) \in Nat
    <3>1. Pow(base, i) \in Nat /\ i \in Nat
      BY <1>1
    <3>2. Pow(base, i) <= base * Pow(base, i)
      BY <1>3, <3>1
    <3>3. i + 1 \in Nat
      OBVIOUS
    <3> QED
      BY <1>1, <3>1, <3>2, <3>3
  <2>2. CASE n <= i
    BY <1>1, <1>6, <2>1, <2>2
  <2>3. CASE ~(n <= i)
    <3>1. n <= i + 1 => n = i + 1
      BY <2>3
    <3> QED
      BY <1>1, <3>1
  <2> QED
    BY <2>2, <2>3
<1>7. 0 \in T
  <2>1. n <= 0 => n = 0
    OBVIOUS
  <2> QED
    BY <1>1, <2>1
<1> HIDE DEF S, T
<1>8. Nat \subseteq S /\ Nat \subseteq T
  BY <1>4, <1>5, <1>6, <1>7, SetInduction
<1> QED
  BY <1>1, <1>8 DEF S, T

\* The power of a sum is the product of the powers,
LEMMA PowSum ==
  ASSUME NEW base \in Nat, NEW i \in Nat, NEW j \in Nat
  PROVE  Pow(base, i + j) = Pow(base, i) * Pow(base, j)
<1>1. \A n \in Nat : Pow(base, n) \in Nat /\ Pow(base, n + 1) = base * Pow(base, n)
  BY PowIs
<1>2. Pow(base, 0) = 1
  BY PowIs
<1> DEFINE S == {n \in Nat : Pow(base, i + n) = Pow(base, i) * Pow(base, n)}
<1>3. 0 \in S
  <2>1. i + 0 = i /\ Pow(base, i) * 1 = Pow(base, i)
    BY <1>1
  <2> QED
    BY <1>2, <2>1
<1>4. ASSUME NEW n \in Nat, n \in S
      PROVE  n + 1 \in S
  <2>1. i + (n + 1) = (i + n) + 1 /\ i + n \in Nat
    OBVIOUS
  <2>2. Pow(base, i + (n + 1)) = base * (Pow(base, i) * Pow(base, n))
    BY <1>1, <1>4, <2>1
  <2>3. Pow(base, i) * Pow(base, n + 1) = Pow(base, i) * (base * Pow(base, n))
    BY <1>1
  <2>4. \A p, q \in Nat : base * (p * q) = p * (base * q)
    BY Z3
  <2> QED
    BY <1>1, <2>2, <2>3, <2>4
<1> HIDE DEF S
<1>5. Nat \subseteq S
  BY <1>3, <1>4, SetInduction
<1> QED
  BY <1>5 DEF S

\* and that of a product the power of the power.
LEMMA PowPow ==
  ASSUME NEW base \in Nat, NEW i \in Nat, NEW j \in Nat
  PROVE  Pow(Pow(base, i), j) = Pow(base, i * j)
<1>1. Pow(base, i) \in Nat
  BY PowIs
<1>2. /\ Pow(Pow(base, i), 0) = 1 /\ Pow(base, 0) = 1
      /\ \A n \in Nat : Pow(Pow(base, i), n + 1) = Pow(base, i) * Pow(Pow(base, i), n)
  BY <1>1, PowIs
<1> DEFINE S == {n \in Nat : Pow(Pow(base, i), n) = Pow(base, i * n)}
<1>3. 0 \in S
  BY <1>2
<1>4. ASSUME NEW n \in Nat, n \in S
      PROVE  n + 1 \in S
  <2>1. i * (n + 1) = i + i * n /\ i * n \in Nat
    BY Z3
  <2>2. Pow(base, i + i * n) = Pow(base, i) * Pow(base, i * n)
    BY <2>1, PowSum
  <2> QED
    BY <1>2, <1>4, <2>1, <2>2
<1> HIDE DEF S
<1>5. Nat \subseteq S
  BY <1>3, <1>4, SetInduction
<1> QED
  BY <1>5 DEF S

-------------------------------------------------------------------------------
(***************************************************************************)
(* Digits.                                                                 *)
(***************************************************************************)

\* What division and remainder are: tlapm's provers do arithmetic, but little of it
\* where the divisor is not a numeral.
LEMMA DivModOf ==
  ASSUME NEW v \in Nat, NEW d \in Nat \ {0}
  PROVE  \E q \in Nat, r \in 0 .. d - 1 : v \div d = q /\ v % d = r /\ v = d * q + r
<1>1. v \div d \in Int /\ v % d \in 0 .. d - 1
  OBVIOUS
<1>2. v % d = v - d * (v \div d)
  BY Z3
<1>3. \A q \in Int, r \in 0 .. d - 1 : r = v - d * q => q \in Nat /\ v = d * q + r
  BY Z3
<1> DEFINE q == v \div d
           r == v % d
<1>4. q \in Int /\ r \in 0 .. d - 1 /\ r = v - d * q
  BY <1>1, <1>2
<1>5. v \div d = q /\ v % d = r
  OBVIOUS
<1> HIDE DEF q, r
<1> QED
  BY <1>3, <1>4, <1>5

\* The other way about: who has quotient and remainder knows division and remainder.
LEMMA DivModAre ==
  ASSUME NEW d \in Nat \ {0}, NEW q \in Nat, NEW r \in 0 .. d - 1
  PROVE  (d * q + r) \div d = q /\ (d * q + r) % d = r
BY Z3

\* A digit and the digits above it make what there was.
LEMMA DivDiv ==
  ASSUME NEW v \in Nat, NEW d \in Nat \ {0}, NEW b \in Nat \ {0}
  PROVE  ((v \div d) % b) + b * (v \div (b * d)) = v \div d
<1>1. PICK q \in Nat, r \in 0 .. d - 1 : v \div d = q /\ v % d = r /\ v = d * q + r
  BY DivModOf
<1>2. PICK s \in Nat, t \in 0 .. b - 1 : q \div b = s /\ q % b = t /\ q = b * s + t
  BY DivModOf
<1>3. d * t + r \in 0 .. b * d - 1 /\ b * d \in Nat \ {0}
  BY Z3
<1>4. d * (b * s + t) + r = (b * d) * s + (d * t + r)
  BY Z3
<1>5. v \div (b * d) = s
  <2>1. v = (b * d) * s + (d * t + r)
    BY <1>1, <1>2, <1>4
  <2> QED
    BY <1>3, <2>1, DivModAre
<1>6. t + b * s = q
  BY <1>2
<1> QED
  BY <1>1, <1>2, <1>5, <1>6

\* f[k] is what the last k digits make.
Makes(digits, base, f) ==
  /\ f[0] = 0
  /\ \A k \in 1..Len(digits) : f[k] = digits[Len(digits) - k + 1] + base * f[k - 1]

\* The definition has a function of what the last digits make.
LEMMA JoinedMet ==
  ASSUME NEW base \in Nat, NEW digits \in Seq(Nat)
  PROVE  \E f : Makes(digits, base, f) /\ Joined(digits, base) = f[Len(digits)]
<1> DEFINE n == Len(digits)
           Rule == [p \in (0..n) \X [0..n -> Nat] |->
                      IF p[1] = 0 THEN 0 ELSE digits[n - p[1] + 1] + base * p[2][p[1] - 1]]
           Body(f) == [k \in 0..n |-> IF k = 0 THEN 0 ELSE digits[n - k + 1] + base * f[k - 1]]
           last == CHOOSE f : f = Body(f)
<1>0. n \in Nat /\ \A i \in 1..n : digits[n - i + 1] \in Nat
  <2>1. n \in Nat /\ \A i \in 1..n : digits[i] \in Nat
    BY LenProperties, ElementOfSeq
  <2>2. \A i \in 1..n : n - i + 1 \in 1..n
    BY <2>1
  <2> QED
    BY <2>1, <2>2
<1>8. Joined(digits, base) = last[n]
  BY DEF Joined
<1> HIDE DEF n
<1>1. \A i \in 0..n : \A f \in [0..n -> Nat] :
        /\ Rule[<<i, f>>] = (IF i = 0 THEN 0 ELSE digits[n - i + 1] + base * f[i - 1])
        /\ Rule[<<i, f>>] \in Nat
  <2> TAKE i \in 0..n
  <2> TAKE f \in [0..n -> Nat]
  <2>1. Rule[<<i, f>>] = (IF i = 0 THEN 0 ELSE digits[n - i + 1] + base * f[i - 1])
    OBVIOUS
  <2>2. i # 0 => i \in 1..n /\ i - 1 \in 0..n
    BY <1>0
  <2>3. i # 0 => digits[n - i + 1] \in Nat /\ f[i - 1] \in Nat
    BY <1>0, <2>2
  <2>4. \A x, y \in Nat : x + base * y \in Nat
    BY Z3
  <2> QED
    BY <2>1, <2>3, <2>4
<1>2. Rule \in [(0..n) \X [0..n -> Nat] -> Nat]
  <2>1. \A p \in (0..n) \X [0..n -> Nat] : p = <<p[1], p[2]>> /\ p[1] \in 0..n /\ p[2] \in [0..n -> Nat]
    OBVIOUS
  <2>2. \A p \in (0..n) \X [0..n -> Nat] : Rule[p] \in Nat
    <3> HIDE DEF Rule
    <3> QED
      BY <1>1, <2>1
  <2> QED
    BY <2>2
<1> HIDE DEF Rule
<1>3. \A i \in 0..n : \A f, g \in [0..n -> Nat] :
        (\A j \in 0 .. i - 1 : f[j] = g[j]) => Rule[<<i, f>>] = Rule[<<i, g>>]
  <2> TAKE i \in 0..n
  <2> TAKE f, g \in [0..n -> Nat]
  <2>1. i # 0 => i - 1 \in 0 .. i - 1
    BY <1>0
  <2> QED
    BY <1>1, <2>1
<1>4. 0 \in Nat /\ Rule \in Rules(n, Nat)
  BY <1>2, <1>3 DEF Rules
<1>5. PICK f \in Obeying(Rule, n, Nat) : TRUE
  BY <1>0, <1>4, Recursion
<1>6. f = Body(f)
  <2>1. f \in [0..n -> Nat] /\ \A i \in 0..n : f[i] = Rule[<<i, f>>]
    BY DEF Obeying
  <2> QED
    BY <1>1, <2>1
<1>7. last = Body(last)
  <2> HIDE DEF Body
  <2> QED
    BY <1>6
<1> HIDE DEF last
<1>9. /\ last[0] = 0
      /\ \A i \in 1..n : last[i] = digits[n - i + 1] + base * last[i - 1]
  BY <1>0, <1>7
<1>10. Makes(digits, base, last)
  BY <1>9 DEF Makes, n
<1> QED
  BY <1>8, <1>10 DEF n

\* The digits of a number that fits make it again.
LEMMA SplitJoins ==
  ASSUME NEW base \in Nat \ {0}, NEW n \in Nat, NEW v \in Nat, v < Pow(base, n)
  PROVE  /\ Split(v, base, n) \in Seq(0 .. base - 1) /\ Len(Split(v, base, n)) = n
         /\ Joined(Split(v, base, n), base) = v
<1> DEFINE s == Split(v, base, n)
           p(i) == Pow(base, i)
<1>1. \A i \in Nat : p(i) \in Nat \ {0} /\ p(i + 1) = base * p(i)
  <2>1. \A i \in Nat : p(i + 1) = base * p(i)
    BY PowIs
  <2>2. ASSUME NEW i \in Nat PROVE p(i) \in Nat \ {0}
    BY PowGrows
  <2> QED
    BY <2>1, <2>2
<1>2. \A i \in 1..n : s[i] = (v \div p(i - 1)) % base /\ s[i] \in 0 .. base - 1
  <2> SUFFICES ASSUME NEW i \in 1..n
               PROVE  s[i] = (v \div p(i - 1)) % base /\ s[i] \in 0 .. base - 1
    OBVIOUS
  <2>1. s[i] = (v \div p(i - 1)) % base
    BY DEF Split
  <2>2. i - 1 \in Nat
    OBVIOUS
  <2>3. p(i - 1) \in Nat \ {0}
    BY <1>1, <2>2
  <2> HIDE DEF p
  <2>4. PICK q \in Nat, r \in 0 .. p(i - 1) - 1 : v \div p(i - 1) = q
    BY <2>3, DivModOf
  <2>5. PICK t \in Nat, u \in 0 .. base - 1 : q % base = u
    BY DivModOf
  <2> QED
    BY <2>1, <2>4, <2>5
<1>3. s \in Seq(0 .. base - 1) /\ Len(s) = n
  <2>1. s = [i \in 1..n |-> s[i]]
    BY DEF Split
  <2> HIDE DEF s
  <2>2. s \in [1..n -> 0 .. base - 1]
    BY <1>2, <2>1
  <2>3. s \in Seq(0 .. base - 1)
    BY <2>2, SeqDef
  <2>4. DOMAIN s = 1..n /\ DOMAIN s = 1..Len(s) /\ Len(s) \in Nat
    BY <2>2, <2>3, LenProperties
  <2> QED
    BY <2>3, <2>4
<1> HIDE DEF s
<1>4. s \in Seq(Nat)
  BY <1>3, SeqMonotonic
<1>5. PICK f : Makes(s, base, f) /\ Joined(s, base) = f[Len(s)]
  BY <1>4, JoinedMet
<1> DEFINE S == {k \in Nat : k <= n => f[k] = v \div p(n - k)}
<1>6. 0 \in S
  <2>1. p(n) \in Nat \ {0} /\ v = p(n) * 0 + v /\ v \in 0 .. p(n) - 1
    BY <1>1
  <2> HIDE DEF p
  <2>2. (p(n) * 0 + v) \div p(n) = 0
    BY <2>1, DivModAre
  <2>3. n - 0 = n /\ f[0] = 0
    BY <1>5 DEF Makes
  <2> QED
    BY <2>1, <2>2, <2>3
<1>7. ASSUME NEW k \in Nat, k \in S
      PROVE  k + 1 \in S
  <2> SUFFICES ASSUME k + 1 <= n PROVE f[k + 1] = v \div p(n - (k + 1))
    OBVIOUS
  <2> DEFINE i == n - (k + 1)
  <2>1. i \in Nat /\ i + 1 = n - k /\ n - (k + 1) + 1 = i + 1 /\ i + 1 \in 1..n /\ (i + 1) - 1 = i
        /\ k + 1 \in 1..n /\ (k + 1) - 1 = k
    OBVIOUS
  <2>2. f[k + 1] = s[i + 1] + base * f[k]
    BY <1>3, <1>5, <2>1 DEF Makes
  <2>3. f[k] = v \div p(i + 1)
    BY <1>7, <2>1
  <2>4. s[i + 1] = (v \div p(i)) % base
    BY <1>2, <2>1
  <2>5. p(i) \in Nat \ {0} /\ p(i + 1) = base * p(i)
    BY <1>1, <2>1
  <2> HIDE DEF p, i
  <2>6. ((v \div p(i)) % base) + base * (v \div (base * p(i))) = v \div p(i)
    BY <2>5, DivDiv
  <2>7. f[k + 1] = v \div p(i)
    BY <2>2, <2>3, <2>4, <2>5, <2>6
  <2> QED
    BY <2>7 DEF i
<1> HIDE DEF S
<1>8. Nat \subseteq S
  BY <1>6, <1>7, SetInduction
<1>9. f[n] = v \div p(0) /\ p(0) = 1
  <2>1. n \in S /\ n - n = 0
    BY <1>8
  <2> QED
    BY <2>1, PowIs DEF S
<1>10. f[n] = v
  BY <1>9
<1> QED
  BY <1>3, <1>5, <1>10 DEF s

\* The powers that are needed.
LEMMA PowersOfTwo ==
  Pow(2, 4) = 16 /\ Pow(2, 7) = 128 /\ Pow(2, 8) = 256
<1>1. /\ Pow(2, 0) = 1 /\ Pow(2, 0 + 1) = 2 * Pow(2, 0) /\ Pow(2, 1 + 1) = 2 * Pow(2, 1)
      /\ Pow(2, 2 + 1) = 2 * Pow(2, 2) /\ Pow(2, 3 + 1) = 2 * Pow(2, 3)
      /\ Pow(2, 4 + 1) = 2 * Pow(2, 4) /\ Pow(2, 5 + 1) = 2 * Pow(2, 5)
      /\ Pow(2, 6 + 1) = 2 * Pow(2, 6) /\ Pow(2, 7 + 1) = 2 * Pow(2, 7)
  BY PowIs
<1> QED
  BY <1>1

\* The widths fit together: the longest varint holds every number, as does a fixed field.
LEMMA Widths ==
  /\ Group \in Nat \ {0} /\ Width \in Nat \ {0} /\ FixedBytes \in Nat \ {0} /\ Groups \in Nat \ {0}
  /\ More \in Nat \ {0} /\ Byte = 2 * More
  /\ Limit \in Nat /\ Limit >= 128
  /\ Limit <= Pow(More, Groups) /\ Limit = Pow(Byte, FixedBytes)
<1>1. Group \in Nat \ {0} /\ Width \in Nat \ {0} /\ FixedBytes \in Nat \ {0}
      /\ Width >= 7 /\ FixedBytes * (Group + 1) = Width
  BY CodecAssumption
<1>2. Groups \in Nat \ {0} /\ Width <= Group * Groups
  <2>1. PICK q \in Nat, r \in 0 .. Group - 1 :
          (Width + Group - 1) \div Group = q /\ Width + Group - 1 = Group * q + r
    <3>1. Width + Group - 1 \in Nat
      BY <1>1
    <3> QED
      BY <1>1, <3>1, DivModOf
  <2>2. Width <= Group * q
    BY <1>1, <2>1
  <2>3. q # 0
    BY <1>1, <2>2
  <2> QED
    BY <2>1, <2>2, <2>3 DEF Groups
<1>3. More \in Nat \ {0} /\ Limit \in Nat
  BY <1>1, PowGrows DEF More, Limit
<1>4. Byte = 2 * More
  BY <1>1, PowIs DEF Byte, More
<1>5. Limit >= 128
  <2>1. Pow(2, 7) <= Pow(2, Width)
    BY <1>1, PowGrows
  <2> QED
    BY <1>3, <2>1, PowersOfTwo DEF Limit
<1>6. Limit <= Pow(More, Groups)
  <2>1. Pow(More, Groups) = Pow(2, Group * Groups)
    BY <1>1, <1>2, PowPow DEF More
  <2>2. Group * Groups \in Nat
    BY <1>1, <1>2
  <2>3. Pow(2, Width) <= Pow(2, Group * Groups)
    BY <1>1, <1>2, <2>2, PowGrows
  <2> QED
    BY <2>1, <2>3 DEF Limit
<1>7. Limit = Pow(Byte, FixedBytes)
  <2>1. Pow(Byte, FixedBytes) = Pow(2, (Group + 1) * FixedBytes)
    BY <1>1, PowPow DEF Byte
  <2>2. (Group + 1) * FixedBytes = Width
    BY <1>1
  <2> QED
    BY <2>1, <2>2 DEF Limit
<1> QED
  BY <1>1, <1>2, <1>3, <1>4, <1>5, <1>6, <1>7

-------------------------------------------------------------------------------
(***************************************************************************)
(* Varints.                                                                *)
(***************************************************************************)

\* Data and texts.
Bytes == Seq(0 .. Byte - 1)

\* What the bytes of s spell: the last and no other is without the mark for more.
Spells(s, v) ==
  /\ s \in Bytes /\ Len(s) \in 1..Groups
  /\ s[Len(s)] < More /\ \A i \in 1 .. Len(s) - 1 : s[i] >= More
  /\ Joined([i \in 1..Len(s) |-> s[i] % More], More) = v

\* Some number of groups is the least that holds a number,
LEMMA SomeGroups ==
  ASSUME NEW v \in Nat, v < Limit
  PROVE  \E n \in 1..Groups : v < Pow(More, n) /\ (n = 1 \/ v >= Pow(More, n - 1))
<1> SUFFICES ASSUME \A n \in 1..Groups : v < Pow(More, n) => n # 1 /\ v < Pow(More, n - 1)
             PROVE  FALSE
  <2>1. \A n \in 1..Groups : Pow(More, n - 1) \in Nat
    <3> TAKE n \in 1..Groups
    <3>1. n - 1 \in Nat /\ More \in Nat
      BY Widths
    <3> QED
      BY <3>1, PowIs
  <2> QED
    BY <2>1
<1> DEFINE S == {k \in Nat : k < Groups => v < Pow(More, Groups - k)}
<1>1. Groups \in Nat \ {0} /\ v < Pow(More, Groups)
  <2>1. Pow(More, Groups) \in Nat
    BY Widths, PowIs
  <2> QED
    BY <2>1, Widths
<1>2. 0 \in S
  BY <1>1
<1>3. ASSUME NEW k \in Nat, k \in S
      PROVE  k + 1 \in S
  <2>1. k + 1 < Groups => /\ Groups - k \in 1..Groups /\ Groups - (k + 1) = (Groups - k) - 1
                          /\ v < Pow(More, Groups - k)
    BY <1>1, <1>3
  <2> QED
    BY <2>1
<1> HIDE DEF S
<1>4. Groups - 1 \in S
  BY <1>1, <1>2, <1>3, SetInduction
<1>5. v < Pow(More, 1)
  BY <1>1, <1>4 DEF S
<1> QED
  BY <1>1, <1>5

\* so every number, masked, is spelled by its varint.
LEMMA VarintSpells ==
  ASSUME NEW v \in Int
  PROVE  Spells(Varint(v), Masked(v))
<1> DEFINE w == Masked(v)
           n == CHOOSE n \in 1..Groups : w < Pow(More, n) /\ (n = 1 \/ w >= Pow(More, n - 1))
           group == Split(w, More, n)
           s == [i \in 1..n |-> group[i] + (IF i < n THEN More ELSE 0)]
<1>1. w \in Nat /\ w < Limit
  BY Widths DEF Masked
<1>2. Varint(v) = s
  BY DEF Varint
<1> HIDE DEF w
<1>3. n \in 1..Groups /\ w < Pow(More, n)
  BY <1>1, SomeGroups
<1> HIDE DEF n
<1>4. n \in Nat \ {0}
  BY <1>3, Widths
<1>5. group \in Seq(0 .. More - 1) /\ Len(group) = n /\ Joined(group, More) = w
  BY <1>1, <1>3, <1>4, SplitJoins, Widths
<1> HIDE DEF group
<1>6. \A i \in 1..n : group[i] \in 0 .. More - 1
  BY <1>5, ElementOfSeq
<1>7. \A i \in 1..n : /\ s[i] \in 0 .. Byte - 1
                      /\ (i < n => s[i] >= More) /\ (i = n => s[i] < More)
                      /\ s[i] % More = group[i]
  <2> TAKE i \in 1..n
  <2>1. s[i] = group[i] + (IF i < n THEN More ELSE 0) /\ group[i] \in 0 .. More - 1
    BY <1>6
  <2>2. \A q \in {0, 1} : (More * q + group[i]) % More = group[i]
    <3> TAKE q \in {0, 1}
    <3>1. q \in Nat /\ More \in Nat \ {0} /\ group[i] \in 0 .. More - 1
      BY <2>1, Widths
    <3> QED
      BY <3>1, DivModAre
  <2>3. (More + group[i]) % More = group[i] /\ group[i] % More = group[i]
    <3>1. More * 1 + group[i] = More + group[i] /\ More * 0 + group[i] = group[i]
      BY <2>1, Widths
    <3> QED
      BY <2>2, <3>1
  <2>4. group[i] + More = More + group[i] /\ group[i] + 0 = group[i]
    BY <2>1, Widths
  <2>5. s[i] % More = group[i]
    BY <2>1, <2>3, <2>4
  <2> QED
    BY <1>4, <2>1, <2>5, Widths
<1>8. s \in Bytes /\ Len(s) = n
  <2>1. s = [i \in 1..n |-> s[i]]
    OBVIOUS
  <2> HIDE DEF s
  <2>2. s \in [1..n -> 0 .. Byte - 1]
    BY <1>7, <2>1
  <2>3. s \in Seq(0 .. Byte - 1)
    BY <1>4, <2>2, SeqDef
  <2>4. DOMAIN s = 1..n /\ DOMAIN s = 1..Len(s) /\ Len(s) \in Nat
    BY <2>2, <2>3, LenProperties
  <2> QED
    BY <1>4, <2>3, <2>4 DEF Bytes
<1> HIDE DEF s
<1>9. [i \in 1..Len(s) |-> s[i] % More] = group
  <2>1. group = [i \in 1..n |-> group[i]]
    <3>1. DOMAIN group = 1..n
      BY <1>5, LenProperties
    <3> QED
      BY <1>5, <3>1
  <2>2. [i \in 1..n |-> s[i] % More] = [i \in 1..n |-> group[i]]
    BY <1>7
  <2> QED
    BY <1>8, <2>1, <2>2
<1>10. Spells(s, w)
  <2>1. s[n] < More /\ \A i \in 1 .. n - 1 : s[i] >= More
    BY <1>4, <1>7
  <2>2. Joined([i \in 1..Len(s) |-> s[i] % More], More) = w
    BY <1>5, <1>9
  <2> QED
    BY <1>3, <1>8, <2>1, <2>2 DEF Spells
<1> QED
  BY <1>2, <1>10 DEF w

\* What a number in the width is masked to.
LEMMA MaskedIs ==
  ASSUME NEW v \in 0 .. Limit - 1
  PROVE  Masked(v) = v
<1>1. Limit \in Nat \ {0} /\ v = Limit * 0 + v
  BY Widths
<1>2. (Limit * 0 + v) % Limit = v
  BY <1>1, DivModAre
<1> QED
  BY <1>1, <1>2 DEF Masked

\* What stands behind the first off bytes of data is the first k bytes of s.
Behind(data, off, s, k) ==
  /\ data \in Bytes /\ off \in Nat /\ k \in 0..Len(s) /\ off + k <= Len(data)
  /\ \A i \in 1..k : data[off + i] = s[i]

\* A varint that is there is read.
LEMMA VarintRead ==
  ASSUME NEW s, NEW v, Spells(s, v), NEW data, NEW off, Behind(data, off, s, Len(s))
  PROVE  ReadVarint(data, off) = [value |-> v, next |-> off + Len(s)]
<1> DEFINE n    == Len(s)
           ends == {i \in 1 .. LesserOf(Groups, Len(data) - off) : data[off + i] < More}
<1>1. /\ n \in 1..Groups /\ s[n] < More /\ \A i \in 1 .. n - 1 : s[i] >= More
      /\ s \in Bytes /\ Joined([i \in 1..n |-> s[i] % More], More) = v
  BY DEF Spells
<1>2. /\ data \in Bytes /\ off \in Nat /\ off + n <= Len(data)
      /\ \A i \in 1..n : data[off + i] = s[i]
  BY DEF Behind
<1> HIDE DEF n
<1>3. Len(data) \in Nat /\ Groups \in Nat /\ More \in Nat
  BY <1>2, Widths, LenProperties DEF Bytes
<1>4. n \in ends
  BY <1>1, <1>2, <1>3 DEF LesserOf
<1>5. \A i \in ends : i \in Nat /\ n <= i
  <2> TAKE i \in ends
  <2>1. i \in Nat \ {0} /\ data[off + i] < More
    BY <1>2, <1>3 DEF LesserOf
  <2>2. i <= n - 1 => s[i] \in Nat /\ s[i] >= More /\ data[off + i] = s[i]
    <3>1. \A j \in 1..n : s[j] \in 0 .. Byte - 1
      BY <1>1, ElementOfSeq DEF Bytes, n
    <3>2. i <= n - 1 => i \in 1..n /\ i \in 1 .. n - 1
      BY <1>1, <1>3, <2>1
    <3>3. \A x \in 0 .. Byte - 1 : x \in Nat
      BY Widths
    <3> QED
      BY <1>1, <1>2, <3>1, <3>2, <3>3
  <2> QED
    BY <1>1, <1>3, <2>1, <2>2
<1> HIDE DEF ends
<1>6. Min(ends) = n
  <2>1. n \in Nat /\ \A m \in ends : (\A i \in ends : m <= i) => m = n
    BY <1>1, <1>3, <1>4, <1>5
  <2>2. \A i \in ends : n <= i
    BY <1>5
  <2> QED
    BY <1>4, <2>1, <2>2 DEF Min
<1>7. [i \in 1..n |-> data[off + i] % More] = [i \in 1..n |-> s[i] % More]
  BY <1>2
<1>8. ReadVarint(data, off) = [value |-> Joined([i \in 1..n |-> data[off + i] % More], More),
                               next  |-> off + n]
  BY <1>4, <1>6 DEF ReadVarint, ends
<1> QED
  BY <1>1, <1>7, <1>8 DEF n

\* One that is cut short is not.
LEMMA VarintCut ==
  ASSUME NEW s, NEW v, Spells(s, v), NEW data, NEW off, NEW k,
         Behind(data, off, s, k), off + k = Len(data), k < Len(s)
  PROVE  ReadVarint(data, off) = Raises
<1> DEFINE ends == {i \in 1 .. LesserOf(Groups, Len(data) - off) : data[off + i] < More}
<1>1. /\ Len(s) \in 1..Groups /\ \A i \in 1 .. Len(s) - 1 : s[i] >= More
      /\ \A i \in 1..Len(s) : s[i] \in Nat
  <2>1. \A i \in 1..Len(s) : s[i] \in 0 .. Byte - 1
    BY ElementOfSeq DEF Spells, Bytes
  <2> QED
    BY <2>1, Widths DEF Spells
<1>2. /\ off \in Nat /\ k \in Nat /\ \A i \in 1..k : data[off + i] = s[i]
  BY <1>1 DEF Behind
<1>3. Groups \in Nat /\ More \in Nat
  BY Widths
<1>4. ASSUME NEW i \in ends PROVE FALSE
  <2>1. i \in 1..k /\ data[off + i] < More
    BY <1>2, <1>3 DEF LesserOf
  <2>2. i \in 1 .. Len(s) - 1 /\ i \in 1..Len(s)
    BY <1>1, <1>2, <1>3, <2>1
  <2> QED
    BY <1>1, <1>2, <1>3, <2>1, <2>2
<1> HIDE DEF ends
<1>5. ends = {}
  BY <1>4
<1> QED
  BY <1>5 DEF ReadVarint, ends

\* What is behind off is that of the first part and, behind it, of the second.
LEMMA BehindBoth ==
  ASSUME NEW s \in Bytes, NEW t \in Bytes, NEW data, NEW off, NEW k,
         Behind(data, off, s \o t, k)
  PROVE  /\ k >= Len(s) => /\ Behind(data, off, s, Len(s))
                           /\ Behind(data, off + Len(s), t, k - Len(s))
         /\ k < Len(s) => Behind(data, off, s, k)
<1>1. /\ s \o t \in Bytes /\ Len(s \o t) = Len(s) + Len(t) /\ Len(s) \in Nat /\ Len(t) \in Nat
      /\ \A i \in 1 .. Len(s) + Len(t) :
           (s \o t)[i] = IF i <= Len(s) THEN s[i] ELSE t[i - Len(s)]
  BY ConcatProperties, LenProperties DEF Bytes
<1>2. /\ data \in Bytes /\ off \in Nat /\ k \in 0 .. Len(s) + Len(t) /\ off + k <= Len(data)
      /\ \A i \in 1..k : data[off + i] = (s \o t)[i]
  BY <1>1 DEF Behind
<1>3. Len(data) \in Nat
  BY <1>2, LenProperties DEF Bytes
<1>4. CASE k >= Len(s)
  <2>1. \A i \in 1..Len(s) : data[off + i] = s[i]
    BY <1>1, <1>2, <1>4
  <2>2. ASSUME NEW i \in 1 .. k - Len(s)
        PROVE  data[off + Len(s) + i] = t[i]
    <3>1. Len(s) + i \in 1..k /\ off + (Len(s) + i) = off + Len(s) + i /\ (Len(s) + i) - Len(s) = i
          /\ Len(s) + i \in 1 .. Len(s) + Len(t) /\ ~(Len(s) + i <= Len(s))
      BY <1>1, <1>2, <1>4
    <3>2. data[off + (Len(s) + i)] = (s \o t)[Len(s) + i]
      BY <1>2, <3>1
    <3>3. (s \o t)[Len(s) + i] = t[(Len(s) + i) - Len(s)]
      BY <1>1, <3>1
    <3> QED
      BY <3>1, <3>2, <3>3
  <2>3. Behind(data, off, s, Len(s))
    BY <1>1, <1>2, <1>3, <1>4, <2>1 DEF Behind
  <2>4. Behind(data, off + Len(s), t, k - Len(s))
    BY <1>1, <1>2, <1>3, <1>4, <2>2 DEF Behind
  <2> QED
    BY <1>1, <1>2, <1>4, <2>3, <2>4
<1>5. CASE k < Len(s)
  <2>1. \A i \in 1..k : data[off + i] = s[i]
    BY <1>1, <1>2, <1>5
  <2>2. Behind(data, off, s, k)
    BY <1>1, <1>2, <1>5, <2>1 DEF Behind
  <2> QED
    BY <1>1, <1>2, <1>5, <2>2
<1> QED
  BY <1>1, <1>2, <1>4, <1>5

\* Any number of the width, and -1, is read as it was written, whatever follows.
THEOREM VarintsSurvive == VarintsRoundTrip
<1> SUFFICES ASSUME NEW v \in -1 .. Limit - 1, NEW rest \in {<<>>, <<Byte - 1>>}
             PROVE  ReadVarint(Varint(v) \o rest, 0)
                      = [value |-> Masked(v), next |-> Len(Varint(v))]
  BY DEF VarintsRoundTrip
<1> DEFINE s == Varint(v)
           data == s \o rest
<1>1. v \in Int
  BY Widths
<1>2. Spells(s, Masked(v))
  BY <1>1, VarintSpells
<1>3. s \in Bytes /\ rest \in Bytes /\ Len(s) \in Nat /\ Len(rest) \in Nat
  <2>1. rest \in Bytes
    <3>1. <<>> \in Bytes
      BY DEF Bytes
    <3>2. <<Byte - 1>> \in Bytes
      <4>1. Byte - 1 \in 0 .. Byte - 1
        BY Widths
      <4> HIDE DEF Bytes
      <4>2. \A B : \A b \in B : <<b>> \in Seq(B)
        OBVIOUS
      <4> QED
        BY <4>1, <4>2 DEF Bytes
    <3> QED
      BY <3>1, <3>2
  <2>2. s \in Bytes
    BY <1>2 DEF Spells
  <2> QED
    BY <2>1, <2>2, LenProperties DEF Bytes
<1> HIDE DEF s
<1>4. /\ data \in Bytes /\ Len(data) = Len(s) + Len(rest)
      /\ \A i \in 1..Len(s) : data[0 + i] = s[i]
  BY <1>3, ConcatProperties DEF Bytes
<1> HIDE DEF data
<1>5. Behind(data, 0, s, Len(s))
  BY <1>3, <1>4 DEF Behind
<1>6. ReadVarint(data, 0) = [value |-> Masked(v), next |-> 0 + Len(s)]
  BY <1>2, <1>5, VarintRead
<1>7. 0 + Len(s) = Len(s)
  BY <1>3
<1> QED
  BY <1>6, <1>7 DEF data, s

-------------------------------------------------------------------------------
(***************************************************************************)
(* Fields.                                                                 *)
(***************************************************************************)

\* What reading a varint, and a field, yields.
Reads  == [value : Nat, next : Nat]
Fields == [number : Nat, wire : Nat, value : Nat \cup Seq(Nat), next : Nat]

\* No result is an error.
LEMMA ResultsAreNone == \A r \in Reads \cup Fields : r # Raises /\ r # NotThere
  BY CodecAssumption DEF Reads, Fields

\* What a key says.
Tag(number, wire) == 8 * number + wire

\* The key of a field these messages have is one varint, and says number and wire type.
LEMMA KeySpells ==
  ASSUME NEW number \in 1..11, NEW wire \in 0..2
  PROVE  /\ Spells(Key(number, wire), Tag(number, wire)) /\ Tag(number, wire) \in Nat
         /\ Tag(number, wire) % 8 = wire /\ Tag(number, wire) \div 8 = number
<1>1. 8 * number + wire \in 0 .. Limit - 1
  BY Widths
<1>2. Spells(Key(number, wire), 8 * number + wire)
  <2>1. Spells(Varint(8 * number + wire), Masked(8 * number + wire))
    BY VarintSpells
  <2> QED
    BY <1>1, <2>1, MaskedIs DEF Key
<1> QED
  BY <1>2 DEF Tag

\* The field that begins with a key that is read, if so is the varint behind it.
LEMMA FieldAfterKey ==
  ASSUME NEW number \in 1..11, NEW data, NEW off, NEW o \in Nat, NEW w \in Nat, NEW p \in Nat,
         ReadVarint(data, o) = [value |-> w, next |-> p]
  PROVE  /\ ReadVarint(data, off) = [value |-> Tag(number, 0), next |-> o]
            => FieldAt(data, off) = [number |-> number, wire |-> 0, value |-> w,
                                     next |-> LesserOf(p, Len(data))]
         /\ ReadVarint(data, off) = [value |-> Tag(number, 2), next |-> o]
            => FieldAt(data, off) = [number |-> number, wire |-> 2, value |-> Slice(data, p, w),
                                     next |-> LesserOf(p + w, Len(data))]
<1> DEFINE key(wire) == [value |-> Tag(number, wire), next |-> o]
           arg == [value |-> w, next |-> p]
<1>1. arg \in Reads /\ arg.value = w /\ arg.next = p /\ arg # Raises
  BY ResultsAreNone DEF Reads
<1>2. \A wire \in 0..2 : /\ key(wire) # Raises /\ key(wire).value % 8 = wire
                         /\ key(wire).value \div 8 = number /\ key(wire).next = o
  <2> TAKE wire \in 0..2
  <2>1. key(wire) \in Reads
    BY KeySpells DEF Reads
  <2> QED
    BY <2>1, KeySpells, ResultsAreNone
<1>3. ReadVarint(data, o) = arg
  OBVIOUS
<1> HIDE DEF key, arg
<1>4. ASSUME ReadVarint(data, off) = key(0)
      PROVE  FieldAt(data, off) = [number |-> number, wire |-> 0, value |-> w,
                                   next |-> LesserOf(p, Len(data))]
  BY <1>1, <1>2, <1>3, <1>4 DEF FieldAt
<1>5. ASSUME ReadVarint(data, off) = key(2)
      PROVE  FieldAt(data, off) = [number |-> number, wire |-> 2, value |-> Slice(data, p, w),
                                   next |-> LesserOf(p + w, Len(data))]
  BY <1>1, <1>2, <1>3, <1>5 DEF FieldAt
<1> QED
  BY <1>4, <1>5 DEF key

\* A fixed field has none.
LEMMA LongAfterKey ==
  ASSUME NEW number \in 1..11, NEW data, NEW off, NEW o \in Nat,
         ReadVarint(data, off) = [value |-> Tag(number, 1), next |-> o]
  PROVE  FieldAt(data, off) = [number |-> number, wire |-> 1,
                               value |-> Slice(data, o, FixedBytes),
                               next |-> LesserOf(o + FixedBytes, Len(data))]
<1> DEFINE key == [value |-> Tag(number, 1), next |-> o]
<1>1. key # Raises /\ key.value % 8 = 1 /\ key.value \div 8 = number /\ key.next = o
  <2>1. 1 \in 0..2
    OBVIOUS
  <2>2. key \in Reads
    BY <2>1, KeySpells DEF Reads
  <2> QED
    BY <2>1, <2>2, KeySpells, ResultsAreNone
<1>2. ReadVarint(data, off) = key
  OBVIOUS
<1> HIDE DEF key
<1> QED
  BY <1>1, <1>2 DEF FieldAt

\* If the varint is not read, there is no field,
LEMMA ArgumentCut ==
  ASSUME NEW number \in 1..11, NEW wire \in {0, 2}, NEW data, NEW off, NEW o \in Nat,
         ReadVarint(data, off) = [value |-> Tag(number, wire), next |-> o],
         ReadVarint(data, o) = Raises
  PROVE  FieldAt(data, off) = Raises
<1> DEFINE key == [value |-> Tag(number, wire), next |-> o]
<1>1. key.value % 8 = wire /\ key.next = o
  BY KeySpells
<1> HIDE DEF key
<1>2. ReadVarint(data, off) = key
  BY DEF key
<1>3. ReadVarint(data, key.next) = Raises
  BY <1>1
<1> QED
  BY <1>1, <1>2, <1>3 DEF FieldAt

\* nor if the key is not.
LEMMA KeyCut ==
  ASSUME NEW data, NEW off, ReadVarint(data, off) = Raises
  PROVE  FieldAt(data, off) = Raises
BY DEF FieldAt

\* What a parser takes from a field.
Taken(f) == IF f.wire = 1 THEN Unpacked(f.value) ELSE f.value

FieldIs(f, number, wire, next) ==
  f \in Fields /\ f.number = number /\ f.wire = wire /\ f.next = next

\* enc is the field of that number and wire type with that value: where all of it
\* stands it is read, and where the data ends within it there is an error, or a
\* field of which nobody can take a number, and only a beginning of a text.
Encodes(enc, number, wire, value) ==
  /\ enc \in Bytes /\ enc # <<>>
  /\ \A data, off, k : Behind(data, off, enc, k) =>
       /\ k = Len(enc) =>
            /\ FieldIs(FieldAt(data, off), number, wire, off + k)
            /\ Taken(FieldAt(data, off)) = value
       /\ k < Len(enc) /\ off + k = Len(data) =>
            \/ FieldAt(data, off) = Raises
            \/ /\ FieldIs(FieldAt(data, off), number, wire, Len(data))
               /\ \/ Taken(FieldAt(data, off)) = Raises
                  \/ wire = 2 /\ IsPrefix(Taken(FieldAt(data, off)), value)

\* A key and the varint behind it.
LEMMA HeadRead ==
  ASSUME NEW key, NEW v, Spells(key, v), NEW arg, NEW w, Spells(arg, w),
         NEW data, NEW off, Behind(data, off, key \o arg, Len(key \o arg))
  PROVE  /\ ReadVarint(data, off) = [value |-> v, next |-> off + Len(key)]
         /\ ReadVarint(data, off + Len(key)) = [value |-> w, next |-> off + Len(key \o arg)]
         /\ off + Len(key) \in Nat /\ off + Len(key \o arg) \in Nat
<1>1. key \in Bytes /\ arg \in Bytes /\ Len(key) \in Nat /\ Len(arg) \in Nat
  BY LenProperties DEF Spells, Bytes
<1>2. Len(key \o arg) = Len(key) + Len(arg)
  BY <1>1, ConcatProperties DEF Bytes
<1>3. off \in Nat
  BY DEF Behind
<1>4. /\ Len(key) + Len(arg) >= Len(key) /\ (Len(key) + Len(arg)) - Len(key) = Len(arg)
      /\ off + Len(key) + Len(arg) = off + (Len(key) + Len(arg))
  BY <1>1, <1>3
<1>5. Behind(data, off, key, Len(key)) /\ Behind(data, off + Len(key), arg, Len(arg))
  BY <1>1, <1>2, <1>4, BehindBoth
<1>6. /\ ReadVarint(data, off) = [value |-> v, next |-> off + Len(key)]
      /\ ReadVarint(data, off + Len(key)) = [value |-> w, next |-> off + Len(key) + Len(arg)]
  BY <1>5, VarintRead
<1> QED
  BY <1>1, <1>2, <1>3, <1>4, <1>6

\* One of which the end is missing is an error.
LEMMA HeadCut ==
  ASSUME NEW number \in 1..11, NEW wire \in {0, 2}, NEW arg, NEW w, Spells(arg, w),
         NEW data, NEW off, NEW k, Behind(data, off, Key(number, wire) \o arg, k),
         k < Len(Key(number, wire) \o arg), off + k = Len(data)
  PROVE  FieldAt(data, off) = Raises
<1> DEFINE key == Key(number, wire)
           v == Tag(number, wire)
<1>0. wire \in 0..2
  OBVIOUS
<1>1. Spells(key, v)
  BY <1>0, KeySpells
<1> HIDE DEF key, v
<1>2. key \in Bytes /\ arg \in Bytes /\ Len(key) \in Nat /\ Len(arg) \in Nat
  BY <1>1, LenProperties DEF Spells, Bytes
<1>3. Len(key \o arg) = Len(key) + Len(arg)
  BY <1>2, ConcatProperties DEF Bytes
<1>4. off \in Nat /\ k \in Nat /\ Behind(data, off, key \o arg, k) /\ k < Len(key \o arg)
  BY <1>2, <1>3 DEF Behind, key
<1>5. CASE k < Len(key)
  <2>1. Behind(data, off, key, k)
    BY <1>2, <1>4, <1>5, BehindBoth
  <2>2. ReadVarint(data, off) = Raises
    BY <1>1, <1>5, <2>1, VarintCut
  <2> QED
    BY <2>2, KeyCut
<1>6. CASE k >= Len(key)
  <2>1. Behind(data, off, key, Len(key)) /\ Behind(data, off + Len(key), arg, k - Len(key))
    BY <1>2, <1>4, <1>6, BehindBoth
  <2>2. ReadVarint(data, off) = [value |-> v, next |-> off + Len(key)]
    BY <1>1, <2>1, VarintRead
  <2>3. off + Len(key) + (k - Len(key)) = Len(data) /\ k - Len(key) < Len(arg)
        /\ off + Len(key) \in Nat
    BY <1>2, <1>3, <1>4
  <2>4. ReadVarint(data, off + Len(key)) = Raises
    BY <2>1, <2>3, VarintCut
  <2> DEFINE o == off + Len(key)
  <2>5. /\ ReadVarint(data, off) = [value |-> Tag(number, wire), next |-> o]
        /\ ReadVarint(data, o) = Raises /\ o \in Nat
    BY <2>2, <2>3, <2>4 DEF v
  <2> HIDE DEF o
  <2> QED
    BY <2>5, ArgumentCut
<1> QED
  BY <1>2, <1>4, <1>5, <1>6

\* A number is a field.
LEMMA NumberEncoded ==
  ASSUME NEW number \in 1..11, NEW v \in 0 .. Limit - 1
  PROVE  Encodes(VarintField(number, v), number, 0, v)
<1> DEFINE key == Key(number, 0)
           arg == Varint(v)
           enc == key \o arg
<1>1. Spells(key, Tag(number, 0))
  BY KeySpells
<1>2. Spells(arg, v) /\ v \in Nat
  BY Widths, VarintSpells, MaskedIs
<1>3. enc = VarintField(number, v)
  BY DEF VarintField
<1> HIDE DEF arg
<1>4. key \in Bytes /\ arg \in Bytes /\ Len(key) \in Nat \ {0} /\ Len(arg) \in Nat
  BY <1>1, <1>2, LenProperties, Widths DEF Spells, Bytes
<1>5. enc \in Bytes /\ Len(enc) \in Nat \ {0}
  BY <1>4, ConcatProperties DEF Bytes
<1>6. ASSUME NEW data, NEW off, Behind(data, off, enc, Len(enc))
      PROVE  /\ FieldIs(FieldAt(data, off), number, 0, off + Len(enc))
             /\ Taken(FieldAt(data, off)) = v
  <2> DEFINE o == off + Len(key)
             p == off + Len(enc)
  <2>1. /\ ReadVarint(data, off) = [value |-> Tag(number, 0), next |-> o]
        /\ ReadVarint(data, o) = [value |-> v, next |-> p]
        /\ o \in Nat /\ p \in Nat
    BY <1>1, <1>2, <1>6, HeadRead
  <2>2. LesserOf(p, Len(data)) = p
    BY <1>6, <2>1, LenProperties DEF Behind, LesserOf, Bytes
  <2> HIDE DEF key, enc, o, p
  <2>3. FieldAt(data, off) = [number |-> number, wire |-> 0, value |-> v, next |-> p]
    BY <1>2, <2>1, <2>2, FieldAfterKey
  <2> QED
    BY <1>2, <2>1, <2>3 DEF FieldIs, Fields, Taken, p
<1>7. ASSUME NEW data, NEW off, NEW k, Behind(data, off, enc, k), k < Len(enc), off + k = Len(data)
      PROVE  FieldAt(data, off) = Raises
  BY <1>2, <1>7, HeadCut
<1> HIDE DEF enc
<1>8. Encodes(enc, number, 0, v)
  BY <1>5, <1>6, <1>7 DEF Encodes
<1> QED
  BY <1>3, <1>8

\* What is cut out of data is what stands there.
LEMMA SliceIs ==
  ASSUME NEW s \in Bytes, NEW data, NEW o, NEW k, Behind(data, o, s, k),
         NEW n \in Nat, k = n \/ (k <= n /\ o + k = Len(data))
  PROVE  /\ Slice(data, o, n) \in Bytes /\ Len(Slice(data, o, n)) = k
         /\ \A i \in 1..k : Slice(data, o, n)[i] = s[i]
         /\ LesserOf(o + n, Len(data)) = o + k
<1>1. /\ data \in Bytes /\ o \in Nat /\ k \in Nat /\ o + k <= Len(data) /\ Len(data) \in Nat
      /\ \A i \in 1..k : data[o + i] = s[i]
  BY LenProperties DEF Behind, Bytes
<1>2. LesserOf(o + n, Len(data)) = o + k
  BY <1>1 DEF LesserOf
<1> DEFINE t == SubSeq(data, o + 1, o + k)
<1>3. t \in Bytes /\ Len(t) = k /\ \A i \in 1..k : t[i] = data[o + i]
  <2>1. \A i \in o + 1 .. o + k : data[i] \in 0 .. Byte - 1
    <3>1. \A i \in 1..Len(data) : data[i] \in 0 .. Byte - 1
      BY <1>1, ElementOfSeq DEF Bytes
    <3> QED
      BY <1>1, <3>1
  <2>2. o + 1 \in Int /\ o + k \in Int
    BY <1>1
  <2>3. /\ t \in Seq(0 .. Byte - 1)
        /\ Len(t) = IF o + 1 <= o + k THEN (o + k) - (o + 1) + 1 ELSE 0
        /\ \A i \in 1 .. (o + k) - (o + 1) + 1 : t[i] = data[(o + 1) + i - 1]
    BY <2>1, <2>2, SubSeqProperties
  <2>4. (o + k) - (o + 1) + 1 = k /\ \A i \in 1..k : (o + 1) + i - 1 = o + i
    BY <1>1
  <2>5. Len(t) = k
    BY <1>1, <2>3, <2>4
  <2> QED
    BY <2>3, <2>4, <2>5 DEF Bytes
<1>4. Slice(data, o, n) = t
  BY <1>2 DEF Slice
<1> HIDE DEF t
<1> QED
  BY <1>1, <1>2, <1>3, <1>4

\* A sequence that has the bytes of another is a beginning of it.
LEMMA BeginsWith ==
  ASSUME NEW s \in Bytes, NEW t \in Bytes, Len(t) <= Len(s), \A i \in 1..Len(t) : t[i] = s[i]
  PROVE  IsPrefix(t, s) /\ (Len(t) = Len(s) => t = s)
<1>1. Len(t) \in Nat /\ Len(s) \in Nat
  BY LenProperties DEF Bytes
<1>2. /\ \A i \in 1..Len(t) : t[i] \in 0 .. Byte - 1
      /\ \A i \in 1..Len(s) : s[i] \in 0 .. Byte - 1
  BY ElementOfSeq DEF Bytes
<1>3. SubSeq(s, 1, Len(t)) = SubSeq(t, 1, Len(t))
  <2> DEFINE u == SubSeq(s, 1, Len(t))
             w == SubSeq(t, 1, Len(t))
  <2>1. /\ u \in Seq(0 .. Byte - 1) /\ Len(u) = (IF 1 <= Len(t) THEN Len(t) - 1 + 1 ELSE 0)
        /\ \A i \in 1 .. Len(t) - 1 + 1 : u[i] = s[1 + i - 1]
    BY <1>1, <1>2, SubSeqProperties
  <2>2. /\ w \in Seq(0 .. Byte - 1) /\ Len(w) = (IF 1 <= Len(t) THEN Len(t) - 1 + 1 ELSE 0)
        /\ \A i \in 1 .. Len(t) - 1 + 1 : w[i] = t[1 + i - 1]
    BY <1>1, <1>2, SubSeqProperties
  <2> HIDE DEF u, w
  <2>3. \A i \in 1..Len(t) : u[i] = w[i]
    <3> TAKE i \in 1..Len(t)
    <3>1. i \in 1 .. Len(t) - 1 + 1 /\ 1 + i - 1 = i
      BY <1>1
    <3> QED
      BY <2>1, <2>2, <3>1
  <2>4. Len(u) = Len(w) /\ Len(u) = Len(t)
    BY <1>1, <2>1, <2>2
  <2>5. u = w
    BY <2>1, <2>2, <2>3, <2>4, SeqEqual
  <2> QED
    BY <2>5 DEF u, w
<1>4. Len(t) = Len(s) => t = s
  <2>1. s \in Seq(0 .. Byte - 1) /\ t \in Seq(0 .. Byte - 1)
    BY DEF Bytes
  <2> QED
    BY <2>1, SeqEqual
<1> QED
  BY <1>1, <1>3, <1>4 DEF IsPrefix

\* A text is a field: cut short within its bytes it is a beginning of itself.
LEMMA TextEncoded ==
  ASSUME NEW number \in 1..11, NEW t \in Bytes, Len(t) < Limit
  PROVE  Encodes(BytesField(number, t), number, 2, t)
<1> DEFINE key == Key(number, 2)
           arg == Varint(Len(t))
           head == key \o arg
           enc == head \o t
<1>1. Spells(key, Tag(number, 2))
  <2>1. 2 \in 0..2
    OBVIOUS
  <2> QED
    BY <2>1, KeySpells
<1>2. Spells(arg, Len(t)) /\ Len(t) \in Nat
  <2>1. Len(t) \in Nat
    BY LenProperties DEF Bytes
  <2>2. Len(t) \in 0 .. Limit - 1
    BY <2>1, Widths
  <2> QED
    BY <2>1, <2>2, VarintSpells, MaskedIs
<1>3. enc = BytesField(number, t)
  BY DEF BytesField
<1> HIDE DEF arg
<1>4. key \in Bytes /\ arg \in Bytes /\ Len(key) \in Nat \ {0} /\ Len(arg) \in Nat
  BY <1>1, <1>2, LenProperties, Widths DEF Spells, Bytes
<1>5. head \in Bytes /\ Len(head) \in Nat \ {0}
  BY <1>4, ConcatProperties DEF Bytes
<1>6. \A data, off : Behind(data, off, head, Len(head)) =>
        /\ ReadVarint(data, off) = [value |-> Tag(number, 2), next |-> off + Len(key)]
        /\ ReadVarint(data, off + Len(key)) = [value |-> Len(t), next |-> off + Len(head)]
        /\ off + Len(key) \in Nat /\ off + Len(head) \in Nat
  BY <1>1, <1>2, HeadRead
<1>7. ASSUME NEW data, NEW off, NEW k, Behind(data, off, head, k), k < Len(head), off + k = Len(data)
      PROVE  FieldAt(data, off) = Raises
  BY <1>2, <1>7, HeadCut
<1> HIDE DEF key, head
<1>8. enc \in Bytes /\ Len(enc) = Len(head) + Len(t)
  BY <1>5, ConcatProperties DEF Bytes
<1>9. ASSUME NEW data, NEW off, NEW k, Behind(data, off, enc, k), k >= Len(head),
             k = Len(enc) \/ off + k = Len(data)
      PROVE  /\ FieldIs(FieldAt(data, off), number, 2, off + k)
             /\ IsPrefix(Taken(FieldAt(data, off)), t)
             /\ k = Len(enc) => Taken(FieldAt(data, off)) = t
  <2> DEFINE o == off + Len(key)
             p == off + Len(head)
             n == k - Len(head)
             u == Slice(data, p, Len(t))
  <2>1. Behind(data, off, head, Len(head)) /\ Behind(data, p, t, n)
    BY <1>5, <1>9, BehindBoth
  <2>2. /\ ReadVarint(data, off) = [value |-> Tag(number, 2), next |-> o]
        /\ ReadVarint(data, o) = [value |-> Len(t), next |-> p]
        /\ o \in Nat /\ p \in Nat
    BY <1>6, <2>1
  <2>3. off \in Nat /\ k \in Nat /\ k <= Len(enc) /\ p + n = off + k
    BY <1>2, <1>5, <1>8, <1>9 DEF Behind
  <2>4. n \in Nat /\ (n = Len(t) \/ (n <= Len(t) /\ p + n = Len(data))) /\ (k = Len(enc) => n = Len(t))
    BY <1>2, <1>5, <1>8, <1>9, <2>3
  <2> HIDE DEF o, p, n
  <2>5. /\ u \in Bytes /\ Len(u) = n /\ \A i \in 1..n : u[i] = t[i]
        /\ LesserOf(p + Len(t), Len(data)) = p + n
    BY <1>2, <2>1, <2>4, SliceIs
  <2> HIDE DEF u
  <2>6. FieldAt(data, off) = [number |-> number, wire |-> 2, value |-> u, next |-> off + k]
    <3>1. FieldAt(data, off) = [number |-> number, wire |-> 2, value |-> Slice(data, p, Len(t)),
                                next |-> LesserOf(p + Len(t), Len(data))]
      BY <1>2, <2>2, FieldAfterKey
    <3> QED
      BY <2>3, <2>5, <3>1 DEF u
  <2>7. IsPrefix(u, t) /\ (n = Len(t) => u = t)
    BY <1>2, <2>4, <2>5, BeginsWith
  <2>8. u \in Seq(Nat)
    <3>1. 0 .. Byte - 1 \subseteq Nat
      BY Widths
    <3> QED
      BY <2>5, <3>1, SeqMonotonic DEF Bytes
  <2>9. FieldAt(data, off) \in Fields
    BY <2>3, <2>6, <2>8 DEF Fields
  <2> QED
    BY <2>4, <2>6, <2>7, <2>9 DEF FieldIs, Taken
<1>10. ASSUME NEW data, NEW off, NEW k, Behind(data, off, enc, k), k < Len(head), off + k = Len(data)
       PROVE  FieldAt(data, off) = Raises
  <2>1. Behind(data, off, head, k)
    BY <1>5, <1>10, BehindBoth
  <2> QED
    BY <1>7, <1>10, <2>1
<1>11. \A data, off, k : Behind(data, off, enc, k) => k \in Nat /\ k <= Len(enc)
  BY <1>2, <1>5, <1>8 DEF Behind
<1> HIDE DEF enc
<1>12. Encodes(enc, number, 2, t)
  <2>1. enc # <<>>
    BY <1>2, <1>5, <1>8
  <2>2. ASSUME NEW data, NEW off, NEW k, Behind(data, off, enc, k), k = Len(enc)
        PROVE  /\ FieldIs(FieldAt(data, off), number, 2, off + k)
               /\ Taken(FieldAt(data, off)) = t
    <3>1. k >= Len(head)
      BY <1>2, <1>5, <1>8, <2>2
    <3> QED
      BY <1>9, <2>2, <3>1
  <2>3. ASSUME NEW data, NEW off, NEW k, Behind(data, off, enc, k), off + k = Len(data)
        PROVE  \/ FieldAt(data, off) = Raises
               \/ /\ FieldIs(FieldAt(data, off), number, 2, Len(data))
                  /\ IsPrefix(Taken(FieldAt(data, off)), t)
    <3>1. k >= Len(head) \/ k < Len(head)
      BY <1>5, <1>11, <2>3
    <3> QED
      BY <1>9, <1>10, <2>3, <3>1
  <2> QED
    BY <1>8, <2>1, <2>2, <2>3 DEF Encodes
<1> QED
  BY <1>3, <1>12

\* A fixed number is a field: cut short it cannot be unpacked.
LEMMA LongEncoded ==
  ASSUME NEW number \in 1..11, NEW v \in 0 .. Limit - 1
  PROVE  Encodes(Fixed64Field(number, v), number, 1, v)
<1> DEFINE key == Key(number, 1)
           t == Split(Masked(v), Byte, FixedBytes)
           enc == key \o t
<1>1. Spells(key, Tag(number, 1))
  BY KeySpells
<1>2. v \in Nat /\ Masked(v) = v /\ v < Pow(Byte, FixedBytes)
      /\ Byte \in Nat \ {0} /\ FixedBytes \in Nat \ {0}
  BY Widths, MaskedIs
<1>3. t \in Bytes /\ Len(t) = FixedBytes /\ Joined(t, Byte) = v
  BY <1>2, SplitJoins DEF Bytes
<1>4. enc = Fixed64Field(number, v)
  BY DEF Fixed64Field
<1> HIDE DEF t
<1>5. key \in Bytes /\ Len(key) \in Nat \ {0}
  BY <1>1, LenProperties, Widths DEF Spells, Bytes
<1> HIDE DEF key
<1>6. enc \in Bytes /\ Len(enc) = Len(key) + FixedBytes
  BY <1>3, <1>5, ConcatProperties DEF Bytes
<1>7. \A data, off, k : Behind(data, off, enc, k) => k \in Nat /\ k <= Len(enc)
  BY <1>2, <1>5, <1>6 DEF Behind
<1>8. ASSUME NEW data, NEW off, NEW k, Behind(data, off, enc, k), k < Len(key), off + k = Len(data)
      PROVE  FieldAt(data, off) = Raises
  <2>1. Behind(data, off, key, k)
    BY <1>3, <1>5, <1>8, BehindBoth
  <2>2. ReadVarint(data, off) = Raises
    BY <1>1, <1>8, <2>1, VarintCut
  <2> QED
    BY <2>2, KeyCut
<1>9. ASSUME NEW data, NEW off, NEW k, Behind(data, off, enc, k), k >= Len(key),
             k = Len(enc) \/ off + k = Len(data)
      PROVE  /\ FieldIs(FieldAt(data, off), number, 1, off + k)
             /\ Taken(FieldAt(data, off)) = IF k = Len(enc) THEN v ELSE Raises
  <2> DEFINE o == off + Len(key)
             n == k - Len(key)
             u == Slice(data, o, FixedBytes)
  <2>1. Behind(data, off, key, Len(key)) /\ Behind(data, o, t, n)
    BY <1>3, <1>5, <1>9, BehindBoth
  <2>2. off \in Nat /\ k \in Nat /\ k <= Len(enc) /\ o + n = off + k /\ o \in Nat
    BY <1>2, <1>5, <1>6, <1>9 DEF Behind
  <2>3. ReadVarint(data, off) = [value |-> Tag(number, 1), next |-> o]
    BY <1>1, <2>1, VarintRead
  <2>4. /\ n \in Nat /\ n <= FixedBytes /\ (n = FixedBytes \/ o + n = Len(data))
        /\ (k = Len(enc) <=> n = FixedBytes)
    BY <1>2, <1>5, <1>6, <1>9, <2>2
  <2> HIDE DEF o, n
  <2>5. /\ u \in Bytes /\ Len(u) = n /\ \A i \in 1..n : u[i] = t[i]
        /\ LesserOf(o + FixedBytes, Len(data)) = o + n
    BY <1>2, <1>3, <2>1, <2>4, SliceIs
  <2> HIDE DEF u
  <2>6. FieldAt(data, off) = [number |-> number, wire |-> 1, value |-> u, next |-> off + k]
    <3>1. FieldAt(data, off) = [number |-> number, wire |-> 1, value |-> Slice(data, o, FixedBytes),
                                next |-> LesserOf(o + FixedBytes, Len(data))]
      <4>1. o \in Nat
        BY <2>2
      <4> QED
        BY <2>3, <4>1, LongAfterKey
    <3> QED
      BY <2>2, <2>5, <3>1 DEF u
  <2>7. n = FixedBytes => u = t
    BY <1>3, <2>4, <2>5, BeginsWith
  <2>8. u \in Seq(Nat)
    <3>1. 0 .. Byte - 1 \subseteq Nat
      BY Widths
    <3> QED
      BY <2>5, <3>1, SeqMonotonic DEF Bytes
  <2>9. FieldAt(data, off) \in Fields
    BY <2>2, <2>6, <2>8 DEF Fields
  <2>10. Unpacked(u) = IF k = Len(enc) THEN v ELSE Raises
    BY <1>3, <2>4, <2>5, <2>7 DEF Unpacked
  <2> QED
    BY <2>6, <2>9, <2>10 DEF FieldIs, Taken
<1> HIDE DEF enc
<1>10. Encodes(enc, number, 1, v)
  <2>1. enc # <<>>
    BY <1>2, <1>5, <1>6
  <2>2. ASSUME NEW data, NEW off, NEW k, Behind(data, off, enc, k), k = Len(enc)
        PROVE  /\ FieldIs(FieldAt(data, off), number, 1, off + k)
               /\ Taken(FieldAt(data, off)) = v
    <3>1. k >= Len(key)
      BY <1>2, <1>5, <1>6, <2>2
    <3> QED
      BY <1>9, <2>2, <3>1
  <2>3. ASSUME NEW data, NEW off, NEW k, Behind(data, off, enc, k), k < Len(enc), off + k = Len(data)
        PROVE  \/ FieldAt(data, off) = Raises
               \/ /\ FieldIs(FieldAt(data, off), number, 1, Len(data))
                  /\ Taken(FieldAt(data, off)) = Raises
    <3>1. k >= Len(key) \/ k < Len(key)
      BY <1>5, <1>7, <2>3
    <3>2. k # Len(enc)
      BY <1>2, <1>5, <1>6, <1>7, <2>3
    <3> QED
      BY <1>8, <1>9, <2>3, <3>1, <3>2
  <2> QED
    BY <1>6, <2>1, <2>2, <2>3 DEF Encodes
<1> QED
  BY <1>4, <1>10

-------------------------------------------------------------------------------
(***************************************************************************)
(* Whatever the bytes, decoding goes forward and stays within them.        *)
(***************************************************************************)

\* The least of some numbers is one of them.
LEMMA MinIs ==
  ASSUME NEW S \in SUBSET Nat, S # {}
  PROVE  Min(S) \in S /\ \A i \in S : Min(S) <= i
<1> SUFFICES ASSUME \A m \in S : \E i \in S : i < m PROVE FALSE
  <2> SUFFICES ASSUME NEW m \in S, \A i \in S : m <= i
               PROVE  Min(S) \in S /\ \A i \in S : Min(S) <= i
    OBVIOUS
  <2> QED
    BY DEF Min
<1> DEFINE T == {n \in Nat : \A m \in S : n <= m}
<1>1. 0 \in T
  OBVIOUS
<1>2. ASSUME NEW n \in Nat, n \in T
      PROVE  n + 1 \in T
  <2>1. n \notin S
    BY <1>2
  <2>2. \A m \in S : m \in Nat /\ n <= m /\ m # n
    BY <1>2, <2>1
  <2> QED
    BY <2>2
<1> HIDE DEF T
<1>3. Nat \subseteq T
  BY <1>1, <1>2, SetInduction
<1>4. PICK m \in S : m \in Nat
  OBVIOUS
<1>5. m + 1 \in T
  BY <1>3
<1> QED
  BY <1>5 DEF T

\* Digits make a number.
LEMMA JoinedType ==
  ASSUME NEW base \in Nat, NEW digits \in Seq(Nat)
  PROVE  Joined(digits, base) \in Nat
<1> DEFINE n == Len(digits)
<1>1. PICK f : Makes(digits, base, f) /\ Joined(digits, base) = f[n]
  BY JoinedMet
<1>2. n \in Nat /\ \A i \in 1..n : digits[i] \in Nat
  BY LenProperties, ElementOfSeq
<1>3. f[0] = 0 /\ \A k \in 1..n : f[k] = digits[n - k + 1] + base * f[k - 1]
  BY <1>1 DEF Makes
<1> HIDE DEF n
<1> DEFINE S == {k \in Nat : k <= n => f[k] \in Nat}
<1>4. 0 \in S
  BY <1>3
<1>5. ASSUME NEW k \in Nat, k \in S
      PROVE  k + 1 \in S
  <2> SUFFICES ASSUME k + 1 <= n PROVE f[k + 1] \in Nat
    OBVIOUS
  <2>1. k + 1 \in 1..n /\ (k + 1) - 1 = k /\ n - (k + 1) + 1 \in 1..n
    BY <1>2
  <2>2. f[k + 1] = digits[n - (k + 1) + 1] + base * f[k]
    BY <1>3, <2>1
  <2>3. f[k] \in Nat /\ digits[n - (k + 1) + 1] \in Nat
    BY <1>2, <1>5, <2>1
  <2>4. \A x, y \in Nat : x + base * y \in Nat
    BY Z3
  <2> QED
    BY <2>2, <2>3, <2>4
<1> HIDE DEF S
<1>6. n \in S
  BY <1>2, <1>4, <1>5, SetInduction
<1> QED
  BY <1>1, <1>2, <1>6 DEF S

\* A varint that is read ends behind where it begins, within the data.
LEMMA ReadVarintForward ==
  ASSUME NEW data \in Bytes, NEW off \in 0..Len(data)
  PROVE  \/ ReadVarint(data, off) = Raises
         \/ /\ ReadVarint(data, off) \in Reads
            /\ ReadVarint(data, off).next \in off + 1 .. Len(data)
<1> DEFINE ends == {i \in 1 .. LesserOf(Groups, Len(data) - off) : data[off + i] < More}
           n == Min(ends)
           digits == [i \in 1..n |-> data[off + i] % More]
<1>1. /\ Len(data) \in Nat /\ \A i \in 1..Len(data) : data[i] \in Nat
      /\ More \in Nat \ {0} /\ Groups \in Nat
  <2>1. \A i \in 1..Len(data) : data[i] \in 0 .. Byte - 1
    BY ElementOfSeq DEF Bytes
  <2> QED
    BY <2>1, Widths, LenProperties DEF Bytes
<1>2. ends \subseteq 1 .. Len(data) - off
  BY <1>1 DEF LesserOf
<1>3. CASE ends = {}
  BY <1>3 DEF ReadVarint
<1>4. CASE ends # {}
  <2>1. ReadVarint(data, off) = [value |-> Joined(digits, More), next |-> off + n]
    BY <1>4 DEF ReadVarint
  <2> HIDE DEF ends
  <2>2. n \in 1 .. Len(data) - off
    <3>1. ends \in SUBSET Nat
      BY <1>2
    <3>2. n \in ends
      BY <1>4, <3>1, MinIs
    <3> QED
      BY <1>2, <3>2
  <2> HIDE DEF n
  <2>3. digits \in Seq(Nat)
    <3>1. \A i \in 1..n : data[off + i] % More \in Nat
      <4> TAKE i \in 1..n
      <4>1. data[off + i] \in Nat
        BY <1>1, <2>2
      <4>2. PICK q \in Nat, r \in 0 .. More - 1 : data[off + i] % More = r
        BY <1>1, <4>1, DivModOf
      <4> QED
        BY <1>1, <4>2
    <3>2. n \in Nat
      BY <1>1, <2>2
    <3>3. digits \in [1..n -> Nat]
      BY <3>1
    <3> HIDE DEF digits
    <3> QED
      BY <3>2, <3>3, SeqDef
  <2> HIDE DEF digits
  <2>4. Joined(digits, More) \in Nat
    BY <1>1, <2>3, JoinedType
  <2> QED
    BY <1>1, <2>1, <2>2, <2>4 DEF Reads
<1> QED
  BY <1>3, <1>4

\* What is cut out ends within the data too.
LEMMA SliceType ==
  ASSUME NEW data \in Bytes, NEW o \in 0..Len(data), NEW n \in Nat
  PROVE  Slice(data, o, n) \in Seq(Nat) /\ LesserOf(o + n, Len(data)) \in o..Len(data)
<1>1. Len(data) \in Nat /\ \A i \in 1..Len(data) : data[i] \in Nat
  <2>1. \A i \in 1..Len(data) : data[i] \in 0 .. Byte - 1
    BY ElementOfSeq DEF Bytes
  <2> QED
    BY <2>1, Widths, LenProperties DEF Bytes
<1> DEFINE m == LesserOf(o + n, Len(data))
<1>2. m \in o..Len(data)
  BY <1>1 DEF LesserOf
<1> HIDE DEF m
<1>3. SubSeq(data, o + 1, m) \in Seq(Nat)
  <2>1. o + 1 \in Int /\ m \in Int /\ \A i \in o + 1 .. m : data[i] \in Nat
    BY <1>1, <1>2
  <2> QED
    BY <2>1, SubSeqProperties
<1> QED
  BY <1>2, <1>3 DEF Slice, m

\* parse_fields() moves forward with every field that it yields, and never past the
\* end, whatever the bytes are, and so comes to one.
THEOREM FieldAtForward ==
  ASSUME NEW data \in Bytes, NEW off \in 0 .. Len(data) - 1
  PROVE  \/ FieldAt(data, off) \in {Raises, NotThere}
         \/ FieldAt(data, off) \in Fields /\ FieldAt(data, off).next \in off + 1 .. Len(data)
<1> DEFINE key  == ReadVarint(data, off)
           arg  == ReadVarint(data, key.next)
           wire == key.value % 8
           is(value, next) == [number |-> key.value \div 8, wire |-> wire, value |-> value,
                               next |-> LesserOf(next, Len(data))]
<1>0. Len(data) \in Nat /\ off \in Nat /\ off \in 0..Len(data)
  BY LenProperties DEF Bytes
<1>1. CASE key = Raises \/ (wire \in {0, 2} /\ arg = Raises)
  BY <1>1 DEF FieldAt
<1>2. CASE key # Raises /\ (wire \in {0, 2} => arg # Raises)
  <2>1. key \in Reads /\ key.next \in off + 1 .. Len(data)
    BY <1>0, <1>2, ReadVarintForward
  <2>2. key.value \in Nat /\ key.value \div 8 \in Nat /\ wire \in 0..7 /\ wire \in Nat
    <3>1. key.value \in Nat
      BY <2>1 DEF Reads
    <3>2. \A v \in Nat : v \div 8 \in Nat /\ v % 8 \in 0..7
      OBVIOUS
    <3> HIDE DEF key
    <3> QED
      BY <3>1, <3>2
  <2>3. arg # Raises => arg \in Reads /\ arg.next \in key.next + 1 .. Len(data)
    <3>1. key.next \in 0..Len(data)
      BY <1>0, <2>1
    <3> QED
      BY <3>1, ReadVarintForward
  <2>4. FieldAt(data, off) =
          CASE wire = 0 -> is(arg.value, arg.next)
            [] wire = 1 -> is(Slice(data, key.next, FixedBytes), key.next + FixedBytes)
            [] wire = 2 -> is(Slice(data, arg.next, arg.value), arg.next + arg.value)
            [] wire = 5 -> is(Slice(data, key.next, FixedBytes \div 2), key.next + FixedBytes \div 2)
            [] OTHER    -> NotThere
    BY <1>2 DEF FieldAt
  <2> HIDE DEF key, arg, wire
  <2>5. ASSUME NEW value \in Nat \cup Seq(Nat), NEW next,
               LesserOf(next, Len(data)) \in off + 1 .. Len(data)
        PROVE  is(value, next) \in Fields /\ is(value, next).next \in off + 1 .. Len(data)
    BY <1>0, <2>2, <2>5 DEF Fields
  <2>6. ASSUME NEW o \in off + 1 .. Len(data), NEW n \in Nat
        PROVE  /\ Slice(data, o, n) \in Nat \cup Seq(Nat)
               /\ LesserOf(o + n, Len(data)) \in off + 1 .. Len(data)
    <3>1. o \in 0..Len(data)
      BY <1>0
    <3>2. Slice(data, o, n) \in Seq(Nat) /\ LesserOf(o + n, Len(data)) \in o..Len(data)
      BY <3>1, SliceType
    <3> QED
      BY <1>0, <3>2
  <2>7. CASE wire = 0
    <3>1. arg.value \in Nat /\ arg.next \in key.next + 1 .. Len(data)
      BY <1>2, <2>3, <2>7 DEF Reads
    <3>2. LesserOf(arg.next, Len(data)) \in off + 1 .. Len(data)
      BY <1>0, <2>1, <3>1 DEF LesserOf
    <3>3. FieldAt(data, off) = is(arg.value, arg.next)
      BY <2>4, <2>7
    <3> HIDE DEF is
    <3> QED
      BY <2>5, <3>1, <3>2, <3>3
  <2>8. CASE wire = 1
    <3>1. FieldAt(data, off) = is(Slice(data, key.next, FixedBytes), key.next + FixedBytes)
      BY <2>4, <2>8
    <3> HIDE DEF is
    <3> QED
      BY <2>1, <2>5, <2>6, <3>1, Widths
  <2>9. CASE wire = 2
    <3>1. arg.value \in Nat /\ arg.next \in key.next + 1 .. Len(data)
      BY <1>2, <2>3, <2>9 DEF Reads
    <3>2. FieldAt(data, off) = is(Slice(data, arg.next, arg.value), arg.next + arg.value)
      BY <2>4, <2>9
    <3>3. arg.next \in off + 1 .. Len(data)
      BY <1>0, <2>1, <3>1
    <3> HIDE DEF is
    <3> QED
      BY <2>5, <2>6, <3>1, <3>2, <3>3
  <2>10. CASE wire = 5
    <3>1. FieldAt(data, off)
            = is(Slice(data, key.next, FixedBytes \div 2), key.next + FixedBytes \div 2)
      BY <2>4, <2>10
    <3>2. FixedBytes \div 2 \in Nat
      BY Widths
    <3> HIDE DEF is
    <3> QED
      BY <2>1, <2>5, <2>6, <3>1, <3>2
  <2>11. CASE wire \notin {0, 1, 2, 5}
    BY <2>4, <2>11
  <2> QED
    BY <2>7, <2>8, <2>9, <2>10, <2>11
<1> QED
  BY <1>1, <1>2

-------------------------------------------------------------------------------
(***************************************************************************)
(* Searches.                                                               *)
(***************************************************************************)

Wanted(want, f) == f.number = want.field /\ f.wire = want.wire

\* found[left] is what a search finds in the last bytes of the data.
Finds(want, data, found) ==
  /\ found[0] = want.default
  /\ \A left \in 1..Len(data) : \A f \in {FieldAt(data, Len(data) - left)} :
       /\ f = Raises => found[left] = Raises
       /\ f = NotThere => found[left] = want.default
       /\ f \in Fields => found[left] = IF Wanted(want, f) THEN Taken(f)
                                                            ELSE found[Len(data) - f.next]

\* The definition has a function of what a search finds.
LEMMA SearchFinds ==
  ASSUME NEW want, NEW data \in Bytes
  PROVE  Finds(want, data, Found(want, data))
<1> DEFINE n == Len(data)
           F(left) == FieldAt(data, n - left)
           T == {want.default, Raises} \cup {Taken(F(left)) : left \in 0..n}
           Value(left, f) ==
             CASE left = 0 -> want.default
               [] left > 0 /\ F(left) = Raises   -> Raises
               [] left > 0 /\ F(left) = NotThere -> want.default
               [] OTHER -> IF F(left).number # want.field \/ F(left).wire # want.wire
                             THEN f[n - F(left).next]
                           ELSE IF F(left).wire = 1 THEN Unpacked(F(left).value) ELSE F(left).value
           Rule == [p \in (0..n) \X [0..n -> T] |-> Value(p[1], p[2])]
           Body(f) == [left \in 0..n |-> Value(left, f)]
           last == CHOOSE f : f = Body(f)
<1>1. Found(want, data) = last
  BY DEF Found
<1>2. n \in Nat
  BY LenProperties DEF Bytes
<1>3. \A left \in 1..n :
        \/ F(left) = Raises \/ F(left) = NotThere
        \/ F(left) \in Fields /\ n - F(left).next \in 0 .. left - 1
  <2> TAKE left \in 1..n
  <2>1. n - left \in 0 .. n - 1
    BY <1>2
  <2>2. \/ F(left) \in {Raises, NotThere}
        \/ F(left) \in Fields /\ F(left).next \in (n - left) + 1 .. n
    BY <2>1, FieldAtForward
  <2> HIDE DEF F, n
  <2> QED
    BY <1>2, <2>1, <2>2
<1>4. \A left \in 0..n : Taken(F(left)) \in T
  OBVIOUS
<1>5. want.default \in T /\ Raises \in T
  OBVIOUS
<1>6. \A left \in 0..n : \A f :
        \/ Value(left, f) \in T
        \/ n - F(left).next \in 0 .. left - 1 /\ Value(left, f) = f[n - F(left).next]
  <2> TAKE left \in 0..n
  <2> TAKE f
  <2>1. /\ Taken(F(left)) \in T
        /\ left > 0 => \/ F(left) = Raises \/ F(left) = NotThere
                       \/ F(left) \in Fields /\ n - F(left).next \in 0 .. left - 1
    BY <1>2, <1>3, <1>4
  <2>2. Raises # NotThere
    BY CodecAssumption
  <2>3. /\ left = 0 => Value(left, f) = want.default
        /\ left > 0 /\ F(left) = Raises => Value(left, f) = Raises
        /\ left > 0 /\ F(left) = NotThere => Value(left, f) = want.default
        /\ left > 0 /\ F(left) # Raises /\ F(left) # NotThere =>
             Value(left, f) = IF F(left).number # want.field \/ F(left).wire # want.wire
                                THEN f[n - F(left).next] ELSE Taken(F(left))
    <3> HIDE DEF F, n, T
    <3> QED
      BY <1>2, <2>2 DEF Taken
  <2> HIDE DEF Value, F, T, n
  <2>4. CASE left = 0 \/ F(left) = Raises \/ F(left) = NotThere
    <3>1. left = 0 \/ left > 0
      BY <1>2
    <3>2. Value(left, f) \in {want.default, Raises}
      BY <2>3, <2>4, <3>1
    <3> QED
      BY <1>5, <3>2
  <2>5. CASE left > 0 /\ F(left) # Raises /\ F(left) # NotThere
    BY <2>1, <2>3, <2>5
  <2> QED
    BY <1>2, <2>4, <2>5
<1> HIDE DEF T
<1>7. \A left \in 0..n : \A f \in [0..n -> T] : Value(left, f) \in T
  <2> HIDE DEF Value, F, n
  <2> TAKE left \in 0..n
  <2> TAKE f \in [0..n -> T]
  <2>1. \A i \in 0 .. left - 1 : f[i] \in T
    BY <1>2
  <2> QED
    BY <1>6, <2>1
<1>8. \A left \in 0..n : \A f, g \in [0..n -> T] :
        (\A j \in 0 .. left - 1 : f[j] = g[j]) => Value(left, f) = Value(left, g)
  <2> HIDE DEF F, n
  <2> QED
    BY <1>2, <1>3
<1>9. Rule \in Rules(n, T)
  <2>1. \A p \in (0..n) \X [0..n -> T] : Value(p[1], p[2]) \in T
    <3>1. \A p \in (0..n) \X [0..n -> T] : p[1] \in 0..n /\ p[2] \in [0..n -> T]
      OBVIOUS
    <3> HIDE DEF Value
    <3> QED
      BY <1>7, <3>1
  <2> HIDE DEF Value
  <2>2. Rule \in [(0..n) \X [0..n -> T] -> T]
    BY <2>1
  <2>3. \A left \in 0..n : \A f \in [0..n -> T] : Rule[<<left, f>>] = Value(left, f)
    OBVIOUS
  <2> HIDE DEF Rule
  <2>4. \A left \in 0..n : \A f, g \in [0..n -> T] :
          (\A j \in 0 .. left - 1 : f[j] = g[j]) => Rule[<<left, f>>] = Rule[<<left, g>>]
    <3> TAKE left \in 0..n
    <3> TAKE f, g \in [0..n -> T]
    <3> HAVE \A j \in 0 .. left - 1 : f[j] = g[j]
    <3>1. Value(left, f) = Value(left, g)
      BY <1>8
    <3> QED
      BY <2>3, <3>1
  <2> QED
    BY <2>2, <2>4 DEF Rules
<1> HIDE DEF Value
<1>10. \A left \in 0..n : \A f \in [0..n -> T] : Rule[<<left, f>>] = Value(left, f)
  OBVIOUS
<1> HIDE DEF Rule
<1>11. PICK f \in Obeying(Rule, n, T) : TRUE
  BY <1>2, <1>5, <1>9, Recursion
<1>12. f = Body(f)
  <2>1. f \in [0..n -> T] /\ \A left \in 0..n : f[left] = Rule[<<left, f>>]
    BY DEF Obeying
  <2> QED
    BY <1>10, <2>1
<1>13. last = Body(last)
  <2> HIDE DEF Body
  <2> QED
    BY <1>12
<1> HIDE DEF last
<1>14. \A left \in 0..n : last[left] = Value(left, last)
  <2>1. \A left \in 0..n : Body(last)[left] = Value(left, last)
    OBVIOUS
  <2> HIDE DEF Body
  <2> QED
    BY <1>13, <2>1
<1> USE DEF Value
<1>15. last[0] = want.default
  BY <1>2, <1>14
<1>16. ASSUME NEW left \in 1..n
       PROVE  /\ F(left) = Raises => last[left] = Raises
              /\ F(left) = NotThere => last[left] = want.default
              /\ F(left) \in Fields => last[left] = IF Wanted(want, F(left)) THEN Taken(F(left))
                                                      ELSE last[n - F(left).next]
  <2>1. left \in 0..n /\ left > 0 /\ left # 0
    BY <1>2
  <2>2. last[left] = Value(left, last)
    BY <1>14, <2>1
  <2> HIDE DEF F, n
  <2>3. Raises # NotThere /\ (F(left) \in Fields => F(left) # Raises /\ F(left) # NotThere)
    BY ResultsAreNone, CodecAssumption
  <2> QED
    BY <2>1, <2>2, <2>3 DEF Wanted, Taken
<1> QED
  BY <1>1, <1>15, <1>16 DEF Finds

\* A search through enc, or through as much of it as there is, finds the value, or,
\* where there is not enough of it, what a search may find instead.
Heard(want, enc, value) ==
  /\ enc \in Bytes
  /\ \A data, off, k : Behind(data, off, enc, k) /\ off + k = Len(data) =>
       /\ k = Len(enc) => Found(want, data)[k] = value
       /\ \/ Found(want, data)[k] \in {value, want.default, Raises}
          \/ want.wire = 2 /\ IsPrefix(Found(want, data)[k], value)

\* Where there is nothing a search finds what it takes for that.
LEMMA HeardNothing ==
  ASSUME NEW want
  PROVE  Heard(want, <<>>, want.default)
<1>1. <<>> \in Bytes /\ Len(<<>>) = 0
  BY DEF Bytes
<1>2. ASSUME NEW data, NEW off, NEW k, Behind(data, off, <<>>, k)
      PROVE  Found(want, data)[k] = want.default
  <2>1. data \in Bytes /\ k = 0
    BY <1>1, <1>2 DEF Behind
  <2> QED
    BY <2>1, SearchFinds DEF Finds
<1> QED
  BY <1>1, <1>2 DEF Heard

Asks(want, number, wire) == want.field = number /\ want.wire = wire

\* A field in front of it is found by those who want it and passed by the others.
LEMMA HeardField ==
  ASSUME NEW want, NEW enc, NEW number, NEW wire, NEW v, Encodes(enc, number, wire, v),
         NEW rest, NEW value, Heard(want, rest, value)
  PROVE  Heard(want, enc \o rest, IF Asks(want, number, wire) THEN v ELSE value)
<1> USE DEF Asks
<1> DEFINE all == enc \o rest
           result == IF Asks(want, number, wire) THEN v ELSE value
<1>1. /\ enc \in Bytes /\ Len(enc) \in Nat \ {0} /\ rest \in Bytes /\ Len(rest) \in Nat
      /\ all \in Bytes /\ Len(all) = Len(enc) + Len(rest)
  <2>1. enc \in Bytes /\ enc # <<>> /\ rest \in Bytes
    BY DEF Encodes, Heard
  <2>2. Len(enc) \in Nat /\ Len(rest) \in Nat
    BY <2>1, LenProperties DEF Bytes
  <2>3. Len(enc) # 0
    BY <2>1, EmptySeq DEF Bytes
  <2> QED
    BY <2>1, <2>2, <2>3, ConcatProperties DEF Bytes
<1>2. ASSUME NEW data, NEW off, NEW k, Behind(data, off, all, k), off + k = Len(data)
      PROVE  /\ k = Len(all) => Found(want, data)[k] = result
             /\ \/ Found(want, data)[k] \in {result, want.default, Raises}
                \/ want.wire = 2 /\ IsPrefix(Found(want, data)[k], result)
  <2> DEFINE found == Found(want, data)
             f == FieldAt(data, off)
  <2>1. data \in Bytes /\ off \in Nat /\ k \in Nat /\ k <= Len(all)
    BY <1>1, <1>2 DEF Behind
  <2>2. found[0] = want.default
    BY <2>1, SearchFinds DEF Finds
  <2>3. k # 0 => /\ f = Raises => found[k] = Raises
                 /\ f \in Fields => found[k] = IF Wanted(want, f) THEN Taken(f)
                                                 ELSE found[Len(data) - f.next]
    <3>1. k # 0 => k \in 1..Len(data) /\ Len(data) - k = off
      BY <1>2, <2>1
    <3> QED
      BY <2>1, <3>1, SearchFinds DEF Finds
  <2>4. CASE k = 0
    BY <1>1, <2>2, <2>4
  <2>5. CASE k # 0 /\ k < Len(enc)
    <3>1. Behind(data, off, enc, k)
      BY <1>1, <1>2, <2>5, BehindBoth
    <3>2. \/ f = Raises
          \/ /\ FieldIs(f, number, wire, Len(data))
             /\ Taken(f) = Raises \/ (wire = 2 /\ IsPrefix(Taken(f), v))
      BY <1>2, <2>5, <3>1 DEF Encodes
    <3>3. Len(data) - Len(data) = 0 /\ k # Len(all)
      BY <1>1, <1>2, <2>1, <2>5
    <3> HIDE DEF found, f, all
    <3>4. CASE f = Raises
      BY <2>3, <2>5, <3>3, <3>4 DEF found
    <3>5. CASE FieldIs(f, number, wire, Len(data)) /\ Asks(want, number, wire)
               /\ (Taken(f) = Raises \/ (wire = 2 /\ IsPrefix(Taken(f), v)))
      <4>1. found[k] = Taken(f) /\ result = v
        BY <2>3, <2>5, <3>5 DEF FieldIs, Wanted
      <4> HIDE DEF result
      <4> QED
        BY <3>3, <3>5, <4>1 DEF found
    <3>6. CASE FieldIs(f, number, wire, Len(data)) /\ ~Asks(want, number, wire)
      <4>1. found[k] = want.default
        BY <2>2, <2>3, <2>5, <3>3, <3>6 DEF FieldIs, Wanted
      <4> HIDE DEF result
      <4> QED
        BY <3>3, <4>1 DEF found
    <3> QED
      BY <3>2, <3>4, <3>5, <3>6
  <2>6. CASE k >= Len(enc)
    <3> DEFINE o == off + Len(enc)
               n == k - Len(enc)
    <3>1. Behind(data, off, enc, Len(enc)) /\ Behind(data, o, rest, n)
      BY <1>1, <1>2, <2>6, BehindBoth
    <3>2. FieldIs(f, number, wire, o) /\ Taken(f) = v
      BY <3>1 DEF Encodes
    <3>3. /\ k # 0 /\ o + n = Len(data) /\ Len(data) - o = n /\ (k = Len(all) => n = Len(rest))
      BY <1>1, <1>2, <2>1, <2>6
    <3>4. /\ n = Len(rest) => found[n] = value
          /\ \/ found[n] \in {value, want.default, Raises}
             \/ want.wire = 2 /\ IsPrefix(found[n], value)
      BY <3>1, <3>3 DEF Heard
    <3> HIDE DEF found, f, all, o, n
    <3>5. found[k] = IF Asks(want, number, wire) THEN v ELSE found[n]
      BY <2>3, <3>2, <3>3 DEF FieldIs, Wanted
    <3> QED
      BY <3>3, <3>4, <3>5 DEF found
  <2> QED
    BY <1>1, <2>1, <2>4, <2>5, <2>6
<1> HIDE DEF all, result
<1>3. Heard(want, all, result)
  BY <1>1, <1>2 DEF Heard
<1> QED
  BY <1>3 DEF all, result

\* What a search finds in a part of a message: one value or none.  Then: in the
\* first part, or else in the second.
Nothing                    == {}
Just(v)                    == {v}
Hit(want, number, wire, v) == IF Asks(want, number, wire) THEN Just(v) ELSE Nothing
Then(hit, next)            == IF hit = Nothing THEN next ELSE hit
OrElse(hit, other)         == IF hit = Nothing THEN other ELSE CHOOSE v \in hit : TRUE

\* In front of anything, enc is where a search finds hit if that is a value.
Says(want, enc, hit) ==
  /\ enc \in Bytes
  /\ \A rest, other : Heard(want, rest, other) => Heard(want, enc \o rest, OrElse(hit, other))

\* A field says its value to those who ask for it.
LEMMA SaysField ==
  ASSUME NEW want, NEW enc, NEW number, NEW wire, NEW v, Encodes(enc, number, wire, v)
  PROVE  Says(want, enc, Hit(want, number, wire, v))
<1>1. enc \in Bytes
  BY DEF Encodes
<1>2. ASSUME NEW rest, NEW other, Heard(want, rest, other)
      PROVE  Heard(want, enc \o rest, OrElse(Hit(want, number, wire, v), other))
  <2>1. Heard(want, enc \o rest, IF Asks(want, number, wire) THEN v ELSE other)
    BY <1>2, HeardField
  <2>2. (CHOOSE x \in Just(v) : TRUE) = v /\ Just(v) # Nothing
    BY DEF Just, Nothing
  <2>3. OrElse(Hit(want, number, wire, v), other) = IF Asks(want, number, wire) THEN v ELSE other
    <3>1. CASE Asks(want, number, wire)
      <4>1. Hit(want, number, wire, v) = Just(v)
        BY <3>1 DEF Hit
      <4> QED
        BY <2>2, <3>1, <4>1 DEF OrElse
    <3>2. CASE ~Asks(want, number, wire)
      BY <3>2 DEF OrElse, Hit
    <3> QED
      BY <3>1, <3>2
  <2> QED
    BY <2>1, <2>3
<1> QED
  BY <1>1, <1>2 DEF Says

\* Two parts say what the first says, or else the second.
LEMMA SaysBoth ==
  ASSUME NEW want, NEW s, NEW hit, Says(want, s, hit), NEW t, NEW next, Says(want, t, next)
  PROVE  Says(want, s \o t, Then(hit, next))
<1>1. s \in Bytes /\ t \in Bytes /\ s \o t \in Bytes
  BY ConcatProperties DEF Says, Bytes
<1>2. ASSUME NEW rest, NEW other, Heard(want, rest, other)
      PROVE  Heard(want, (s \o t) \o rest, OrElse(Then(hit, next), other))
  <2>1. Heard(want, t \o rest, OrElse(next, other))
    BY <1>2 DEF Says
  <2>2. Heard(want, s \o (t \o rest), OrElse(hit, OrElse(next, other)))
    BY <2>1 DEF Says
  <2>3. (s \o t) \o rest = s \o (t \o rest)
    <3>1. rest \in Bytes
      BY <1>2 DEF Heard
    <3> QED
      BY <1>1, <3>1, ConcatAssociative DEF Bytes
  <2>4. OrElse(hit, OrElse(next, other)) = OrElse(Then(hit, next), other)
    <3>1. CASE hit = Nothing
      BY <3>1 DEF OrElse, Then
    <3>2. CASE hit # Nothing
      <4>1. Then(hit, next) = hit
        BY <3>2 DEF Then
      <4>2. \A x : OrElse(hit, x) = CHOOSE y \in hit : TRUE
        BY <3>2 DEF OrElse
      <4> QED
        BY <4>1, <4>2
    <3> QED
      BY <3>1, <3>2
  <2> QED
    BY <2>2, <2>3, <2>4
<1> QED
  BY <1>1, <1>2 DEF Says

\* No bytes say nothing.
LEMMA SaysNothing ==
  ASSUME NEW want
  PROVE  Says(want, <<>>, Nothing)
<1>1. <<>> \in Bytes
  BY DEF Bytes
<1>2. ASSUME NEW rest, NEW other, Heard(want, rest, other)
      PROVE  Heard(want, <<>> \o rest, OrElse(Nothing, other))
  <2>1. <<>> \o rest = rest
    BY <1>2, ConcatEmptySeq DEF Heard, Bytes
  <2> QED
    BY <1>2, <2>1 DEF OrElse
<1> QED
  BY <1>1, <1>2 DEF Says

\* A message, and nothing behind it.
LEMMA SaysAll ==
  ASSUME NEW want, NEW msg, NEW hit, Says(want, msg, hit)
  PROVE  Heard(want, msg, OrElse(hit, want.default))
<1>1. Heard(want, msg \o <<>>, OrElse(hit, want.default))
  BY HeardNothing DEF Says
<1>2. msg \o <<>> = msg
  BY ConcatEmptySeq DEF Says, Bytes
<1> QED
  BY <1>1, <1>2

\* What two parts say, by what each does.
LEMMA FoundOnce ==
  /\ \A hit : Then(Nothing, hit) = hit
  /\ \A v, hit : Then(Just(v), hit) = Just(v)
  /\ \A other : OrElse(Nothing, other) = other
  /\ \A v, other : OrElse(Just(v), other) = v
<1>1. \A v : Just(v) # Nothing /\ (CHOOSE x \in Just(v) : TRUE) = v
  BY DEF Just, Nothing
<1> QED
  BY <1>1 DEF Then, OrElse

-------------------------------------------------------------------------------
(***************************************************************************)
(* Messages.                                                               *)
(***************************************************************************)

\* What fits into the width.
AllNumbers == 0 .. Limit - 1
AllTexts   == {t \in Bytes : Len(t) < Limit}

\* Who asks for what.
LEMMA HitIs ==
  /\ \A k, v : Hit(Text(k), k, 2, v) = Just(v) /\ Hit(Number(k), k, 0, v) = Just(v)
  /\ \A k, n, v : k # n => Hit(Text(k), n, 2, v) = Nothing /\ Hit(Number(k), n, 0, v) = Nothing
  /\ \A k, n, v : Hit(Text(k), n, 0, v) = Nothing /\ Hit(Number(k), n, 2, v) = Nothing
  /\ \A k, e, v : Hit(Long(k, e), k, 1, v) = Just(v)
  /\ \A k, e, n, v : k # n => Hit(Long(k, e), n, 1, v) = Nothing
  /\ \A k, e, n, v : Hit(Long(k, e), n, 0, v) = Nothing
<1>1. \A k : Text(k).field = k /\ Text(k).wire = 2
  BY DEF Text
<1>2. \A k : Number(k).field = k /\ Number(k).wire = 0
  BY DEF Number
<1>3. \A k, e : Long(k, e).field = k /\ Long(k, e).wire = 1
  BY DEF Long
<1>4. 0 # 1 /\ 0 # 2 /\ 1 # 2
  OBVIOUS
<1> QED
  BY <1>1, <1>2, <1>3, <1>4 DEF Hit, Asks

\* The fields of messages say what they are built from: numbers,
LEMMA SaysNumber ==
  ASSUME NEW want, NEW number \in 1..11, NEW v \in AllNumbers
  PROVE  Says(want, VarintField(number, v), Hit(want, number, 0, v))
<1>1. Encodes(VarintField(number, v), number, 0, v)
  BY NumberEncoded DEF AllNumbers
<1> QED
  BY <1>1, SaysField

\* texts,
LEMMA SaysText ==
  ASSUME NEW want, NEW number \in 1..11, NEW t \in AllTexts
  PROVE  Says(want, BytesField(number, t), Hit(want, number, 2, t))
<1>1. Encodes(BytesField(number, t), number, 2, t)
  BY TextEncoded DEF AllTexts
<1> QED
  BY <1>1, SaysField

\* and fixed numbers.
LEMMA SaysLong ==
  ASSUME NEW want, NEW number \in 1..11, NEW v \in AllNumbers
  PROVE  Says(want, Fixed64Field(number, v), Hit(want, number, 1, v))
<1>1. Encodes(Fixed64Field(number, v), number, 1, v)
  BY LongEncoded DEF AllNumbers
<1> QED
  BY <1>1, SaysField

\* The length of a text is a number that fits.
LEMMA LengthIsNumber ==
  ASSUME NEW t \in AllTexts
  PROVE  Len(t) \in AllNumbers
BY Widths, LenProperties DEF AllTexts, AllNumbers, Bytes

\* The message keeps what is meant, for all that its parser asks for.
Keeps(msg, wants, means) ==
  \A name \in DOMAIN wants : Heard(wants[name], msg, means[name])

UpdateHit(want, f, n, c, d) ==
  Then(Then(Then(Hit(want, 1, 2, f), Hit(want, 2, 0, n)), Hit(want, 3, 0, c)), Hit(want, 4, 2, d))

\* Each of the fields of an update is what one search hits.
LEMMA UpdateFinds ==
  ASSUME NEW f, NEW n, NEW c, NEW d
  PROVE  /\ OrElse(UpdateHit(Text(1), f, n, c, d), Text(1).default) = f
         /\ OrElse(UpdateHit(Number(2), f, n, c, d), Number(2).default) = n
         /\ OrElse(UpdateHit(Number(3), f, n, c, d), Number(3).default) = c
         /\ OrElse(UpdateHit(Text(4), f, n, c, d), Text(4).default) = d
<1>1. OrElse(UpdateHit(Text(1), f, n, c, d), Text(1).default) = f
  BY FoundOnce, HitIs DEF UpdateHit
<1>2. OrElse(UpdateHit(Number(2), f, n, c, d), Number(2).default) = n
  BY FoundOnce, HitIs DEF UpdateHit
<1>3. OrElse(UpdateHit(Number(3), f, n, c, d), Number(3).default) = c
  BY FoundOnce, HitIs DEF UpdateHit
<1>4. OrElse(UpdateHit(Text(4), f, n, c, d), Text(4).default) = d
  BY FoundOnce, HitIs DEF UpdateHit
<1> QED
  BY <1>1, <1>2, <1>3, <1>4

\* build_client_update_machine_auth() and its parser.
LEMMA UpdateKept ==
  ASSUME NEW f \in AllTexts, NEW n \in AllNumbers, NEW d \in AllTexts
  PROVE  Keeps(BuildUpdate(f, n, d), UpdateFields,
               [filename |-> f, offset |-> n, cubtowrite |-> Len(d), bytes |-> d])
<1>1. ASSUME NEW want
      PROVE  Says(want, BuildUpdate(f, n, d), UpdateHit(want, f, n, Len(d), d))
  <2>1. Says(want, BytesField(1, f), Hit(want, 1, 2, f))
    BY SaysText
  <2>2. Says(want, VarintField(2, n), Hit(want, 2, 0, n))
    BY SaysNumber
  <2>3. Says(want, VarintField(3, Len(d)), Hit(want, 3, 0, Len(d)))
    <3>1. Len(d) \in AllNumbers
      BY LengthIsNumber
    <3> QED
      BY <3>1, SaysNumber
  <2>4. Says(want, BytesField(4, d), Hit(want, 4, 2, d))
    BY SaysText
  <2> QED
    BY <2>1, <2>2, <2>3, <2>4, SaysBoth DEF BuildUpdate, UpdateHit
<1>2. \A name \in DOMAIN UpdateFields : 
        OrElse(UpdateHit(UpdateFields[name], f, n, Len(d), d), UpdateFields[name].default)
          = [filename |-> f, offset |-> n, cubtowrite |-> Len(d), bytes |-> d][name]
  BY UpdateFinds DEF UpdateFields
<1> QED
  BY <1>1, <1>2, SaysAll DEF Keeps

ReadHit(want, f, n, m) == Then(Then(Hit(want, 1, 2, f), Hit(want, 2, 0, n)), Hit(want, 3, 0, m))

\* Each of the fields of a read is what one search hits.
LEMMA ReadFinds ==
  ASSUME NEW f, NEW n, NEW m
  PROVE  /\ OrElse(ReadHit(Text(1), f, n, m), Text(1).default) = f
         /\ OrElse(ReadHit(Number(2), f, n, m), Number(2).default) = n
         /\ OrElse(ReadHit(Number(3), f, n, m), Number(3).default) = m
<1>1. OrElse(ReadHit(Text(1), f, n, m), Text(1).default) = f
  BY FoundOnce, HitIs DEF ReadHit
<1>2. OrElse(ReadHit(Number(2), f, n, m), Number(2).default) = n
  BY FoundOnce, HitIs DEF ReadHit
<1>3. OrElse(ReadHit(Number(3), f, n, m), Number(3).default) = m
  BY FoundOnce, HitIs DEF ReadHit
<1> QED
  BY <1>1, <1>2, <1>3

\* A read and its parser.
LEMMA ReadKept ==
  ASSUME NEW f \in AllTexts, NEW n \in AllNumbers, NEW m \in AllNumbers
  PROVE  Keeps(BuildRead(f, n, m), ReadFields, [filename |-> f, offset |-> n, cubtoread |-> m])
<1>1. ASSUME NEW want
      PROVE  Says(want, BuildRead(f, n, m), ReadHit(want, f, n, m))
  <2>1. Says(want, BytesField(1, f), Hit(want, 1, 2, f))
    BY SaysText
  <2>2. Says(want, VarintField(2, n), Hit(want, 2, 0, n))
    BY SaysNumber
  <2>3. Says(want, VarintField(3, m), Hit(want, 3, 0, m))
    BY SaysNumber
  <2> QED
    BY <2>1, <2>2, <2>3, SaysBoth DEF BuildRead, ReadHit
<1>2. \A name \in DOMAIN ReadFields :
        OrElse(ReadHit(ReadFields[name], f, n, m), ReadFields[name].default)
          = [filename |-> f, offset |-> n, cubtoread |-> m][name]
  BY ReadFinds DEF ReadFields
<1> QED
  BY <1>1, <1>2, SaysAll DEF Keeps

LoginKeyHit(want, id, key) == Then(Hit(want, 1, 0, id), Hit(want, 2, 2, key))

\* Each of the fields of a login key is what one search hits.
LEMMA LoginKeyFinds ==
  ASSUME NEW id, NEW key
  PROVE  /\ OrElse(LoginKeyHit(Number(1), id, key), Number(1).default) = id
         /\ OrElse(LoginKeyHit(Text(2), id, key), Text(2).default) = key
<1>1. OrElse(LoginKeyHit(Number(1), id, key), Number(1).default) = id
  BY FoundOnce, HitIs DEF LoginKeyHit
<1>2. OrElse(LoginKeyHit(Text(2), id, key), Text(2).default) = key
  BY FoundOnce, HitIs DEF LoginKeyHit
<1> QED
  BY <1>1, <1>2

\* A new login key and its parser.
LEMMA LoginKeyKept ==
  ASSUME NEW id \in AllNumbers, NEW key \in AllTexts
  PROVE  Keeps(BuildNewLoginKey(id, key), NewLoginKeyFields, [id |-> id, key |-> key])
<1>1. ASSUME NEW want
      PROVE  Says(want, BuildNewLoginKey(id, key), LoginKeyHit(want, id, key))
  <2>1. Says(want, VarintField(1, id), Hit(want, 1, 0, id))
    BY SaysNumber
  <2>2. Says(want, BytesField(2, key), Hit(want, 2, 2, key))
    BY SaysText
  <2> QED
    BY <2>1, <2>2, SaysBoth DEF BuildNewLoginKey, LoginKeyHit
<1>2. \A name \in DOMAIN NewLoginKeyFields :
        OrElse(LoginKeyHit(NewLoginKeyFields[name], id, key), NewLoginKeyFields[name].default)
          = [id |-> id, key |-> key][name]
  BY LoginKeyFinds DEF NewLoginKeyFields
<1> QED
  BY <1>1, <1>2, SaysAll DEF Keeps

ResponseHit(want, f, e, size, sha, o, c) ==
  Then(Then(Then(Then(Then(
    Hit(want, 1, 2, f), Hit(want, 2, 0, e)), Hit(want, 3, 0, size)),
    Hit(want, 4, 2, sha)), Hit(want, 6, 0, o)), Hit(want, 7, 0, c))

\* Each of the fields of an answer is what one search hits.
LEMMA ResponseFinds ==
  ASSUME NEW f, NEW e, NEW size, NEW sha, NEW o, NEW c
  PROVE  /\ OrElse(ResponseHit(Text(1), f, e, size, sha, o, c), Text(1).default) = f
         /\ OrElse(ResponseHit(Number(2), f, e, size, sha, o, c), Number(2).default) = e
         /\ OrElse(ResponseHit(Number(3), f, e, size, sha, o, c), Number(3).default) = size
         /\ OrElse(ResponseHit(Text(4), f, e, size, sha, o, c), Text(4).default) = sha
         /\ OrElse(ResponseHit(Number(6), f, e, size, sha, o, c), Number(6).default) = o
         /\ OrElse(ResponseHit(Number(7), f, e, size, sha, o, c), Number(7).default) = c
<1>1. OrElse(ResponseHit(Text(1), f, e, size, sha, o, c), Text(1).default) = f
  BY FoundOnce, HitIs DEF ResponseHit
<1>2. OrElse(ResponseHit(Number(2), f, e, size, sha, o, c), Number(2).default) = e
  BY FoundOnce, HitIs DEF ResponseHit
<1>3. OrElse(ResponseHit(Number(3), f, e, size, sha, o, c), Number(3).default) = size
  BY FoundOnce, HitIs DEF ResponseHit
<1>4. OrElse(ResponseHit(Text(4), f, e, size, sha, o, c), Text(4).default) = sha
  BY FoundOnce, HitIs DEF ResponseHit
<1>5. OrElse(ResponseHit(Number(6), f, e, size, sha, o, c), Number(6).default) = o
  BY FoundOnce, HitIs DEF ResponseHit
<1>6. OrElse(ResponseHit(Number(7), f, e, size, sha, o, c), Number(7).default) = c
  BY FoundOnce, HitIs DEF ResponseHit
<1> QED
  BY <1>1, <1>2, <1>3, <1>4, <1>5, <1>6

\* What an answer to an update says to whoever asks.
LEMMA ResponseSays ==
  ASSUME NEW want, NEW f \in AllTexts, NEW e \in AllNumbers, NEW size \in AllNumbers,
         NEW sha \in AllTexts, NEW o \in AllNumbers, NEW c \in AllNumbers
  PROVE  Says(want, BuildResponse(f, e, size, sha, o, c),
                    ResponseHit(want, f, e, size, sha, o, c))
<1>1. Says(want, BytesField(1, f), Hit(want, 1, 2, f))
  BY SaysText
<1>2. Says(want, VarintField(2, e), Hit(want, 2, 0, e))
  BY SaysNumber
<1>3. Says(want, VarintField(3, size), Hit(want, 3, 0, size))
  BY SaysNumber
<1>4. Says(want, BytesField(4, sha), Hit(want, 4, 2, sha))
  BY SaysText
<1>5. Says(want, VarintField(6, o), Hit(want, 6, 0, o))
  BY SaysNumber
<1>6. Says(want, VarintField(7, c), Hit(want, 7, 0, c))
  BY SaysNumber
<1> QED
  BY <1>1, <1>2, <1>3, <1>4, <1>5, <1>6, SaysBoth DEF BuildResponse, ResponseHit

\* An answer to an update and both parsers that read its fields.
LEMMA ResponseKept ==
  ASSUME NEW f \in AllTexts, NEW e \in AllNumbers, NEW size \in AllNumbers,
         NEW sha \in AllTexts, NEW o \in AllNumbers, NEW c \in AllNumbers
  PROVE  /\ Keeps(BuildResponse(f, e, size, sha, o, c), ResponseFields,
                  [filename |-> f, eresult |-> e, filesize |-> size, sha |-> sha,
                   offset |-> o, count |-> c])
         /\ Keeps(BuildResponse(f, e, size, sha, o, c), RequestFields,
                  [filename |-> f, filesize |-> size, sha |-> sha])
<1>1. \A want : Heard(want, BuildResponse(f, e, size, sha, o, c),
                       OrElse(ResponseHit(want, f, e, size, sha, o, c), want.default))
  BY ResponseSays, SaysAll
<1>2. \A name \in DOMAIN ResponseFields :
        OrElse(ResponseHit(ResponseFields[name], f, e, size, sha, o, c), ResponseFields[name].default)
          = [filename |-> f, eresult |-> e, filesize |-> size, sha |-> sha,
             offset |-> o, count |-> c][name]
  BY ResponseFinds DEF ResponseFields
<1>3. \A name \in DOMAIN RequestFields :
        OrElse(ResponseHit(RequestFields[name], f, e, size, sha, o, c), RequestFields[name].default)
          = [filename |-> f, filesize |-> size, sha |-> sha][name]
  BY ResponseFinds DEF RequestFields
<1> QED
  BY <1>1, <1>2, <1>3 DEF Keeps

ReadResponseHit(want, f, e, size, sha, o, c, d) ==
  Then(ResponseHit(want, f, e, size, sha, o, c), Hit(want, 8, 2, d))

\* Each of the fields of an answer to a read is what one search hits.
LEMMA ReadResponseFinds ==
  ASSUME NEW f, NEW e, NEW size, NEW sha, NEW o, NEW c, NEW d
  PROVE  /\ OrElse(ReadResponseHit(Text(1), f, e, size, sha, o, c, d), Text(1).default) = f
         /\ OrElse(ReadResponseHit(Number(2), f, e, size, sha, o, c, d), Number(2).default) = e
         /\ OrElse(ReadResponseHit(Number(3), f, e, size, sha, o, c, d), Number(3).default) = size
         /\ OrElse(ReadResponseHit(Text(4), f, e, size, sha, o, c, d), Text(4).default) = sha
         /\ OrElse(ReadResponseHit(Number(6), f, e, size, sha, o, c, d), Number(6).default) = o
         /\ OrElse(ReadResponseHit(Number(7), f, e, size, sha, o, c, d), Number(7).default) = c
         /\ OrElse(ReadResponseHit(Text(8), f, e, size, sha, o, c, d), Text(8).default) = d
<1>1. OrElse(ReadResponseHit(Text(1), f, e, size, sha, o, c, d), Text(1).default) = f
  BY FoundOnce, HitIs DEF ReadResponseHit, ResponseHit
<1>2. OrElse(ReadResponseHit(Number(2), f, e, size, sha, o, c, d), Number(2).default) = e
  BY FoundOnce, HitIs DEF ReadResponseHit, ResponseHit
<1>3. OrElse(ReadResponseHit(Number(3), f, e, size, sha, o, c, d), Number(3).default) = size
  BY FoundOnce, HitIs DEF ReadResponseHit, ResponseHit
<1>4. OrElse(ReadResponseHit(Text(4), f, e, size, sha, o, c, d), Text(4).default) = sha
  BY FoundOnce, HitIs DEF ReadResponseHit, ResponseHit
<1>5. OrElse(ReadResponseHit(Number(6), f, e, size, sha, o, c, d), Number(6).default) = o
  BY FoundOnce, HitIs DEF ReadResponseHit, ResponseHit
<1>6. OrElse(ReadResponseHit(Number(7), f, e, size, sha, o, c, d), Number(7).default) = c
  BY FoundOnce, HitIs DEF ReadResponseHit, ResponseHit
<1>7. OrElse(ReadResponseHit(Text(8), f, e, size, sha, o, c, d), Text(8).default) = d
  BY FoundOnce, HitIs DEF ReadResponseHit, ResponseHit
<1> QED
  BY <1>1, <1>2, <1>3, <1>4, <1>5, <1>6, <1>7

\* An answer to a read and its parser.
LEMMA ReadResponseKept ==
  ASSUME NEW f \in AllTexts, NEW e \in AllNumbers, NEW size \in AllNumbers,
         NEW sha \in AllTexts, NEW o \in AllNumbers, NEW d \in AllTexts
  PROVE  Keeps(BuildReadResponse(f, e, size, sha, o, d), ReadResponseFields,
               [filename |-> f, eresult |-> e, filesize |-> size, sha |-> sha,
                offset |-> o, count |-> Len(d), bytes |-> d])
<1>1. ASSUME NEW want
      PROVE  Says(want, BuildReadResponse(f, e, size, sha, o, d),
                        ReadResponseHit(want, f, e, size, sha, o, Len(d), d))
  <2>1. Says(want, BuildResponse(f, e, size, sha, o, Len(d)),
                   ResponseHit(want, f, e, size, sha, o, Len(d)))
    <3>1. Len(d) \in AllNumbers
      BY LengthIsNumber
    <3> QED
      BY <3>1, ResponseSays
  <2>2. Says(want, BytesField(8, d), Hit(want, 8, 2, d))
    BY SaysText
  <2> QED
    BY <2>1, <2>2, SaysBoth DEF BuildReadResponse, ReadResponseHit
<1>2. \A name \in DOMAIN ReadResponseFields :
        OrElse(ReadResponseHit(ReadResponseFields[name], f, e, size, sha, o, Len(d), d),
               ReadResponseFields[name].default)
          = [filename |-> f, eresult |-> e, filesize |-> size, sha |-> sha,
             offset |-> o, count |-> Len(d), bytes |-> d][name]
  BY ReadResponseFinds DEF ReadResponseFields
<1> QED
  BY <1>1, <1>2, SaysAll DEF Keeps

\* A field is left out for some values.
Zero    == {0}
NoneIds == {0, JobNone}
Given(v, none, hit) == IF v \in none THEN Nothing ELSE hit

\* A field that is left out says nothing.
LEMMA GivenIs ==
  /\ \A v, none : Given(v, none, Nothing) = Nothing
  /\ \A v, none, hit : v \in none => Given(v, none, hit) = Nothing
  /\ \A v, none, hit : v \notin none => Given(v, none, hit) = hit
BY DEF Given

\* A field that is left out for some values.
LEMMA SaysGiven ==
  ASSUME NEW want, NEW enc, NEW v, NEW none, NEW hit, v \notin none => Says(want, enc, hit)
  PROVE  Says(want, IF v \in none THEN <<>> ELSE enc, Given(v, none, hit))
<1>1. CASE v \in none
  BY <1>1, SaysNothing, GivenIs
<1>2. CASE v \notin none
  BY <1>2, GivenIs
<1> QED
  BY <1>1, <1>2

HeaderHit(want, source, target, steamid, session) ==
  Then(Then(Then(
    Given(steamid, Zero, Hit(want, 1, 1, steamid)),
    Given(session, Zero, Hit(want, 2, 0, session))),
    Given(source, NoneIds, Hit(want, 10, 1, source))),
    Given(target, NoneIds, Hit(want, 11, 1, target)))

\* Each of the fields of a header is what one search hits, or its default says the same.
LEMMA HeaderFinds ==
  ASSUME NEW source, NEW target, NEW steamid, NEW session
  PROVE  /\ OrElse(HeaderHit(Long(1, 0), source, target, steamid, session), 0) = steamid
         /\ OrElse(HeaderHit(Long(10, JobNone), source, target, steamid, session), JobNone)
              = IF source = 0 THEN JobNone ELSE source
         /\ OrElse(HeaderHit(Long(11, JobNone), source, target, steamid, session), JobNone)
              = IF target = 0 THEN JobNone ELSE target
<1> DEFINE job == JobNone
<1>0. /\ \A v : v \in Zero <=> v = 0
      /\ \A v : v \in NoneIds <=> v = 0 \/ v = job
  BY DEF Zero, NoneIds
<1> HIDE DEF job
<1>1. OrElse(HeaderHit(Long(1, 0), source, target, steamid, session), 0) = steamid
  <2>1. CASE steamid \in Zero
    BY <1>0, <2>1, GivenIs, FoundOnce, HitIs DEF HeaderHit
  <2>2. CASE steamid \notin Zero
    BY <2>2, GivenIs, FoundOnce, HitIs DEF HeaderHit
  <2> QED
    BY <2>1, <2>2
<1>2. OrElse(HeaderHit(Long(10, job), source, target, steamid, session), job)
        = IF source = 0 THEN job ELSE source
  <2>1. CASE source \in NoneIds
    BY <1>0, <2>1, GivenIs, FoundOnce, HitIs DEF HeaderHit
  <2>2. CASE source \notin NoneIds
    BY <1>0, <2>2, GivenIs, FoundOnce, HitIs DEF HeaderHit
  <2> QED
    BY <2>1, <2>2
<1>3. OrElse(HeaderHit(Long(11, job), source, target, steamid, session), job)
        = IF target = 0 THEN job ELSE target
  <2>1. CASE target \in NoneIds
    BY <1>0, <2>1, GivenIs, FoundOnce, HitIs DEF HeaderHit
  <2>2. CASE target \notin NoneIds
    BY <1>0, <2>2, GivenIs, FoundOnce, HitIs DEF HeaderHit
  <2> QED
    BY <2>1, <2>2
<1> QED
  BY <1>1, <1>2, <1>3 DEF job

\* A header and its parser, where job 0 and none are one.
LEMMA HeaderKept ==
  ASSUME NEW source \in AllNumbers, NEW target \in AllNumbers,
         NEW steamid \in AllNumbers, NEW session \in AllNumbers
  PROVE  Keeps(Header(source, target, steamid, session), HeaderFields,
               [steamid |-> steamid, source |-> IF source = 0 THEN JobNone ELSE source,
                target |-> IF target = 0 THEN JobNone ELSE target])
<1>1. ASSUME NEW want
      PROVE  Says(want, Header(source, target, steamid, session),
                        HeaderHit(want, source, target, steamid, session))
  <2>1. Says(want, IF steamid \in Zero THEN <<>> ELSE Fixed64Field(1, steamid),
                   Given(steamid, Zero, Hit(want, 1, 1, steamid)))
    BY SaysLong, SaysGiven
  <2>2. Says(want, IF session \in Zero THEN <<>> ELSE VarintField(2, session),
                   Given(session, Zero, Hit(want, 2, 0, session)))
    BY SaysNumber, SaysGiven
  <2>3. Says(want, IF source \in NoneIds THEN <<>> ELSE Fixed64Field(10, source),
                   Given(source, NoneIds, Hit(want, 10, 1, source)))
    BY SaysLong, SaysGiven
  <2>4. Says(want, IF target \in NoneIds THEN <<>> ELSE Fixed64Field(11, target),
                   Given(target, NoneIds, Hit(want, 11, 1, target)))
    BY SaysLong, SaysGiven
  <2>5. Header(source, target, steamid, session)
          = (((IF steamid \in Zero THEN <<>> ELSE Fixed64Field(1, steamid)) \o
              (IF session \in Zero THEN <<>> ELSE VarintField(2, session))) \o
             (IF source \in NoneIds THEN <<>> ELSE Fixed64Field(10, source))) \o
            (IF target \in NoneIds THEN <<>> ELSE Fixed64Field(11, target))
    BY DEF Header, JobField, Zero, NoneIds
  <2> QED
    BY <2>1, <2>2, <2>3, <2>4, <2>5, SaysBoth DEF HeaderHit
<1>2. \A name \in DOMAIN HeaderFields :
        OrElse(HeaderHit(HeaderFields[name], source, target, steamid, session),
               HeaderFields[name].default)
          = [steamid |-> steamid, source |-> IF source = 0 THEN JobNone ELSE source,
             target |-> IF target = 0 THEN JobNone ELSE target][name]
  <2>1. \A k, e : Long(k, e).default = e
    BY DEF Long
  <2> QED
    BY <2>1, HeaderFinds DEF HeaderFields
<1> QED
  BY <1>1, <1>2, SaysAll DEF Keeps

\* Whoever parses the first k bytes of it finds what is meant, or what a search may
\* find instead.
LEMMA KeptWhenCut ==
  ASSUME NEW msg, NEW wants, NEW means, Keeps(msg, wants, means),
         means = [name \in DOMAIN wants |-> means[name]],
         NEW k \in 0..Len(msg),
         NEW got, got = Parse(wants, SubSeq(msg, 1, k))
  PROVE  /\ k = Len(msg) => got = means
         /\ \A name \in DOMAIN wants :
              \/ got[name] \in {means[name], wants[name].default, Raises}
              \/ wants[name].wire = 2 /\ IsPrefix(got[name], means[name])
<1> DEFINE data == SubSeq(msg, 1, k)
<1>1. ASSUME NEW name \in DOMAIN wants
      PROVE  /\ k = Len(msg) => Lookup(wants[name], data) = means[name]
             /\ \/ Lookup(wants[name], data) \in {means[name], wants[name].default, Raises}
                \/ wants[name].wire = 2 /\ IsPrefix(Lookup(wants[name], data), means[name])
  <2>1. Heard(wants[name], msg, means[name])
    BY DEF Keeps
  <2>2. msg \in Bytes /\ k \in Nat /\ k <= Len(msg)
    BY <2>1, LenProperties DEF Heard, Bytes
  <2>3. data \in Bytes /\ Len(data) = k /\ \A i \in 1..k : data[i] = msg[i]
    <3>1. \A i \in 1..k : msg[i] \in 0 .. Byte - 1
      <4>1. \A i \in 1..Len(msg) : msg[i] \in 0 .. Byte - 1
        BY <2>2, ElementOfSeq DEF Bytes
      <4> QED
        BY <2>2, <4>1, LenProperties DEF Bytes
    <3> QED
      BY <2>2, <3>1, SubSeqProperties DEF Bytes
  <2>4. Behind(data, 0, msg, k) /\ 0 + k = Len(data)
    BY <2>2, <2>3 DEF Behind
  <2>5. Lookup(wants[name], data) = Found(wants[name], data)[k]
    BY <2>3 DEF Lookup
  <2> HIDE DEF data
  <2> QED
    BY <2>1, <2>4, <2>5 DEF Heard
<1>2. got = [name \in DOMAIN wants |-> Lookup(wants[name], data)]
  BY DEF Parse
<1> HIDE DEF data
<1> QED
  BY <1>1, <1>2

\* Every message keeps what it is built from.
LEMMA WrittenKept ==
  ASSUME NEW n \in AllNumbers, NEW m \in AllNumbers, NEW f \in AllTexts, NEW d \in AllTexts,
         NEW w \in Range(Written(n, m, f, d))
  PROVE  Keeps(w.msg, w.wants, w.means) /\ w.means = [name \in DOMAIN w.wants |-> w.means[name]]
<1>1. PICK i \in 1..7 : w = Written(n, m, f, d)[i]
  BY DEF Range, Written
<1>2. CASE i = 1
  <2>1. /\ w.msg = BuildUpdate(f, n, d) /\ w.wants = UpdateFields
        /\ w.means = [filename |-> f, offset |-> n, cubtowrite |-> Len(d), bytes |-> d]
    BY <1>1, <1>2 DEF Written
  <2>2. Keeps(w.msg, w.wants, w.means)
    BY <2>1, UpdateKept
  <2>3. w.means = [name \in DOMAIN w.wants |-> w.means[name]]
    BY <2>1 DEF UpdateFields
  <2> QED
    BY <2>2, <2>3
<1>3. CASE i = 2
  <2>1. /\ w.msg = BuildRead(f, n, m) /\ w.wants = ReadFields
        /\ w.means = [filename |-> f, offset |-> n, cubtoread |-> m]
    BY <1>1, <1>3 DEF Written
  <2> QED
    BY <2>1, ReadKept DEF ReadFields
<1>4. CASE i = 3
  <2>1. /\ w.msg = BuildResponse(f, n, m, d, n, m) /\ w.wants = ResponseFields
        /\ w.means = [filename |-> f, eresult |-> n, filesize |-> m, sha |-> d,
                      offset |-> n, count |-> m]
    BY <1>1, <1>4 DEF Written
  <2>2. Keeps(w.msg, w.wants, w.means)
    <3>1. Keeps(BuildResponse(f, n, m, d, n, m), ResponseFields,
                [filename |-> f, eresult |-> n, filesize |-> m, sha |-> d,
                 offset |-> n, count |-> m])
      BY ResponseKept
    <3> QED
      BY <2>1, <3>1
  <2>3. w.means = [name \in DOMAIN w.wants |-> w.means[name]]
    BY <2>1 DEF ResponseFields
  <2> QED
    BY <2>2, <2>3
<1>5. CASE i = 4
  <2>1. /\ w.msg = BuildReadResponse(f, n, m, d, n, d) /\ w.wants = ReadResponseFields
        /\ w.means = [filename |-> f, eresult |-> n, filesize |-> m, sha |-> d,
                      offset |-> n, count |-> Len(d), bytes |-> d]
    BY <1>1, <1>5 DEF Written
  <2>2. Keeps(w.msg, w.wants, w.means)
    BY <2>1, ReadResponseKept
  <2>3. w.means = [name \in DOMAIN w.wants |-> w.means[name]]
    BY <2>1 DEF ReadResponseFields
  <2> QED
    BY <2>2, <2>3
<1>6. CASE i = 5
  <2>1. /\ w.msg = BuildResponse(f, n, m, d, n, m) /\ w.wants = RequestFields
        /\ w.means = [filename |-> f, filesize |-> m, sha |-> d]
    BY <1>1, <1>6 DEF Written
  <2>2. Keeps(w.msg, w.wants, w.means)
    <3>1. Keeps(BuildResponse(f, n, m, d, n, m), RequestFields,
                [filename |-> f, filesize |-> m, sha |-> d])
      BY ResponseKept
    <3> QED
      BY <2>1, <3>1
  <2>3. w.means = [name \in DOMAIN w.wants |-> w.means[name]]
    BY <2>1 DEF RequestFields
  <2> QED
    BY <2>2, <2>3
<1>7. CASE i = 6
  <2>1. /\ w.msg = BuildNewLoginKey(n, f) /\ w.wants = NewLoginKeyFields
        /\ w.means = [id |-> n, key |-> f]
    BY <1>1, <1>7 DEF Written
  <2> QED
    BY <2>1, LoginKeyKept DEF NewLoginKeyFields
<1>8. CASE i = 7
  <2>1. /\ w.msg = Header(n, m, m, n) /\ w.wants = HeaderFields
        /\ w.means = [steamid |-> m, source |-> IF n = 0 THEN JobNone ELSE n,
                      target |-> IF m = 0 THEN JobNone ELSE m]
    BY <1>1, <1>8 DEF Written
  <2>2. Keeps(w.msg, w.wants, w.means)
    BY <2>1, HeaderKept
  <2>3. w.means = [name \in DOMAIN w.wants |-> w.means[name]]
    BY <2>1 DEF HeaderFields
  <2> QED
    BY <2>2, <2>3
<1> QED
  BY <1>2, <1>3, <1>4, <1>5, <1>6, <1>7, <1>8

\* Whatever numbers and texts of the width a message is built from, its parser finds
\* them, and in what is left of it when it is cut short nothing else.
THEOREM MessagesSurvive ==
  \A numbers \in SUBSET AllNumbers, texts \in SUBSET AllTexts : MessagesRoundTrip(numbers, texts)
<1> SUFFICES ASSUME NEW numbers \in SUBSET AllNumbers, NEW texts \in SUBSET AllTexts,
                    NEW n \in numbers, NEW m \in numbers, NEW f \in texts, NEW d \in texts,
                    NEW w \in Range(Written(n, m, f, d)), NEW k \in 0..Len(w.msg),
                    NEW got \in {Parse(w.wants, SubSeq(w.msg, 1, k))}
             PROVE  /\ k = Len(w.msg) => got = w.means
                    /\ \A name \in DOMAIN w.wants :
                         \/ got[name] \in {w.means[name], w.wants[name].default, Raises}
                         \/ w.wants[name].wire = 2 /\ IsPrefix(got[name], w.means[name])
  BY DEF MessagesRoundTrip
<1>1. Keeps(w.msg, w.wants, w.means) /\ w.means = [name \in DOMAIN w.wants |-> w.means[name]]
  BY WrittenKept
<1>2. got = Parse(w.wants, SubSeq(w.msg, 1, k))
  OBVIOUS
<1> QED
  BY <1>1, <1>2, KeptWhenCut

-------------------------------------------------------------------------------
(***************************************************************************)
(* In the translator.                                                      *)
(***************************************************************************)

\* What a run tries fits into the width that is assumed.
LEMMA TriedFit ==
  Numbers \in SUBSET AllNumbers /\ Texts \in SUBSET AllTexts
<1>1. Limit >= 256 /\ Limit \in Nat
  <2>1. Width \in Nat /\ 8 \in Nat /\ 8 <= Width
    BY CodecAssumption, MCAssumption
  <2>2. Pow(2, 8) <= Limit
    BY <2>1, PowGrows DEF Limit
  <2>3. Pow(2, 8) = 256
    BY PowersOfTwo
  <2> QED
    BY <2>2, <2>3, Widths
<1>2. Byte >= 16 /\ Byte \in Nat
  <2>1. Group + 1 \in Nat /\ 4 \in Nat /\ 4 <= Group + 1
    BY CodecAssumption, MCAssumption
  <2>2. Pow(2, 4) <= Byte
    BY <2>1, PowGrows DEF Byte
  <2>3. Pow(2, 4) = 16
    BY PowersOfTwo
  <2> QED
    BY <2>2, <2>3, Widths
<1>3. ASSUME NEW t \in Texts
      PROVE  t \in AllTexts
  <2> DEFINE B == 0 .. Byte - 1
  <2>1. 0 \in B /\ 1 \in B /\ 2 \in B /\ 4 \in B /\ 10 \in B /\ 15 \in B
    BY <1>2
  <2> HIDE DEF B
  <2>2. /\ <<>> \in Seq(B) /\ <<1>> \in Seq(B)
        /\ <<10, 4, 0>> \in Seq(B) /\ <<15, 15, 2>> \in Seq(B)
    BY <2>1
  <2>3. Len(<<>>) = 0 /\ Len(<<1>>) = 1 /\ Len(<<10, 4, 0>>) = 3 /\ Len(<<15, 15, 2>>) = 3
    OBVIOUS
  <2>4. t = <<>> \/ t = <<1>> \/ t = <<10, 4, 0>> \/ t = <<15, 15, 2>>
    BY DEF Texts
  <2>5. t \in Seq(B)
    BY <2>2, <2>4, Zenon
  <2>6. Len(t) = 0 \/ Len(t) = 1 \/ Len(t) = 3
    BY <2>3, <2>4, Zenon
  <2>7. Len(t) < Limit
    <3>1. 0 < Limit /\ 1 < Limit /\ 3 < Limit
      BY <1>1
    <3> QED
      BY <2>6, <3>1, Zenon
  <2>8. t \in Bytes
    BY <2>5 DEF Bytes, B
  <2> QED
    BY <2>7, <2>8 DEF AllTexts
<1>4. Numbers \in SUBSET AllNumbers
  BY <1>1 DEF Numbers, AllNumbers
<1> QED
  BY <1>3, <1>4

\* Whatever jobs the client has asked for, a header carries them back.
LEMMA JobComesBack ==
  ASSUME NEW job \in 1..MaxSends
  PROVE  Parse(HeaderFields, Header(job, JobNone, 0, 0))
           = [steamid |-> 0, source |-> job, target |-> JobNone]
<1> DEFINE msg == Header(job, JobNone, 0, 0)
           means == [steamid |-> 0, source |-> job, target |-> JobNone]
<1>1. job \in AllNumbers /\ JobNone \in AllNumbers /\ 0 \in AllNumbers /\ job # 0 /\ JobNone # 0
  BY TranslatorAssumption, MCAssumption, Widths DEF AllNumbers, JobNone
<1>2. Keeps(msg, HeaderFields,
            [steamid |-> 0, source |-> IF job = 0 THEN JobNone ELSE job,
             target |-> IF JobNone = 0 THEN JobNone ELSE JobNone])
  BY <1>1, HeaderKept
<1>3. Keeps(msg, HeaderFields, means) /\ means = [name \in DOMAIN HeaderFields |-> means[name]]
  BY <1>1, <1>2 DEF HeaderFields
<1>4. msg \in Bytes
  BY <1>3 DEF Keeps, HeaderFields, Heard
<1>5. Len(msg) \in 0..Len(msg) /\ SubSeq(msg, 1, Len(msg)) = msg
  BY <1>4, LenProperties, SubSeqFull DEF Bytes
<1> HIDE DEF msg, means
<1>6. Parse(HeaderFields, msg) = means
  <2> DEFINE got == Parse(HeaderFields, SubSeq(msg, 1, Len(msg)))
  <2>1. got = Parse(HeaderFields, SubSeq(msg, 1, Len(msg)))
    OBVIOUS
  <2> HIDE DEF got
  <2>2. got = means
    BY <1>3, <1>5, <2>1, KeptWhenCut
  <2> QED
    BY <1>5, <2>1, <2>2
<1> QED
  BY <1>6 DEF msg, means

\* Wherever the translator gets to, the codec has kept what messages mean, and every
\* job id that it may have to reply to survives a header.
THEOREM CodecIsFaithful == Spec => []CodecKeepsMeaning
<1>1. CodecLaws
  BY TriedFit, VarintsSurvive, MessagesSurvive DEF CodecLaws
<1>2. TypeOK => CodecKeepsMeaning
  BY <1>1, JobComesBack DEF CodecKeepsMeaning, TypeOK
<1> QED
  BY <1>2, TypesHold, PTL
===============================================================================
