-------------------------- MODULE MarshallingProofs --------------------------
(***************************************************************************)
(* Marshalling, for all values, where the runs take a few: what Variant and*)
(* Ocp1DataTypes write a reader finds again; a message is marked off in the*)
(* stream by the size in its header, and is read as the message that was   *)
(* sent; and no two objects whose fields are in range have one number.     *)
(*                                                                         *)
(* The numbers in bytes are recursive functions.  That a recursive function*)
(* has the values its definition says, and what follows by induction on    *)
(* the number of bytes, is proved here from NatLessThanWellFounded and     *)
(* WFMin: the induction theorems of the library have an operator for a     *)
(* parameter, the lemma SetInduction has a set.                            *)
(***************************************************************************)
EXTENDS Variant, Ocp1Message, WellFoundedInduction, SequenceTheorems, TLAPS

-----------------------------------------------------------------------------
(* Arithmetic, induction, and functions defined by recursion.              *)

(* Division and remainder, as the provers know them.                       *)
LEMMA DivMod ==
  ASSUME NEW x \in Int, NEW m \in Nat \ {0}
  PROVE  x \div m \in Int /\ x % m \in 0 .. m - 1 /\ x = m * (x \div m) + (x % m)
OBVIOUS

(* No other quotient and remainder make the same number.                   *)
LEMMA DivModUnique ==
  ASSUME NEW m \in Nat \ {0}, NEW q \in Int, NEW r \in 0 .. m - 1
  PROVE  (m * q + r) \div m = q /\ (m * q + r) % m = r
OBVIOUS

(* A natural number divided is one.                                        *)
LEMMA DivPositive ==
  ASSUME NEW x \in Nat, NEW m \in Nat \ {0}
  PROVE  x \div m \in Nat
OBVIOUS

(* Dividing by a product is dividing by one factor after the other.        *)
LEMMA ModOfProduct ==
  ASSUME NEW x \in Int, NEW p \in Nat \ {0}, NEW b \in Nat \ {0}
  PROVE  /\ p * b \in Nat \ {0}
         /\ x \div (p * b) = (x \div b) \div p
         /\ x % (p * b) = (((x \div b) % p) * b) + (x % b)
<1> DEFINE y == x \div b
           q == y \div p
           r == y % p
           s == x % b
<1>1. y \in Int /\ s \in 0 .. b - 1 /\ x = b * y + s
  BY DivMod
<1>2. q \in Int /\ r \in 0 .. p - 1 /\ y = p * q + r
  BY <1>1, DivMod
<1> HIDE DEF y, q, r, s
<1>3. p * b \in Nat \ {0}
  OBVIOUS
<1>4. r * b + s \in 0 .. p * b - 1
  <2>1. r * b \in Nat /\ r * b =< (p - 1) * b
    BY <1>2
  <2>2. (p - 1) * b = p * b - b
    OBVIOUS
  <2> QED
    BY <1>1, <1>2, <2>1, <2>2, <1>3
<1>5. x = (p * b) * q + (r * b + s)
  BY <1>1, <1>2
<1>6. x \div (p * b) = q /\ (x % (p * b)) = r * b + s
  BY <1>2, <1>3, <1>4, <1>5, DivModUnique
<1> QED
  BY <1>3, <1>6 DEF q, r, s, y

(* Induction: a set that holds 0, and with each number the next, holds all *)
(* of them.  (The theorem of the library has an operator for a parameter.) *)
LEMMA SetInduction ==
  ASSUME NEW S, 0 \in S, \A n \in Nat : n \in S => n + 1 \in S
  PROVE  Nat \subseteq S
<1> SUFFICES ASSUME ~ (Nat \subseteq S) PROVE FALSE
  OBVIOUS
<1> DEFINE R == {ss \in Nat \X Nat : ss[1] < ss[2]}
           T == Nat \ S
<1>1. IsWellFoundedOn(R, Nat)
  BY NatLessThanWellFounded DEF OpToRel
<1>2. T \subseteq Nat /\ T # {}
  OBVIOUS
<1>3. \A x \in Nat, y \in Nat : y < x => << y, x >> \in R
  OBVIOUS
<1> HIDE DEF R
<1>4. PICK x \in T : \A y \in T : ~ (<< y, x >> \in R)
  BY <1>1, <1>2, WFMin, Zenon
<1>5. x \in Nat /\ x # 0 /\ x \notin S
  OBVIOUS
<1>6. x - 1 \in Nat /\ x - 1 < x /\ (x - 1) + 1 = x
  BY <1>5
<1>7. x - 1 \in S
  BY <1>3, <1>4, <1>5, <1>6
<1> QED
  BY <1>5, <1>6, <1>7

Steps(T) == [Nat -> [T -> T]]
Follows(g, T, a, f) ==
  g \in [Nat -> T] /\ g[0] = a /\ \A n \in Nat : g[n + 1] = f[n][g[n]]

(* There is a function of every first value and every step from one value  *)
(* to the next.                                                            *)
LEMMA PrimitiveRecursion ==
  ASSUME NEW T, NEW a \in T, NEW f \in Steps(T)
  PROVE  \E g : Follows(g, T, a, f)
<1> USE DEF Steps
<1> DEFINE Upto(m) == {g \in [0 .. m -> T] :
                         g[0] = a /\ \A n \in 0 .. m - 1 : g[n + 1] = f[n][g[n]]}
           S == {m \in Nat : Upto(m) # {}}
           U == {n \in Nat : \A m \in Nat, k \in Nat : n =< m /\ n =< k =>
                   \A g \in Upto(m), h \in Upto(k) : g[n] = h[n]}
<1>1. Nat \subseteq S
  <2>1. 0 \in S
    <3> DEFINE g == [i \in 0 .. 0 |-> a]
    <3>1. g \in Upto(0)
      OBVIOUS
    <3> QED
      BY <3>1
  <2>2. ASSUME NEW m \in Nat, m \in S PROVE m + 1 \in S
    <3>1. PICK g \in Upto(m) : TRUE
      BY <2>2
    <3> DEFINE h == [i \in 0 .. m + 1 |-> IF i =< m THEN g[i] ELSE f[m][g[m]]]
    <3>2. g \in [0 .. m -> T] /\ g[0] = a /\ \A n \in 0 .. m - 1 : g[n + 1] = f[n][g[n]]
      BY <3>1
    <3>3. \A i \in 0 .. m : g[i] \in T /\ f[m][g[i]] \in T
      BY <3>2
    <3>4. h \in [0 .. m + 1 -> T]
      BY <3>3
    <3>5. \A i \in 0 .. m : h[i] = g[i]
      OBVIOUS
    <3>6. h[m + 1] = f[m][g[m]]
      OBVIOUS
    <3> HIDE DEF h
    <3>7. ASSUME NEW n \in 0 .. m PROVE h[n + 1] = f[n][h[n]]
      <4>1. CASE n = m
        BY <3>5, <3>6, <4>1
      <4>2. CASE n # m
        <5>1. n \in 0 .. m - 1 /\ n + 1 \in 0 .. m
          BY <4>2
        <5> QED
          BY <5>1, <3>2, <3>5
      <4> QED
        BY <4>1, <4>2
    <3>8. h[0] = a
      BY <3>2, <3>5
    <3>9. (m + 1) - 1 = m
      OBVIOUS
    <3>10. h \in Upto(m + 1)
      BY <3>4, <3>7, <3>8, <3>9
    <3> QED
      BY <3>10
  <2> HIDE DEF S
  <2> QED
    BY <2>1, <2>2, SetInduction
<1>2. Nat \subseteq U
  <2>1. 0 \in U
    OBVIOUS
  <2>2. ASSUME NEW n \in Nat, n \in U PROVE n + 1 \in U
    <3> SUFFICES ASSUME NEW m \in Nat, NEW k \in Nat, n + 1 =< m, n + 1 =< k,
                        NEW g \in Upto(m), NEW h \in Upto(k)
                 PROVE  g[n + 1] = h[n + 1]
      BY SMTT(30)
    <3>1. n \in 0 .. m - 1 /\ n \in 0 .. k - 1 /\ n =< m /\ n =< k
      OBVIOUS
    <3>2. g[n + 1] = f[n][g[n]] /\ h[n + 1] = f[n][h[n]]
      BY <3>1
    <3>3. g[n] = h[n]
      <4> HIDE DEF Upto
      <4> QED
        BY <2>2, <3>1
    <3> QED
      BY <3>2, <3>3
  <2> HIDE DEF U
  <2> QED
    BY <2>1, <2>2, SetInduction
<1> DEFINE part(n) == CHOOSE g \in Upto(n) : TRUE
           g == [n \in Nat |-> part(n)[n]]
<1>3. ASSUME NEW n \in Nat PROVE part(n) \in Upto(n)
  BY <1>1, <1>3
<1> HIDE DEF part
<1>4. ASSUME NEW n \in Nat PROVE part(n)[n] \in T
  BY <1>3, <1>4
<1>5. g \in [Nat -> T]
  BY <1>4
<1>6. g[0] = a
  BY <1>3
<1>7. ASSUME NEW n \in Nat PROVE g[n + 1] = f[n][g[n]]
  <2>1. n + 1 \in Nat /\ n =< n + 1 /\ n \in 0 .. (n + 1) - 1
    OBVIOUS
  <2>2. part(n + 1) \in Upto(n + 1) /\ part(n) \in Upto(n)
    BY <1>3, <2>1
  <2>3. part(n + 1)[n + 1] = f[n][part(n + 1)[n]]
    BY <2>1, <2>2
  <2>4. part(n + 1)[n] = part(n)[n]
    <3>1. n \in U /\ n =< n
      BY <1>2, SMTT(30)
    <3> HIDE DEF Upto
    <3> QED
      BY <2>1, <2>2, <3>1
  <2> QED
    BY <2>1, <2>3, <2>4
<1> QED
  BY <1>5, <1>6, <1>7 DEF Follows
-----------------------------------------------------------------------------
(* Numbers to any base, of which Ocp1DataTypes has ByteSize and the        *)
(* headers of Ocp1Message 256.                                             *)
PowersOf(b) == CHOOSE power :
                 power = [n \in Nat |-> IF n = 0 THEN 1 ELSE b * power[n - 1]]
DigitsOf(b, n, v) == [i \in 1 .. n |-> (v \div PowersOf(b)[n - i]) % b]
NumberOf(b, n, data) ==
  LET upTo[i \in 0 .. n] == IF i = 0 THEN 0 ELSE upTo[i - 1] * b + data[i]
  IN  upTo[n]

(* The recursive definition of the powers of b has a solution.             *)
LEMMA PowersAreDefined ==
  ASSUME NEW b \in Nat \ {0}
  PROVE  /\ PowersOf(b)[0] = 1
         /\ \A n \in Nat : PowersOf(b)[n] \in Nat \ {0} /\ PowersOf(b)[n + 1] = b * PowersOf(b)[n]
<1> DEFINE T == Nat \ {0}
           f == [n \in Nat |-> [x \in T |-> b * x]]
<1>1. f \in [Nat -> [T -> T]]
  OBVIOUS
<1>2. \A n \in Nat, v \in T : f[n][v] = b * v
  OBVIOUS
<1>3. 1 \in T
  OBVIOUS
<1> HIDE DEF f, T
<1>4. PICK g : Follows(g, T, 1, f)
  BY <1>1, <1>3, PrimitiveRecursion DEF Steps
  <1>5. ASSUME NEW n \in Nat PROVE g[n] = IF n = 0 THEN 1 ELSE b * g[n - 1]
  <2>1. CASE n = 0
    BY <1>4, <2>1 DEF Follows
  <2>2. CASE n # 0
    <3>1. n - 1 \in Nat /\ (n - 1) + 1 = n
      BY <2>2
    <3> QED
      BY <1>2, <1>4, <2>2, <3>1 DEF Follows
  <2> QED
    BY <2>1, <2>2
<1>6. g = [n \in Nat |-> IF n = 0 THEN 1 ELSE b * g[n - 1]]
  BY <1>4, <1>5 DEF Follows
<1>7. PowersOf(b) = [n \in Nat |-> IF n = 0 THEN 1 ELSE b * PowersOf(b)[n - 1]]
  BY <1>6, Zenon DEF PowersOf
<1> DEFINE S == {n \in Nat : PowersOf(b)[n] \in T}
<1>8. Nat \subseteq S
  <2>1. 0 \in S
    BY <1>7, <1>3
  <2>2. ASSUME NEW n \in Nat, n \in S PROVE n + 1 \in S
    <3>1. PowersOf(b)[n + 1] = b * PowersOf(b)[n]
      BY <1>7
    <3> QED
      BY <2>2, <3>1 DEF T
  <2> HIDE DEF S
  <2> QED
    BY <2>1, <2>2, SetInduction
<1>9. PowersOf(b)[0] = 1
  BY <1>7
<1>10. ASSUME NEW n \in Nat PROVE PowersOf(b)[n + 1] = b * PowersOf(b)[n]
  BY <1>7
<1> QED
  BY <1>8, <1>9, <1>10 DEF T

(* The running value of NumberIn.                                          *)
RunsTo(b, upTo, n, data) ==
  /\ upTo \in [0 .. n -> Int] /\ upTo[0] = 0
  /\ \A i \in 0 .. n - 1 : upTo[i + 1] = upTo[i] * b + data[i + 1]

(* So has that of the number in the bytes of data.                         *)
LEMMA NumberIsDefined ==
  ASSUME NEW b \in Nat \ {0}, NEW n \in Nat, NEW data, \A i \in 1 .. n : data[i] \in Int
  PROVE  \E upTo : RunsTo(b, upTo, n, data) /\ NumberOf(b, n, data) = upTo[n]
<1> DEFINE f == [i \in Nat |-> [x \in Int |->
                   IF i + 1 \in 1 .. n THEN x * b + data[i + 1] ELSE 0]]
<1>1. f \in Steps(Int)
  <2>1. ASSUME NEW i \in Nat, NEW x \in Int
        PROVE  (IF i + 1 \in 1 .. n THEN x * b + data[i + 1] ELSE 0) \in Int
    OBVIOUS
  <2> QED
    BY <2>1 DEF Steps
<1>2. \A i \in 0 .. n - 1, x \in Int : f[i][x] = x * b + data[i + 1]
  OBVIOUS
<1> HIDE DEF f
<1>3. PICK g : Follows(g, Int, 0, f)
  BY <1>1, 0 \in Int, PrimitiveRecursion
<1> DEFINE h == [i \in 0 .. n |-> g[i]]
<1>4. ASSUME NEW i \in 0 .. n
      PROVE  h[i] = IF i = 0 THEN 0 ELSE h[i - 1] * b + data[i]
  <2>1. CASE i = 0
    BY <1>3, <2>1 DEF Follows
  <2>2. CASE i # 0
    <3>1. i - 1 \in 0 .. n - 1 /\ (i - 1) + 1 = i /\ i - 1 \in Nat
      BY <2>2
    <3>2. g[i] = f[i - 1][g[i - 1]] /\ g[i - 1] \in Int
      BY <1>3, <3>1 DEF Follows
    <3>3. f[i - 1][g[i - 1]] = g[i - 1] * b + data[i]
      BY <1>2, <3>1, <3>2
    <3> QED
      BY <2>2, <3>1, <3>2, <3>3
  <2> QED
    BY <2>1, <2>2
<1>5. h = [i \in 0 .. n |-> IF i = 0 THEN 0 ELSE h[i - 1] * b + data[i]]
  BY <1>4
<1> DEFINE u == CHOOSE u : u = [i \in 0 .. n |-> IF i = 0 THEN 0
                                                 ELSE u[i - 1] * b + data[i]]
<1>6. u = [i \in 0 .. n |-> IF i = 0 THEN 0 ELSE u[i - 1] * b + data[i]]
  <2> HIDE DEF h
  <2> QED
    BY <1>5, Zenon
<1>7. NumberOf(b, n, data) = u[n]
  BY Zenon DEF NumberOf
<1> HIDE DEF u
<1> DEFINE S == {i \in Nat : i =< n => u[i] \in Int}
<1>8. Nat \subseteq S
  <2>1. 0 \in S
    BY <1>6
  <2>2. ASSUME NEW i \in Nat, i \in S PROVE i + 1 \in S
    <3> SUFFICES ASSUME i + 1 =< n PROVE u[i + 1] \in Int
      OBVIOUS
    <3>1. i + 1 \in 0 .. n /\ i + 1 # 0 /\ (i + 1) - 1 = i /\ i + 1 \in 1 .. n
      OBVIOUS
    <3>2. u[i + 1] = u[i] * b + data[i + 1]
      BY <1>6, <3>1
    <3> QED
      BY <2>2, <3>1, <3>2
  <2> HIDE DEF S
  <2> QED
    BY <2>1, <2>2, SetInduction
<1>9. u \in [0 .. n -> Int]
  <2>1. \A i \in 0 .. n : u[i] \in Int
    BY <1>8
  <2> QED
    BY <1>6, <2>1
<1>10. u[0] = 0
  BY <1>6
<1>11. \A i \in 0 .. n - 1 : u[i + 1] = u[i] * b + data[i + 1]
  BY <1>6
<1> QED
  BY <1>7, <1>9, <1>10, <1>11 DEF RunsTo

(* The number in the bytes of v is v, but for what does not fit in them.   *)
LEMMA NumberOfDigits ==
  ASSUME NEW b \in Nat \ {0}, NEW n \in Nat, NEW v \in Int, NEW data,
         \A i \in 1 .. n : data[i] = DigitsOf(b, n, v)[i]
  PROVE  NumberOf(b, n, data) = v % PowersOf(b)[n]
<1>1. ASSUME NEW i \in 1 .. n
      PROVE  data[i] = (v \div PowersOf(b)[n - i]) % b /\ data[i] \in Int
  <2>1. n - i \in Nat
    OBVIOUS
  <2>2. PowersOf(b)[n - i] \in Nat \ {0}
    BY <2>1, PowersAreDefined
  <2>3. data[i] = (v \div PowersOf(b)[n - i]) % b
    BY DEF DigitsOf
  <2>4. v \div PowersOf(b)[n - i] \in Int
    BY <2>2, DivMod
  <2> QED
    BY <2>3, <2>4, DivMod
<1>2. PICK upTo : RunsTo(b, upTo, n, data) /\ NumberOf(b, n, data) = upTo[n]
  BY <1>1, NumberIsDefined
<1> DEFINE S == {i \in Nat : i =< n => upTo[i] = (v \div PowersOf(b)[n - i]) % PowersOf(b)[i]}
<1>3. Nat \subseteq S
  <2>1. 0 \in S
    <3>1. PowersOf(b)[n - 0] \in Nat \ {0}
      BY PowersAreDefined
    <3>2. v \div PowersOf(b)[n - 0] \in Int
      BY <3>1, DivMod
    <3>3. \A x \in Int : x % 1 = 0
      OBVIOUS
    <3> QED
      BY <1>2, <3>2, <3>3, PowersAreDefined DEF RunsTo
  <2>2. ASSUME NEW i \in Nat, i \in S PROVE i + 1 \in S
    <3> SUFFICES ASSUME i + 1 =< n
                 PROVE  upTo[i + 1] = (v \div PowersOf(b)[n - (i + 1)]) % PowersOf(b)[i + 1]
      OBVIOUS
    <3> DEFINE k == n - (i + 1)
               w == v \div PowersOf(b)[k]
    <3>1. k \in Nat /\ k + 1 = n - i /\ i \in 0 .. n - 1 /\ i + 1 \in 1 .. n /\ i =< n
      OBVIOUS
    <3>2. /\ PowersOf(b)[k] \in Nat \ {0} /\ PowersOf(b)[n - i] = PowersOf(b)[k] * b
          /\ PowersOf(b)[i] \in Nat \ {0} /\ PowersOf(b)[i + 1] = PowersOf(b)[i] * b
      <4>1. /\ PowersOf(b)[k] \in Nat \ {0} /\ PowersOf(b)[k + 1] = b * PowersOf(b)[k]
            /\ PowersOf(b)[i] \in Nat \ {0} /\ PowersOf(b)[i + 1] = b * PowersOf(b)[i]
        BY <3>1, PowersAreDefined
      <4> QED
        BY <3>1, <4>1
    <3>3. w \in Int
      BY <3>2, DivMod
    <3>4. v \div PowersOf(b)[n - i] = w \div b
      <4>1. v \div (b * PowersOf(b)[k]) = w \div b
        <5>1. v \div (b * PowersOf(b)[k]) = (v \div PowersOf(b)[k]) \div b
          BY <3>2, ModOfProduct, Zenon
        <5> QED
          BY <5>1
      <4> QED
        BY <3>2, <4>1
    <3>5. w % PowersOf(b)[i + 1] = (((w \div b) % PowersOf(b)[i]) * b) + (w % b)
      <4>1. w % (PowersOf(b)[i] * b)
              = (((w \div b) % PowersOf(b)[i]) * b) + (w % b)
        BY <3>2, <3>3, ModOfProduct, Zenon
      <4> QED
        BY <3>2, <4>1
    <3>6. data[i + 1] = w % b
      BY <1>1, <3>1
    <3>7. upTo[i + 1] = upTo[i] * b + data[i + 1]
      BY <1>2, <3>1 DEF RunsTo
    <3>8. upTo[i] = (w \div b) % PowersOf(b)[i]
      BY <2>2, <3>1, <3>4
    <3> HIDE DEF w
    <3> QED
      BY <3>5, <3>6, <3>7, <3>8 DEF w
  <2> HIDE DEF S
  <2> QED
    BY <2>1, <2>2, SetInduction
<1>4. upTo[n] = (v \div PowersOf(b)[0]) % PowersOf(b)[n]
  BY <1>3
<1>5. v \div PowersOf(b)[0] = v
  BY PowersAreDefined
<1> QED
  BY <1>2, <1>4, <1>5

(* A function on 1 .. n is a sequence of length n.                         *)
LEMMA FunctionIsSeq ==
  ASSUME NEW S, NEW n \in Nat, NEW s \in [1 .. n -> S]
  PROVE  s \in Seq(S) /\ Len(s) = n /\ DOMAIN s = 1 .. n
<1>1. s \in Seq(S)
  BY SeqDef
<1> QED
  BY <1>1

(* The digits of a number are a sequence.                                  *)
LEMMA DigitsAreSeq ==
  ASSUME NEW b \in Nat \ {0}, NEW n \in Nat, NEW v \in Int
  PROVE  DigitsOf(b, n, v) \in Seq(0 .. b - 1) /\ Len(DigitsOf(b, n, v)) = n
<1>1. ASSUME NEW i \in 1 .. n PROVE (v \div PowersOf(b)[n - i]) % b \in 0 .. b - 1
  <2>1. n - i \in Nat
    OBVIOUS
  <2>2. PowersOf(b)[n - i] \in Nat \ {0}
    BY <2>1, PowersAreDefined
  <2>3. v \div PowersOf(b)[n - i] \in Int
    BY <2>2, DivMod
  <2> QED
    BY <2>3, DivMod
<1>2. DigitsOf(b, n, v) \in [1 .. n -> 0 .. b - 1]
  BY <1>1 DEF DigitsOf
<1> QED
  BY <1>2, FunctionIsSeq

(* The reverse: proper bytes are those of the number they make.            *)
LEMMA DigitsOfNumber ==
  ASSUME NEW b \in Nat \ {0}, NEW n \in Nat, NEW data, \A i \in 1 .. n : data[i] \in 0 .. b - 1
  PROVE  /\ NumberOf(b, n, data) \in 0 .. PowersOf(b)[n] - 1
         /\ DigitsOf(b, n, NumberOf(b, n, data)) = [i \in 1 .. n |-> data[i]]
<1>1. \A i \in 1 .. n : data[i] \in Int
  OBVIOUS
<1>2. PICK upTo : RunsTo(b, upTo, n, data) /\ NumberOf(b, n, data) = upTo[n]
  BY <1>1, NumberIsDefined
<1> DEFINE S == {i \in Nat : i =< n => upTo[i] \in 0 .. PowersOf(b)[i] - 1}
<1>3. Nat \subseteq S
  <2>1. 0 \in S
    <3>1. upTo[0] = 0
      BY <1>2 DEF RunsTo
    <3>2. PowersOf(b)[0] = 1
      BY PowersAreDefined
    <3> QED
      BY <3>1, <3>2
  <2>2. ASSUME NEW i \in Nat, i \in S PROVE i + 1 \in S
    <3> SUFFICES ASSUME i + 1 =< n PROVE upTo[i + 1] \in 0 .. PowersOf(b)[i + 1] - 1
      OBVIOUS
    <3>1. i \in 0 .. n - 1 /\ i + 1 \in 1 .. n
      OBVIOUS
    <3>2. upTo[i + 1] = upTo[i] * b + data[i + 1]
      BY <1>2, <3>1 DEF RunsTo
    <3>3. upTo[i] \in 0 .. PowersOf(b)[i] - 1
      BY <2>2
    <3>4. data[i + 1] \in 0 .. b - 1
      BY <3>1
    <3>5. PowersOf(b)[i] \in Nat \ {0} /\ PowersOf(b)[i + 1] = b * PowersOf(b)[i]
      BY PowersAreDefined
    <3>6. ASSUME NEW u \in Int, NEW d \in Int, NEW p \in Nat \ {0},
                 u \in 0 .. p - 1, d \in 0 .. b - 1
          PROVE  u * b + d \in 0 .. b * p - 1
      <4>1. u * b =< (p - 1) * b /\ (p - 1) * b = b * p - b /\ u * b \in Nat
        BY <3>6
      <4> QED
        BY <3>6, <4>1
    <3>7. upTo[i] \in Int /\ data[i + 1] \in Int
      BY <3>3, <3>4, <3>5
    <3>8. upTo[i] * b + data[i + 1] \in 0 .. b * PowersOf(b)[i] - 1
      BY <3>3, <3>4, <3>5, <3>6, <3>7, Zenon
    <3> QED
      BY <3>2, <3>5, <3>8
  <2> HIDE DEF S
  <2> QED
    BY <2>1, <2>2, SetInduction
<1> DEFINE T == {k \in Nat : k =< n => upTo[n] \div PowersOf(b)[k] = upTo[n - k]}
<1>4. ASSUME NEW i \in 1 .. n
      PROVE  upTo[i] \div b = upTo[i - 1] /\ upTo[i] % b = data[i]
  <2>1. i - 1 \in 0 .. n - 1 /\ (i - 1) + 1 = i
    OBVIOUS
  <2>2. upTo[i] = upTo[i - 1] * b + data[i] /\ upTo[i - 1] \in Int
    BY <1>2, <2>1 DEF RunsTo
  <2>3. data[i] \in 0 .. b - 1
    OBVIOUS
  <2>4. upTo[i] = b * upTo[i - 1] + data[i]
    BY <2>2
  <2>5. b \in Nat \ {0} /\ upTo[i - 1] \in Int
    BY <2>2
  <2> QED
    BY <2>3, <2>4, <2>5, DivModUnique, Zenon
<1>5. Nat \subseteq T
  <2>1. 0 \in T
    <3>1. upTo[n] \in Int /\ n - 0 = n
      BY <1>2 DEF RunsTo
    <3>2. PowersOf(b)[0] = 1
      BY PowersAreDefined
    <3> QED
      BY <3>1, <3>2
  <2>2. ASSUME NEW k \in Nat, k \in T PROVE k + 1 \in T
    <3> SUFFICES ASSUME k + 1 =< n PROVE upTo[n] \div PowersOf(b)[k + 1] = upTo[n - (k + 1)]
      OBVIOUS
    <3>1. n - k \in 1 .. n /\ (n - k) - 1 = n - (k + 1)
      OBVIOUS
    <3>2. PowersOf(b)[k] \in Nat \ {0} /\ PowersOf(b)[k + 1] = b * PowersOf(b)[k]
      BY PowersAreDefined
    <3>5. upTo[n] \in Int
      BY <1>2 DEF RunsTo
    <3>3. upTo[n] \div (b * PowersOf(b)[k]) = (upTo[n] \div PowersOf(b)[k]) \div b
      BY <3>2, <3>5, ModOfProduct, Zenon
    <3>4. upTo[n] \div PowersOf(b)[k] = upTo[n - k]
      BY <2>2
    <3> QED
      BY <1>4, <3>1, <3>2, <3>3, <3>4
  <2> HIDE DEF T
  <2> QED
    BY <2>1, <2>2, SetInduction
<1>6. ASSUME NEW i \in 1 .. n PROVE (upTo[n] \div PowersOf(b)[n - i]) % b = data[i]
  <2>1. n - i \in Nat /\ n - i =< n /\ n - (n - i) = i
    OBVIOUS
  <2>2. upTo[n] \div PowersOf(b)[n - i] = upTo[i]
    BY <1>5, <2>1
  <2> QED
    BY <1>4, <2>2
<1>7. DigitsOf(b, n, upTo[n]) = [i \in 1 .. n |-> data[i]]
  BY <1>6 DEF DigitsOf
<1>8. upTo[n] \in 0 .. PowersOf(b)[n] - 1
  BY <1>3
<1> QED
  BY <1>2, <1>7, <1>8

-----------------------------------------------------------------------------
(* The bytes of Ocp1DataTypes.                                             *)
LEMMA ByteSizeIsPositive == ByteSize \in Nat \ {0}
BY ByteSizeAssumption

Digits == 0 .. ByteSize - 1

(* The powers of the size of a byte (Ocp1DataTypes).                       *)
LEMMA PowerIsDefined ==
  /\ Power = PowersOf(ByteSize)
  /\ Power[0] = 1
  /\ \A n \in Nat : Power[n] \in Nat \ {0} /\ Power[n + 1] = ByteSize * Power[n]
<1>1. Power = PowersOf(ByteSize)
  BY Zenon DEF Power, PowersOf
<1> QED
  BY <1>1, PowersAreDefined, ByteSizeIsPositive

(* The bytes that the conversions of Ocp1DataTypes.cpp write, and read,    *)
(* are the digits of a number.                                             *)
LEMMA BytesAreDigits ==
  /\ \A n, v : BytesOf(n, v) = DigitsOf(ByteSize, n, v)
  /\ \A n, data : NumberIn(n, data) = NumberOf(ByteSize, n, data)
<1>1. \A n, v : BytesOf(n, v) = DigitsOf(ByteSize, n, v)
  BY PowerIsDefined, Zenon DEF BytesOf, DigitsOf
<1>2. \A n, data : NumberIn(n, data) = NumberOf(ByteSize, n, data)
  BY Zenon DEF NumberIn, NumberOf
<1> QED
  BY <1>1, <1>2

(* They are a sequence of as many bytes as the type has.                   *)
LEMMA BytesOfIsSeq ==
  ASSUME NEW n \in Nat, NEW v \in Int
  PROVE  BytesOf(n, v) \in Seq(Digits) /\ Len(BytesOf(n, v)) = n
BY BytesAreDigits, DigitsAreSeq, ByteSizeIsPositive, Zenon DEF Digits

(* The number in the bytes of v is v, but for what does not fit in them.   *)
THEOREM NumberInBytesOf ==
  ASSUME NEW n \in Nat, NEW v \in Int, NEW data,
         \A i \in 1 .. n : data[i] = BytesOf(n, v)[i]
  PROVE  NumberIn(n, data) = v % Power[n]
<1>1. \A i \in 1 .. n : data[i] = DigitsOf(ByteSize, n, v)[i]
  BY BytesAreDigits
<1>2. NumberOf(ByteSize, n, data) = v % PowersOf(ByteSize)[n]
  BY <1>1, NumberOfDigits, ByteSizeIsPositive
<1> QED
  BY <1>2, BytesAreDigits, PowerIsDefined

(* The reverse: proper bytes are those of the number they make.            *)
THEOREM BytesOfNumberIn ==
  ASSUME NEW n \in Nat, NEW data, \A i \in 1 .. n : data[i] \in Digits
  PROVE  /\ NumberIn(n, data) \in 0 .. Power[n] - 1
         /\ BytesOf(n, NumberIn(n, data)) = [i \in 1 .. n |-> data[i]]
<1>1. /\ NumberOf(ByteSize, n, data) \in 0 .. PowersOf(ByteSize)[n] - 1
      /\ DigitsOf(ByteSize, n, NumberOf(ByteSize, n, data)) = [i \in 1 .. n |-> data[i]]
  BY DigitsOfNumber, ByteSizeIsPositive DEF Digits
<1> QED
  BY <1>1, BytesAreDigits, PowerIsDefined

-----------------------------------------------------------------------------
(* What is read from bytes that were written.                              *)

(* A number that fits is its own remainder.                                *)
LEMMA Remainder ==
  ASSUME NEW n \in Nat, NEW v \in 0 .. Power[n] - 1
  PROVE  v % Power[n] = v
<1>1. Power[n] \in Nat \ {0}
  BY PowerIsDefined
<1> QED
  BY <1>1

(* Two's complement keeps the numbers that fit.                            *)
LEMMA SignedRemainder ==
  ASSUME NEW n \in Nat, NEW v \in Int, FitsSigned(n, v)
  PROVE  AsSigned(n, v % Power[n]) = v
<1> DEFINE p == Power[n]
           h == p \div 2
<1>1. p \in Nat \ {0}
  BY PowerIsDefined
<1> HIDE DEF p
<1>2. h \in Nat /\ p = 2 * h + (p % 2) /\ p % 2 \in 0 .. 1
  BY <1>1
<1> HIDE DEF h
<1>3. -h =< v /\ v < h
  BY DEF FitsSigned, h, p
<1>4. CASE v >= 0
  <2>1. v % p = v
    BY <1>1, <1>2, <1>3, <1>4
  <2> QED
    BY <1>3, <2>1 DEF AsSigned, h, p
<1>5. CASE v < 0
  <2>1. p * (-1) + (v + p) = v /\ v + p \in 0 .. p - 1
    BY <1>1, <1>2, <1>3, <1>5
  <2>2. v % p = v + p
    <3>1. (p * (-1) + (v + p)) % p = v + p
      BY <1>1, <2>1, -1 \in Int, DivModUnique, Zenon
    <3> QED
      BY <2>1, <3>1
  <2>3. ~ (v + p < h)
    BY <1>1, <1>2, <1>3, <1>5
  <2>4. (v + p) - p = v
    BY <1>1
  <2> QED
    BY <2>2, <2>3, <2>4 DEF AsSigned, h, p
<1> QED
  BY <1>4, <1>5

(* A reader finds the value that its writer put first.                     *)
THEOREM UnsignedIsRead ==
  ASSUME NEW n \in Nat, NEW v \in 0 .. Power[n] - 1, NEW rest \in Seq(Int)
  PROVE  ReadUnsigned(n, BytesOf(n, v) \o rest) = Read(TRUE, v)
<1> DEFINE bytes == BytesOf(n, v)
           data == bytes \o rest
<1>1. v \in Int /\ Digits \subseteq Int
  BY PowerIsDefined DEF Digits
<1>2. bytes \in Seq(Int) /\ Len(bytes) = n
  BY <1>1, BytesOfIsSeq, SeqMonotonic
<1> HIDE DEF bytes
<1>3. Len(data) >= n /\ \A i \in 1 .. n : data[i] = bytes[i]
  BY <1>2
<1> HIDE DEF data
<1>4. NumberIn(n, data) = v
  BY <1>1, <1>3, NumberInBytesOf, Remainder DEF bytes
<1> QED
  BY <1>3, <1>4 DEF ReadUnsigned, data, bytes

(* The same of the signed types and of floats.                             *)
THEOREM SignedIsRead ==
  ASSUME NEW n \in Nat, NEW v \in Int, FitsSigned(n, v), NEW rest \in Seq(Int)
  PROVE  ReadSigned(n, BytesOf(n, v) \o rest) = Read(TRUE, v)
<1> DEFINE bytes == BytesOf(n, v)
           data == bytes \o rest
<1>1. v \in Int /\ Digits \subseteq Int
  BY PowerIsDefined DEF Digits
<1>2. bytes \in Seq(Int) /\ Len(bytes) = n
  BY <1>1, BytesOfIsSeq, SeqMonotonic
<1> HIDE DEF bytes
<1>3. Len(data) >= n /\ \A i \in 1 .. n : data[i] = bytes[i]
  BY <1>2
<1> HIDE DEF data
<1>4. AsSigned(n, NumberIn(n, data)) = v
  BY <1>1, <1>3, NumberInBytesOf, SignedRemainder, SMTT(30) DEF bytes
<1> QED
  BY <1>3, <1>4 DEF ReadSigned, data, bytes

(* The same of a text, behind its length.  It holds for a text of any      *)
(* length: what the length loses in its two bytes the reader never looks   *)
(* at.                                                                     *)
LEMMA StringIsRead ==
  ASSUME NEW s \in Seq(Int)
  PROVE  DataToString(DataFromString(s)) = Read(TRUE, s)
<1> DEFINE bytes == BytesOf(2, Len(s))
           data == bytes \o s
<1>1. Digits \subseteq Int /\ Len(s) \in Int
  BY ByteSizeAssumption DEF Digits
<1>2. bytes \in Seq(Int) /\ Len(bytes) = 2
  BY <1>1, BytesOfIsSeq, SeqMonotonic
<1> HIDE DEF bytes
<1>3. data \in Seq(Int) /\ Len(data) = 2 + Len(s) /\ Len(s) \in Nat
  <2>1. bytes \o s \in Seq(Int) /\ Len(bytes \o s) = Len(bytes) + Len(s)
    BY <1>2, ConcatProperties, Zenon
  <2> QED
    BY <1>2, <2>1
<1>4. SubSeq(data, 3, Len(data)) = s
  <2> DEFINE sub == SubSeq(data, 3, Len(data))
  <2>1. sub \in Seq(Int) /\ Len(sub) = Len(s)
    BY <1>2, <1>3
  <2>2. ASSUME NEW i \in 1 .. Len(s) PROVE sub[i] = s[i]
    BY <1>2, <1>3
  <2> QED
    BY <2>1, <2>2, SeqEqual
<1>5. DataFromString(s) = data
  BY DEF DataFromString, bytes
<1> HIDE DEF data
<1>6. Len(data) >= 2
  BY <1>3
<1> QED
  BY <1>4, <1>5, <1>6, Zenon DEF DataToString

(* A value travels unchanged: the variant made of the parameter data that  *)
(* sets an object of its type is that value again, of every type, for      *)
(* every value the type has, and for every size of the bytes.              *)
THEOREM VariantTravels ==
  ASSUME NEW type \in Integral \cup Floating \cup {"BOOLEAN", "STRING", "BLOB"},
         NEW value, IsTyped(<< type, value >>)
  PROVE  VariantFromData(ToByteVector(<< type, value >>).value, type)
           = Read(TRUE, << type, value >>)
<1> DEFINE v == << type, value >>
<1>1. \A n \in {1, 2, 4, 8}, x \in Int : BytesOf(n, x) \o << >> = BytesOf(n, x)
  <2> SUFFICES ASSUME NEW n \in {1, 2, 4, 8}, NEW x \in Int
               PROVE  BytesOf(n, x) \o << >> = BytesOf(n, x)
    OBVIOUS
  <2>1. BytesOf(n, x) \in Seq(Digits)
    BY n \in Nat, BytesOfIsSeq
  <2> QED
    BY <2>1, ConcatEmptySeq
<1>2. << >> \in Seq(Int) /\ 1 \in Nat /\ 2 \in Nat /\ 4 \in Nat /\ 8 \in Nat
  OBVIOUS
<1>3. \A n \in {1, 2, 4, 8} : \A x \in 0 .. Power[n] - 1 :
        x \in Int /\ ReadUnsigned(n, BytesOf(n, x)) = Read(TRUE, x)
  <2> SUFFICES ASSUME NEW n \in {1, 2, 4, 8}, NEW x \in 0 .. Power[n] - 1
               PROVE  x \in Int /\ ReadUnsigned(n, BytesOf(n, x)) = Read(TRUE, x)
    OBVIOUS
  <2>1. n \in Nat /\ x \in Int
    BY PowerIsDefined
  <2>2. ReadUnsigned(n, BytesOf(n, x) \o << >>) = Read(TRUE, x)
    BY <1>2, <2>1, UnsignedIsRead
  <2> QED
    BY <1>1, <2>1, <2>2
<1>4. \A n \in {4, 8} : \A x \in Int :
        FitsSigned(n, x) => ReadSigned(n, BytesOf(n, x)) = Read(TRUE, x)
  <2> SUFFICES ASSUME NEW n \in {4, 8}, NEW x \in Int, FitsSigned(n, x)
               PROVE  ReadSigned(n, BytesOf(n, x)) = Read(TRUE, x)
    OBVIOUS
  <2>1. n \in Nat /\ n \in {1, 2, 4, 8}
    OBVIOUS
  <2>2. ReadSigned(n, BytesOf(n, x) \o << >>) = Read(TRUE, x)
    BY <1>2, <2>1, SignedIsRead
  <2> QED
    BY <1>1, <2>1, <2>2
<1>5. /\ (Read(TRUE, value)).ok = TRUE /\ (Read(TRUE, value)).value = value
      /\ \A bytes : (Read(TRUE, bytes)).value = bytes
  BY DEF Read
<1>6. CASE type = "BOOLEAN"
  <2>1. ToByteVector(v).value = DataFromBool(value) /\ value \in BOOLEAN
    BY <1>5, <1>6 DEF ToByteVector, IsTyped
  <2>2. DataToBool(DataFromBool(value)) = Read(TRUE, value)
    <3>1. CASE value = TRUE
      <4>1. DataFromBool(value) = << 1 >>
        BY <3>1 DEF DataFromBool
      <4>2. (Len(<< 1 >>) = 1) = TRUE /\ (Len(<< 1 >>) = 1 /\ << 1 >>[1] = 1) = TRUE
        OBVIOUS
      <4> QED
        BY <3>1, <4>1, <4>2, Zenon DEF DataToBool
    <3>2. CASE value = FALSE
      <4>1. DataFromBool(value) = << 0 >>
        BY <3>2 DEF DataFromBool
      <4>2. (Len(<< 0 >>) = 1) = TRUE /\ (Len(<< 0 >>) = 1 /\ << 0 >>[1] = 1) = FALSE
        OBVIOUS
      <4> QED
        BY <3>2, <4>1, <4>2, Zenon DEF DataToBool
    <3> QED
      BY <2>1, <3>1, <3>2
  <2> QED
    BY <1>5, <1>6, <2>1, <2>2 DEF VariantFromData, FromRead
<1>7. CASE type = "UINT8"
  <2>1. ToByteVector(v).value = BytesOf(1, value) /\ value \in 0 .. Power[1] - 1
    BY <1>5, <1>7 DEF ToByteVector, IsTyped, DataFromUint8
  <2>2. DataToUint8(BytesOf(1, value)) = Read(TRUE, value)
    BY <1>3, <2>1 DEF DataToUint8
  <2> QED
    BY <1>5, <1>7, <2>1, <2>2 DEF VariantFromData, FromRead
<1>8. CASE type = "UINT16"
  <2>1. ToByteVector(v).value = BytesOf(2, value) /\ value \in 0 .. Power[2] - 1
    BY <1>5, <1>8 DEF ToByteVector, IsTyped, DataFromUint16
  <2>2. DataToUint16(BytesOf(2, value)) = Read(TRUE, value)
    BY <1>3, <2>1 DEF DataToUint16
  <2> QED
    BY <1>5, <1>8, <2>1, <2>2 DEF VariantFromData, FromRead
<1>9. CASE type = "UINT32"
  <2>1. ToByteVector(v).value = BytesOf(4, value) /\ value \in 0 .. Power[4] - 1
    BY <1>5, <1>9 DEF ToByteVector, IsTyped, DataFromUint32
  <2>2. DataToUint32(BytesOf(4, value)) = Read(TRUE, value)
    BY <1>3, <2>1 DEF DataToUint32
  <2> QED
    BY <1>5, <1>9, <2>1, <2>2 DEF VariantFromData, FromRead
<1>10. CASE type = "UINT64"
  <2>1. ToByteVector(v).value = BytesOf(8, value) /\ value \in 0 .. Power[8] - 1
    BY <1>5, <1>10 DEF ToByteVector, IsTyped, DataFromUint64
  <2>2. DataToUint64(BytesOf(8, value)) = Read(TRUE, value)
    BY <1>3, <2>1 DEF DataToUint64
  <2> QED
    BY <1>5, <1>10, <2>1, <2>2 DEF VariantFromData, FromRead
<1>11. CASE type = "INT32"
  <2>1. ToByteVector(v).value = BytesOf(4, value) /\ value \in Int /\ FitsSigned(4, value)
    BY <1>5, <1>11 DEF ToByteVector, IsTyped, DataFromInt32
  <2>2. DataToInt32(BytesOf(4, value)) = Read(TRUE, value)
    BY <1>4, <2>1 DEF DataToInt32
  <2> QED
    BY <1>5, <1>11, <2>1, <2>2 DEF VariantFromData, FromRead
<1>12. CASE type = "FLOAT32"
  <2>1. ToByteVector(v).value = BytesOf(4, value) /\ value \in Int /\ FitsSigned(4, value)
    BY <1>5, <1>12 DEF ToByteVector, IsTyped, DataFromFloat
  <2>2. DataToFloat(BytesOf(4, value)) = Read(TRUE, value)
    BY <1>4, <2>1 DEF DataToFloat
  <2> QED
    BY <1>5, <1>12, <2>1, <2>2 DEF VariantFromData, FromRead
<1>13. CASE type = "FLOAT64"
  <2>1. ToByteVector(v).value = BytesOf(8, value) /\ value \in Int /\ FitsSigned(8, value)
    BY <1>5, <1>13 DEF ToByteVector, IsTyped, DataFromDouble
  <2>2. DataToDouble(BytesOf(8, value)) = Read(TRUE, value)
    BY <1>4, <2>1 DEF DataToDouble
  <2> QED
    BY <1>5, <1>13, <2>1, <2>2 DEF VariantFromData, FromRead
<1>14. CASE type = "STRING"
  <2>1. ToByteVector(v).value = DataFromString(value) /\ value \in Seq(Int)
    BY <1>5, <1>14 DEF ToByteVector, IsTyped
  <2>2. DataToString(DataFromString(value)) = Read(TRUE, value)
    BY <2>1, StringIsRead
  <2> QED
    BY <1>5, <1>14, <2>1, <2>2 DEF VariantFromData, FromRead
<1>15. CASE type = "BLOB"
  <2>1. ToByteVector(v).value = value /\ Len(value) >= 2
    BY <1>5, <1>15 DEF ToByteVector, IsTyped
  <2> QED
    BY <1>15, <2>1 DEF VariantFromData
<1> QED
  BY <1>6, <1>7, <1>8, <1>9, <1>10, <1>11, <1>12, <1>13, <1>14, <1>15 DEF Integral, Floating

-----------------------------------------------------------------------------
(* The fields of a message: octets, and numbers of two and of four.        *)
OctetSize == 256
Octet == 0 .. OctetSize - 1
Word == 0 .. (OctetSize * OctetSize) - 1
Long == 0 .. ((OctetSize * OctetSize) * (OctetSize * OctetSize)) - 1

(* The bytes of a message are octets, whatever size the bytes of values    *)
(* have.                                                                   *)
LEMMA OctetSizeIsPositive == OctetSize \in Nat \ {0}
BY DEF OctetSize

(* The fields of a message are the digits of a number too.                 *)
LEMMA OctetsAreDigits ==
  /\ \A n, v : Octets!BytesOf(n, v) = DigitsOf(OctetSize, n, v)
  /\ \A n, data : Octets!NumberIn(n, data) = NumberOf(OctetSize, n, data)
<1>1. Octets!Power = PowersOf(OctetSize)
  BY Zenon DEF Octets!Power, PowersOf, OctetSize
<1>2. \A n, v : Octets!BytesOf(n, v) = DigitsOf(OctetSize, n, v)
  BY <1>1, Zenon DEF Octets!BytesOf, DigitsOf, OctetSize
<1>3. \A n, data : Octets!NumberIn(n, data) = NumberOf(OctetSize, n, data)
  BY Zenon DEF Octets!NumberIn, NumberOf, OctetSize
<1> QED
  BY <1>2, <1>3

(* How many numbers the fields of one, two and four octets have.           *)
LEMMA OctetPowers ==
  /\ PowersOf(OctetSize)[0] = 1
  /\ PowersOf(OctetSize)[1] = OctetSize
  /\ PowersOf(OctetSize)[2] = OctetSize * OctetSize
  /\ PowersOf(OctetSize)[4] = (OctetSize * OctetSize) * (OctetSize * OctetSize)
<1> DEFINE p == PowersOf(OctetSize)
<1>1. p[0] = 1 /\ \A n \in Nat : p[n + 1] = OctetSize * p[n]
  BY OctetSizeIsPositive, PowersAreDefined
<1> HIDE DEF p
<1>2. p[1] = OctetSize * p[0]
  BY <1>1, 0 \in Nat, 0 + 1 = 1
<1>3. p[2] = OctetSize * p[1]
  BY <1>1, 1 \in Nat, 1 + 1 = 2
<1>4. p[3] = OctetSize * p[2]
  BY <1>1, 2 \in Nat, 2 + 1 = 3
<1>5. p[4] = OctetSize * p[3]
  BY <1>1, 3 \in Nat, 3 + 1 = 4
<1>6. p[1] = OctetSize
  BY <1>1, <1>2, OctetSizeIsPositive
<1>7. p[2] = OctetSize * OctetSize
  BY <1>3, <1>6
<1>8. p[4] = OctetSize * (OctetSize * p[2])
  BY <1>4, <1>5
<1>9. \A b \in Int : b * (b * (b * b)) = (b * b) * (b * b)
  OBVIOUS
<1>10. p[4] = (OctetSize * OctetSize) * (OctetSize * OctetSize)
  BY <1>7, <1>8, <1>9, OctetSizeIsPositive
<1> QED
  BY <1>1, <1>6, <1>7, <1>10 DEF p

(* The sizes of the fields.                                                *)
LEMMA FieldSizes ==
  ASSUME NEW v \in Int
  PROVE  /\ U8(v) \in Seq(Octet) /\ Len(U8(v)) = 1
         /\ U16(v) \in Seq(Octet) /\ Len(U16(v)) = 2
         /\ U32(v) \in Seq(Octet) /\ Len(U32(v)) = 4
<1>1. \A n \in Nat : /\ DigitsOf(OctetSize, n, v) \in Seq(Octet)
                    /\ Len(DigitsOf(OctetSize, n, v)) = n
  BY OctetSizeIsPositive, DigitsAreSeq, Zenon DEF Octet
<1> QED
  BY <1>1, OctetsAreDigits
      DEF U8, U16, U32, Octets!DataFromUint8, Octets!DataFromUint16, Octets!DataFromUint32

(* Some bytes are found at an offset in others.                            *)
Carries(data, offset, bytes) ==
  /\ Len(data) >= offset + Len(bytes)
  /\ \A i \in 1 .. Len(bytes) : data[offset + i] = bytes[i]

(* What is appended to a sequence is found where the sequence ended.       *)
LEMMA CarriesLast ==
  ASSUME NEW S, NEW s \in Seq(S), NEW t \in Seq(S)
  PROVE  s \o t \in Seq(S) /\ Len(s \o t) = Len(s) + Len(t) /\ Carries(s \o t, Len(s), t)
<1>1. /\ s \o t \in Seq(S) /\ Len(s \o t) = Len(s) + Len(t)
      /\ \A i \in 1 .. Len(s) + Len(t) : (s \o t)[i] = IF i <= Len(s) THEN s[i] ELSE t[i - Len(s)]
  BY ConcatProperties
<1>2. Len(s) \in Nat /\ Len(t) \in Nat
  OBVIOUS
<1> DEFINE u == s \o t
<1> HIDE DEF u
<1>3. \A i \in 1 .. Len(t) : u[Len(s) + i] = t[i]
  BY <1>1, <1>2 DEF u
<1> QED
  BY <1>1, <1>2, <1>3 DEF Carries, u

(* What a sequence carries it carries still when something is appended.    *)
LEMMA CarriesStill ==
  ASSUME NEW S, NEW s \in Seq(S), NEW t \in Seq(S), NEW offset \in Nat, NEW bytes,
         Len(bytes) \in Nat, Carries(s, offset, bytes)
  PROVE  Carries(s \o t, offset, bytes)
<1>1. /\ s \o t \in Seq(S) /\ Len(s \o t) = Len(s) + Len(t)
      /\ \A i \in 1 .. Len(s) + Len(t) : (s \o t)[i] = IF i <= Len(s) THEN s[i] ELSE t[i - Len(s)]
  BY ConcatProperties
<1>2. Len(s) \in Nat /\ Len(t) \in Nat
  OBVIOUS
<1> DEFINE u == s \o t
<1> HIDE DEF u
<1>3. \A i \in 1 .. Len(bytes) : u[offset + i] = s[offset + i]
  BY <1>1, <1>2 DEF Carries, u
<1> QED
  BY <1>1, <1>2, <1>3 DEF Carries, u

(* What the readers make of the fields.                                    *)
LEMMA NumberCarried ==
  ASSUME NEW n \in Nat, NEW v \in 0 .. PowersOf(OctetSize)[n] - 1, NEW data, NEW offset \in Nat,
         Carries(data, offset, DigitsOf(OctetSize, n, v))
  PROVE  NumberOf(OctetSize, n, SubSeq(data, offset + 1, offset + n)) = v
<1> DEFINE d == DigitsOf(OctetSize, n, v)
           s == SubSeq(data, offset + 1, offset + n)
<1>1. PowersOf(OctetSize)[n] \in Nat \ {0}
  BY OctetSizeIsPositive, PowersAreDefined
<1>8. v \in Int
  BY <1>1
<1>2. d \in Seq(Octet) /\ Len(d) = n /\ v \in Int
  BY <1>8, OctetSizeIsPositive, DigitsAreSeq, Zenon DEF Octet
<1> HIDE DEF d
<1>3. \A i \in 1 .. n : data[offset + i] = d[i]
  BY <1>2 DEF Carries, d
<1>4. \A i \in offset + 1 .. offset + n : data[i] \in Octet
  <2> SUFFICES ASSUME NEW i \in offset + 1 .. offset + n PROVE data[i] \in Octet
    OBVIOUS
  <2>1. i - offset \in 1 .. n /\ offset + (i - offset) = i
    OBVIOUS
  <2>2. d[i - offset] \in Octet
    BY <1>2, <2>1
  <2> QED
    BY <1>3, <2>1, <2>2
<1>5. \A i \in 1 .. n : s[i] = d[i]
  <2>1. \A i \in 1 .. (offset + n) - (offset + 1) + 1 : s[i] = data[(offset + 1) + i - 1]
    BY <1>4, SubSeqProperties, offset + 1 \in Int, offset + n \in Int
  <2> QED
    BY <1>3, <2>1
<1> HIDE DEF s
<1>6. NumberOf(OctetSize, n, s) = v % PowersOf(OctetSize)[n]
  BY <1>2, <1>5, OctetSizeIsPositive, NumberOfDigits DEF d
<1>7. v % PowersOf(OctetSize)[n] = v
  BY <1>1
<1> QED
  BY <1>6, <1>7 DEF s

(* An octet that is found at an offset is read there.                      *)
LEMMA ReadsOctet ==
  ASSUME NEW v \in Octet, NEW data, NEW offset \in Nat, Carries(data, offset, U8(v))
  PROVE  data[offset + 1] = v
<1>1. v \in Int /\ v % OctetSize = v
  BY OctetSizeIsPositive DEF Octet
<1>2. U8(v) = [i \in 1 .. 1 |-> (v \div PowersOf(OctetSize)[1 - i]) % OctetSize]
  BY OctetsAreDigits DEF U8, Octets!DataFromUint8, DigitsOf
<1>3. PowersOf(OctetSize)[0] = 1
  BY OctetSizeIsPositive, PowersAreDefined
<1>4. Len(U8(v)) = 1
  BY <1>1, FieldSizes
<1>5. U8(v)[1] = v
  BY <1>1, <1>2, <1>3
<1> QED
  BY <1>4, <1>5 DEF Carries

(* So is a number of two octets (ReadUint16),                              *)
LEMMA ReadsWord ==
  ASSUME NEW v \in Word, NEW data, NEW offset \in Nat, Carries(data, offset, U16(v))
  PROVE  U16At(data, offset) = v
<1>1. U16(v) = DigitsOf(OctetSize, 2, v)
  BY OctetsAreDigits DEF U16, Octets!DataFromUint16
<1>2. 2 \in Nat /\ v \in 0 .. PowersOf(OctetSize)[2] - 1
  BY OctetPowers DEF Word
<1>3. NumberOf(OctetSize, 2, SubSeq(data, offset + 1, offset + 2)) = v
  BY <1>1, <1>2, NumberCarried
<1> QED
  BY <1>3, OctetsAreDigits DEF U16At, Octets!ReadUint16

(* and one of four (ReadUint32).                                           *)
LEMMA ReadsLong ==
  ASSUME NEW v \in Long, NEW data, NEW offset \in Nat, Carries(data, offset, U32(v))
  PROVE  U32At(data, offset) = v
<1>1. U32(v) = DigitsOf(OctetSize, 4, v)
  BY OctetsAreDigits DEF U32, Octets!DataFromUint32
<1>2. 4 \in Nat /\ v \in 0 .. PowersOf(OctetSize)[4] - 1
  BY OctetPowers DEF Long
<1>3. NumberOf(OctetSize, 4, SubSeq(data, offset + 1, offset + 4)) = v
  BY <1>1, <1>2, NumberCarried
<1> QED
  BY <1>3, OctetsAreDigits DEF U32At, Octets!ReadUint32

(* What is carried by what is carried.                                     *)
LEMMA CarriesWithin ==
  ASSUME NEW data, NEW offset \in Nat, NEW bytes, NEW inner \in Nat, NEW field,
         Len(bytes) \in Nat, Len(field) \in Nat, Len(data) \in Nat,
         Carries(data, offset, bytes), Carries(bytes, inner, field)
  PROVE  Carries(data, offset + inner, field)
<1>1. ASSUME NEW i \in 1 .. Len(field) PROVE data[offset + inner + i] = field[i]
  <2>1. inner + i \in 1 .. Len(bytes) /\ bytes[inner + i] = field[i]
    <3>1. Len(bytes) >= inner + Len(field) /\ bytes[inner + i] = field[i]
      BY Zenon DEF Carries
    <3> QED
      BY <3>1
  <2>2. data[offset + (inner + i)] = bytes[inner + i]
    BY <2>1 DEF Carries
  <2>3. offset + (inner + i) = offset + inner + i
    OBVIOUS
  <2> QED
    BY <2>1, <2>2, <2>3
<1> QED
  BY <1>1 DEF Carries

(* One more field behind those of s: s stays in front, and the field is    *)
(* found where s ended.                                                    *)
LEMMA FieldAdded ==
  ASSUME NEW s \in Seq(Int), NEW t \in Seq(Int)
  PROVE  /\ s \o t \in Seq(Int) /\ Len(s \o t) = Len(s) + Len(t)
         /\ Carries(s \o t, 0, s) /\ Carries(s \o t, Len(s), t)
<1>1. Carries(s, 0, s)
  BY DEF Carries
<1> QED
  BY <1>1, CarriesLast, CarriesStill

(* The fields as sequences of integers.                                    *)
LEMMA FieldsOfNumbers ==
  ASSUME NEW v \in Int
  PROVE  /\ U8(v) \in Seq(Int) /\ Len(U8(v)) = 1
         /\ U16(v) \in Seq(Int) /\ Len(U16(v)) = 2
         /\ U32(v) \in Seq(Int) /\ Len(U32(v)) = 4
<1>1. Octet \subseteq Int
  BY DEF Octet
<1> QED
  BY <1>1, FieldSizes, SeqMonotonic

(* Numbers that the fields have room for.                                  *)
LEMMA NumbersOfFields ==
  /\ \A v \in Octet \cup Word \cup Long : v \in Nat
  /\ \A v \in 0 .. 255 : v \in Octet
  /\ \A v \in 0 .. 255 : v \in Word
  /\ \A v \in Long : \A u \in 0 .. v : u \in Long
<1>1. OctetSize * OctetSize \in Nat \ {0} /\ OctetSize * OctetSize >= 256
  BY DEF OctetSize
<1>2. \A v \in Octet \cup Word \cup Long : v \in Nat
  BY DEF Octet, Word, Long
<1>3. \A v \in 0 .. 255 : v \in Octet
  BY SMT DEF Octet, OctetSize
<1>4. \A v \in 0 .. 255 : v \in Word
  BY <1>1, SMT DEF Word
<1>5. \A v \in Long : \A u \in 0 .. v : u \in Long
  <2> DEFINE top == ((OctetSize * OctetSize) * (OctetSize * OctetSize)) - 1
  <2>1. top \in Int
    BY <1>1
  <2> HIDE DEF top
  <2>2. \A v \in 0 .. top : \A u \in 0 .. v : u \in 0 .. top
    BY <2>1
  <2> QED
    BY <2>2 DEF Long, top
<1> QED
  BY <1>2, <1>3, <1>4, <1>5, Zenon

(* The same by the width of the field: what is known of a stream s of n    *)
(* bytes is known, with the field, of the longer one.                      *)
LEMMA FieldBehind ==
  ASSUME NEW s \in Seq(Int), NEW v \in Int
  PROVE  /\ s \o U8(v) \in Seq(Int) /\ Len(s \o U8(v)) = Len(s) + 1
         /\ Carries(s \o U8(v), 0, s) /\ Carries(s \o U8(v), Len(s), U8(v))
         /\ s \o U16(v) \in Seq(Int) /\ Len(s \o U16(v)) = Len(s) + 2
         /\ Carries(s \o U16(v), 0, s) /\ Carries(s \o U16(v), Len(s), U16(v))
         /\ s \o U32(v) \in Seq(Int) /\ Len(s \o U32(v)) = Len(s) + 4
         /\ Carries(s \o U32(v), 0, s) /\ Carries(s \o U32(v), Len(s), U32(v))
<1>1. /\ U8(v) \in Seq(Int) /\ Len(U8(v)) = 1
      /\ U16(v) \in Seq(Int) /\ Len(U16(v)) = 2
      /\ U32(v) \in Seq(Int) /\ Len(U32(v)) = 4
  BY FieldsOfNumbers
<1>2. /\ s \o U8(v) \in Seq(Int) /\ Len(s \o U8(v)) = Len(s) + Len(U8(v))
      /\ Carries(s \o U8(v), 0, s) /\ Carries(s \o U8(v), Len(s), U8(v))
  BY <1>1, FieldAdded, Zenon
<1>3. /\ s \o U16(v) \in Seq(Int) /\ Len(s \o U16(v)) = Len(s) + Len(U16(v))
      /\ Carries(s \o U16(v), 0, s) /\ Carries(s \o U16(v), Len(s), U16(v))
  BY <1>1, FieldAdded, Zenon
<1>4. /\ s \o U32(v) \in Seq(Int) /\ Len(s \o U32(v)) = Len(s) + Len(U32(v))
      /\ Carries(s \o U32(v), 0, s) /\ Carries(s \o U32(v), Len(s), U32(v))
  BY <1>1, FieldAdded, Zenon
<1> QED
  BY <1>1, <1>2, <1>3, <1>4, Zenon

(* What is carried by the front of a stream the stream carries.            *)
LEMMA FieldInFront ==
  ASSUME NEW data, Len(data) \in Nat, NEW s, Len(s) \in Nat, Carries(data, 0, s)
  PROVE  /\ \A t : Len(t) \in Nat /\ Carries(s, 0, t) => Carries(data, 0, t)
         /\ \A offset \in Nat : \A t :
              Len(t) \in Nat /\ Carries(s, offset, t) => Carries(data, offset, t)
<1>1. ASSUME NEW t, NEW offset \in Nat, Len(t) \in Nat, Carries(s, offset, t)
      PROVE  Carries(data, offset, t)
  <2>1. Carries(data, 0 + offset, t)
    BY <1>1, 0 \in Nat, CarriesWithin, Zenon
  <2> QED
    BY <2>1, 0 + offset = offset
<1> QED
  BY <1>1, 0 \in Nat, Zenon

(* A stream that begins with a header is as long as one, and the fields of *)
(* the header are read from it (Ocp1Header of Ocp1Message.cpp).            *)
LEMMA HeaderRead ==
  ASSUME NEW type \in 0 .. 4, NEW length \in Nat, NEW data,
         CalculateMessageSize(type, length) \in Long, Len(data) \in Nat,
         Carries(data, 0, Header(type, length))
  PROVE  /\ Header(type, length) \in Seq(Int) /\ Len(Header(type, length)) = Ocp1HeaderSize
         /\ Len(data) >= Ocp1HeaderSize
         /\ SyncValue(data) = 59 /\ ProtoVers(data) = 1 /\ MessageCount(data) = 1
         /\ MessageType(data) = type
         /\ MessageSize(data) = CalculateMessageSize(type, length)
<1> DEFINE size == CalculateMessageSize(type, length)
           s1 == U8(59)
           s2 == s1 \o U16(1)
           s3 == s2 \o U32(size)
           s4 == s3 \o U8(type)
           s5 == s4 \o U16(1)
<1> HIDE DEF size
<1>1. size \in Long /\ size \in Int /\ type \in Int
  BY NumbersOfFields DEF size
<1>2. s1 \in Seq(Int) /\ Len(s1) = 1
  BY 59 \in Int, FieldsOfNumbers
<1>3. s2 \in Seq(Int) /\ Len(s2) = 3 /\ Carries(s2, 0, s1) /\ Carries(s2, 1, U16(1))
  <2> HIDE DEF s1
  <2>1. /\ s2 \in Seq(Int) /\ Len(s2) = Len(s1) + 2
        /\ Carries(s2, 0, s1) /\ Carries(s2, Len(s1), U16(1))
    BY <1>2, 1 \in Int, FieldBehind, Zenon
  <2> HIDE DEF s2
  <2> QED
    BY <1>2, <2>1
<1>4. s3 \in Seq(Int) /\ Len(s3) = 7 /\ Carries(s3, 0, s2) /\ Carries(s3, 3, U32(size))
  <2> HIDE DEF s2
  <2>1. /\ s3 \in Seq(Int) /\ Len(s3) = Len(s2) + 4
        /\ Carries(s3, 0, s2) /\ Carries(s3, Len(s2), U32(size))
    BY <1>1, <1>3, FieldBehind, Zenon
  <2> HIDE DEF s3
  <2> QED
    BY <1>3, <2>1
<1>5. s4 \in Seq(Int) /\ Len(s4) = 8 /\ Carries(s4, 0, s3) /\ Carries(s4, 7, U8(type))
  <2> HIDE DEF s3
  <2>1. /\ s4 \in Seq(Int) /\ Len(s4) = Len(s3) + 1
        /\ Carries(s4, 0, s3) /\ Carries(s4, Len(s3), U8(type))
    BY <1>1, <1>4, FieldBehind, Zenon
  <2> HIDE DEF s4
  <2> QED
    BY <1>4, <2>1
<1>6. s5 \in Seq(Int) /\ Len(s5) = 10 /\ Carries(s5, 0, s4) /\ Carries(s5, 8, U16(1))
  <2> HIDE DEF s4
  <2>1. /\ s5 \in Seq(Int) /\ Len(s5) = Len(s4) + 2
        /\ Carries(s5, 0, s4) /\ Carries(s5, Len(s4), U16(1))
    BY <1>5, 1 \in Int, FieldBehind, Zenon
  <2> HIDE DEF s5
  <2> QED
    BY <1>5, <2>1
<1>7. s5 = Header(type, length)
  BY DEF Header, size, s1, s2, s3, s4
<1> HIDE DEF s1, s2, s3, s4, s5
<1>8. Carries(data, 0, s5)
  BY <1>7
<1>9. /\ Len(s1) \in Nat /\ Len(s2) \in Nat /\ Len(s3) \in Nat /\ Len(s4) \in Nat
      /\ Len(s5) \in Nat /\ Len(U16(1)) \in Nat /\ Len(U8(type)) \in Nat
      /\ Len(U32(size)) \in Nat
      /\ 1 \in Nat /\ 3 \in Nat /\ 7 \in Nat /\ 8 \in Nat
  BY <1>1, <1>2, <1>3, <1>4, <1>5, <1>6, FieldsOfNumbers, 1 \in Int
<1>10. Carries(data, 0, s4) /\ Carries(data, 8, U16(1))
  BY <1>6, <1>8, <1>9, FieldInFront, Zenon
<1>11. Carries(data, 0, s3) /\ Carries(data, 7, U8(type))
  BY <1>5, <1>9, <1>10, FieldInFront, Zenon
<1>12. Carries(data, 0, s2) /\ Carries(data, 3, U32(size))
  BY <1>4, <1>9, <1>11, FieldInFront, Zenon
<1>13. Carries(data, 0, s1) /\ Carries(data, 1, U16(1))
  BY <1>3, <1>9, <1>12, FieldInFront, Zenon
<1>14. Len(data) >= 10
  BY <1>6, <1>8 DEF Carries
<1>15. 59 \in Octet /\ type \in Octet /\ 1 \in Word
  BY 59 \in 0 .. 255, 1 \in 0 .. 255, type \in 0 .. 255, NumbersOfFields, Zenon
<1>16. data[0 + 1] = 59 /\ data[7 + 1] = type
  BY <1>11, <1>13, <1>15, ReadsOctet, 0 \in Nat, 7 \in Nat DEF s1
<1>17. U16At(data, 1) = 1 /\ U16At(data, 8) = 1
  BY <1>10, <1>13, <1>15, ReadsWord
<1>18. U32At(data, 3) = size
  BY <1>1, <1>12, ReadsLong
<1> QED
  BY <1>6, <1>7, <1>14, <1>16, <1>17, <1>18
     DEF Ocp1HeaderSize, SyncValue, ProtoVers, MessageCount, MessageType, MessageSize, size

(* What arrives of a message.  Its bytes are as many as its header says,   *)
(* and the receiver makes the message given of them.                       *)
Arrives(msg, received) ==
  LET bytes == GetSerializedData(msg)
  IN  /\ bytes \in Seq(Int)
      /\ CalculateMessageSize(msg.type, Len(msg.data)) \in Long
      /\ Len(bytes) = CalculateMessageSize(msg.type, Len(msg.data)) + 1
      /\ Carries(bytes, 0, Header(msg.type, Len(msg.data)))
      /\ UnmarshalOcp1Message(bytes) = received

(* The types of messages, and the size of each.                            *)
LEMMA MessageTypes ==
  /\ CommandResponseRequired = 1 /\ Notification = 2 /\ Response = 3 /\ KeepAlive = 4
  /\ \A n \in Int : /\ CalculateMessageSize(1, n) = n + 26
                    /\ CalculateMessageSize(2, n) = n + 37
                    /\ CalculateMessageSize(3, n) = n + 19
                    /\ CalculateMessageSize(4, n) = n + 9
BY DEF Command, CommandResponseRequired, Notification, Response, KeepAlive,
   CalculateMessageSize

(* UnmarshalOcp1Message reads a message as what its header says.           *)
LEMMA Dispatched ==
  ASSUME NEW type \in 1 .. 4, NEW length \in Nat, NEW data, Len(data) \in Nat,
         CalculateMessageSize(type, length) \in Long,
         CalculateMessageSize(type, length) >= Ocp1HeaderSize,
         Carries(data, 0, Header(type, length))
  PROVE  /\ type = 1 => UnmarshalOcp1Message(data) = UnmarshalCommand(data)
         /\ type = 2 => UnmarshalOcp1Message(data) = UnmarshalNotification(data)
         /\ type = 3 => UnmarshalOcp1Message(data) = UnmarshalResponse(data)
         /\ type = 4 => UnmarshalOcp1Message(data) = UnmarshalKeepAlive(data)
<1>1. /\ Len(data) >= Ocp1HeaderSize
      /\ SyncValue(data) = 59 /\ ProtoVers(data) = 1 /\ MessageCount(data) = 1
      /\ MessageType(data) = type
      /\ MessageSize(data) = CalculateMessageSize(type, length)
  BY HeaderRead
<1>2. IsValidHeader(data)
  BY <1>1, SMT DEF IsValidHeader, KeepAlive
<1>3. ~ (Len(data) < Ocp1HeaderSize)
  BY <1>1, SMT DEF Ocp1HeaderSize
<1> QED
  BY <1>1, <1>2, <1>3, MessageTypes DEF UnmarshalOcp1Message

(* What the reader of the payload takes.                                   *)
LEMMA PayloadRead ==
  ASSUME NEW data \in Seq(Int), NEW offset \in Nat, NEW bytes \in Seq(Int),
         Carries(data, offset, bytes)
  PROVE  From(data, offset, Len(bytes)) = bytes
<1> DEFINE sub == SubSeq(data, offset + 1, offset + Len(bytes))
<1>1. Len(bytes) \in Nat /\ Len(data) \in Nat /\ offset + Len(bytes) =< Len(data)
  BY DEF Carries
<1>2. sub \in Seq(Int) /\ Len(sub) = Len(bytes)
  BY <1>1
<1>3. ASSUME NEW i \in 1 .. Len(bytes) PROVE sub[i] = bytes[i]
  <2>1. data[offset + i] = bytes[i]
    BY DEF Carries
  <2>2. sub[i] = data[offset + i]
    BY <1>1
  <2> QED
    BY <2>1, <2>2
<1> HIDE DEF sub
<1>4. sub = bytes
  BY <1>2, <1>3, SeqEqual
<1> QED
  BY <1>4, Zenon DEF sub, From

(* GetSerializedData writes a message as what its type says.               *)
LEMMA SerializedBy ==
  ASSUME NEW msg
  PROVE  /\ msg.type = 1 => GetSerializedData(msg) = SerializedCommand(msg)
         /\ msg.type = 2 => GetSerializedData(msg) = SerializedNotification(msg)
         /\ msg.type = 3 => GetSerializedData(msg) = SerializedResponse(msg)
         /\ msg.type = 4 => GetSerializedData(msg) = SerializedKeepAlive(msg)
BY MessageTypes DEF GetSerializedData

(* A header has ten bytes.                                                 *)
LEMMA HeaderIsSeq ==
  ASSUME NEW type \in 0 .. 4, NEW length \in Nat, CalculateMessageSize(type, length) \in Long
  PROVE  Header(type, length) \in Seq(Int) /\ Len(Header(type, length)) = 10
<1> DEFINE size == CalculateMessageSize(type, length)
<1>1. size \in Int /\ type \in Int
  BY NumbersOfFields
<1> HIDE DEF size
<1>2. /\ U8(59) \in Seq(Int) /\ Len(U8(59)) = 1 /\ U16(1) \in Seq(Int) /\ Len(U16(1)) = 2
      /\ U32(size) \in Seq(Int) /\ Len(U32(size)) = 4
      /\ U8(type) \in Seq(Int) /\ Len(U8(type)) = 1
  BY <1>1, 59 \in Int, 1 \in Int, FieldsOfNumbers
<1> DEFINE s1 == U8(59)
           s2 == s1 \o U16(1)
           s3 == s2 \o U32(size)
           s4 == s3 \o U8(type)
           s5 == s4 \o U16(1)
<1>7. s1 \in Seq(Int) /\ Len(s1) = 1
  BY <1>2
<1>3. s2 \in Seq(Int) /\ Len(s2) = 3
  <2> HIDE DEF s1
  <2>1. s2 \in Seq(Int) /\ Len(s2) = Len(s1) + 2
    BY <1>7, 1 \in Int, FieldBehind, Zenon
  <2> HIDE DEF s2
  <2> QED
    BY <1>7, <2>1
<1>4. s3 \in Seq(Int) /\ Len(s3) = 7
  <2> HIDE DEF s2
  <2>1. s3 \in Seq(Int) /\ Len(s3) = Len(s2) + 4
    BY <1>1, <1>3, FieldBehind, Zenon
  <2> HIDE DEF s3
  <2> QED
    BY <1>3, <2>1
<1>5. s4 \in Seq(Int) /\ Len(s4) = 8
  <2> HIDE DEF s3
  <2>1. s4 \in Seq(Int) /\ Len(s4) = Len(s3) + 1
    BY <1>1, <1>4, FieldBehind, Zenon
  <2> HIDE DEF s4
  <2> QED
    BY <1>4, <2>1
<1>6. s5 \in Seq(Int) /\ Len(s5) = 10
  <2> HIDE DEF s4
  <2>1. s5 \in Seq(Int) /\ Len(s5) = Len(s4) + 2
    BY <1>5, 1 \in Int, FieldBehind, Zenon
  <2> HIDE DEF s5
  <2> QED
    BY <1>5, <2>1
<1> QED
  BY <1>6, Zenon DEF Header, size

(* A command arrives, field by field,                                      *)
LEMMA CommandArrives ==
  ASSUME NEW handle \in Long \ {0}, NEW ono \in Long \ {0},
         NEW defLevel \in Word \ {0}, NEW index \in Word \ {0}, NEW paramCount \in Octet,
         NEW data \in Seq(Int), paramCount = 0 => data = << >>, Len(data) + 26 \in Long
  PROVE  Arrives(CommandMessage(handle, ono, defLevel, index, paramCount, data),
                 CommandMessage(handle, ono, defLevel, index, paramCount, data))
<1> DEFINE msg == CommandMessage(handle, ono, defLevel, index, paramCount, data)
           n == Len(data)
           s1 == Header(1, n)
           s2 == s1 \o U32(n + 17)
           s3 == s2 \o U32(handle)
           s4 == s3 \o U32(ono)
           s5 == s4 \o U16(defLevel)
           s6 == s5 \o U16(index)
           s7 == s6 \o U8(paramCount)
           s8 == s7 \o data
<1>1. /\ n \in Nat /\ n + 26 \in Long /\ 1 \in 1 .. 4 /\ 1 \in 0 .. 4
      /\ CalculateMessageSize(1, n) = n + 26
  BY MessageTypes
<1>2. GetSerializedData(msg) = s8 /\ msg.type = 1 /\ Len(msg.data) = n
  <2>1. msg.type = 1 /\ msg.data = data
    BY MessageTypes DEF CommandMessage
  <2>2. GetSerializedData(msg) = SerializedCommand(msg)
    <3> HIDE DEF msg
    <3> QED
      BY <2>1, SerializedBy, Zenon
  <2>3. InnerSize(msg) = U32(n + 17)
    <3>1. (n + 26) - 9 = n + 17
      BY <1>1
    <3> QED
      BY <1>1, <2>1, <3>1, Zenon DEF InnerSize
  <2> QED
    BY <2>1, <2>2, <2>3, Zenon DEF SerializedCommand, CommandMessage
<1> HIDE DEF msg, n
<1>3. /\ n + 17 \in Int /\ handle \in Int /\ ono \in Int /\ defLevel \in Int
      /\ index \in Int /\ paramCount \in Int
      /\ n + 17 \in Nat /\ handle \in Nat /\ ono \in Nat /\ defLevel \in Nat
      /\ index \in Nat /\ paramCount \in Nat
  BY <1>1, NumbersOfFields
<1>4. s1 \in Seq(Int) /\ Len(s1) = 10
  BY <1>1, HeaderIsSeq
<1>5. /\ s2 \in Seq(Int) /\ Len(s2) = 14
      /\ Carries(s2, 0, s1) /\ Carries(s2, 10, U32(n + 17))
  <2> HIDE DEF s1
  <2>1. /\ s2 \in Seq(Int) /\ Len(s2) = Len(s1) + 4
        /\ Carries(s2, 0, s1) /\ Carries(s2, Len(s1), U32(n + 17))
    BY <1>3, <1>4, FieldBehind, Zenon
  <2> HIDE DEF s2
  <2> QED
    BY <1>1, <1>4, <2>1
<1>6. /\ s3 \in Seq(Int) /\ Len(s3) = 18
      /\ Carries(s3, 0, s2) /\ Carries(s3, 14, U32(handle))
  <2> HIDE DEF s2
  <2>1. /\ s3 \in Seq(Int) /\ Len(s3) = Len(s2) + 4
        /\ Carries(s3, 0, s2) /\ Carries(s3, Len(s2), U32(handle))
    BY <1>3, <1>5, FieldBehind, Zenon
  <2> HIDE DEF s3
  <2> QED
    BY <1>1, <1>5, <2>1
<1>7. /\ s4 \in Seq(Int) /\ Len(s4) = 22
      /\ Carries(s4, 0, s3) /\ Carries(s4, 18, U32(ono))
  <2> HIDE DEF s3
  <2>1. /\ s4 \in Seq(Int) /\ Len(s4) = Len(s3) + 4
        /\ Carries(s4, 0, s3) /\ Carries(s4, Len(s3), U32(ono))
    BY <1>3, <1>6, FieldBehind, Zenon
  <2> HIDE DEF s4
  <2> QED
    BY <1>1, <1>6, <2>1
<1>8. /\ s5 \in Seq(Int) /\ Len(s5) = 24
      /\ Carries(s5, 0, s4) /\ Carries(s5, 22, U16(defLevel))
  <2> HIDE DEF s4
  <2>1. /\ s5 \in Seq(Int) /\ Len(s5) = Len(s4) + 2
        /\ Carries(s5, 0, s4) /\ Carries(s5, Len(s4), U16(defLevel))
    BY <1>3, <1>7, FieldBehind, Zenon
  <2> HIDE DEF s5
  <2> QED
    BY <1>1, <1>7, <2>1
<1>9. /\ s6 \in Seq(Int) /\ Len(s6) = 26
      /\ Carries(s6, 0, s5) /\ Carries(s6, 24, U16(index))
  <2> HIDE DEF s5
  <2>1. /\ s6 \in Seq(Int) /\ Len(s6) = Len(s5) + 2
        /\ Carries(s6, 0, s5) /\ Carries(s6, Len(s5), U16(index))
    BY <1>3, <1>8, FieldBehind, Zenon
  <2> HIDE DEF s6
  <2> QED
    BY <1>1, <1>8, <2>1
<1>10. /\ s7 \in Seq(Int) /\ Len(s7) = 27
      /\ Carries(s7, 0, s6) /\ Carries(s7, 26, U8(paramCount))
  <2> HIDE DEF s6
  <2>1. /\ s7 \in Seq(Int) /\ Len(s7) = Len(s6) + 1
        /\ Carries(s7, 0, s6) /\ Carries(s7, Len(s6), U8(paramCount))
    BY <1>3, <1>9, FieldBehind, Zenon
  <2> HIDE DEF s7
  <2> QED
    BY <1>1, <1>9, <2>1
<1>11. /\ s8 \in Seq(Int) /\ Len(s8) = n + 27
      /\ Carries(s8, 0, s7) /\ Carries(s8, 27, data)
  <2> HIDE DEF s7
  <2>1. /\ s8 \in Seq(Int) /\ Len(s8) = Len(s7) + Len(data)
        /\ Carries(s8, 0, s7) /\ Carries(s8, Len(s7), data)
    BY <1>3, <1>10, FieldAdded, Zenon
  <2> HIDE DEF s8
  <2> QED
    BY <1>1, <1>10, <2>1 DEF n
<1> HIDE DEF s1, s2, s3, s4, s5, s6, s7, s8
<1>12. /\ Len(s1) \in Nat /\ Len(s2) \in Nat /\ Len(s3) \in Nat /\ Len(s4) \in Nat
      /\ Len(s5) \in Nat /\ Len(s6) \in Nat /\ Len(s7) \in Nat /\ Len(s8) \in Nat
      /\ Len(U32(n + 17)) \in Nat /\ Len(U32(handle)) \in Nat /\ Len(U32(ono)) \in Nat
      /\ Len(U16(defLevel)) \in Nat /\ Len(U16(index)) \in Nat
      /\ Len(U8(paramCount)) \in Nat /\ Len(data) \in Nat
      /\ 10 \in Nat /\ 14 \in Nat /\ 18 \in Nat /\ 22 \in Nat /\ 24 \in Nat /\ 26 \in Nat
      /\ 27 \in Nat
  <2>1. /\ Len(s1) \in Nat /\ Len(s2) \in Nat /\ Len(s3) \in Nat /\ Len(s4) \in Nat
        /\ Len(s5) \in Nat /\ Len(s6) \in Nat /\ Len(s7) \in Nat /\ Len(s8) \in Nat
    BY <1>1, <1>4, <1>5, <1>6, <1>7, <1>8, <1>9, <1>10, <1>11
  <2>2. /\ Len(U32(n + 17)) \in Nat /\ Len(U32(handle)) \in Nat /\ Len(U32(ono)) \in Nat
        /\ Len(U16(defLevel)) \in Nat /\ Len(U16(index)) \in Nat
        /\ Len(U8(paramCount)) \in Nat /\ Len(data) \in Nat
    BY <1>1, <1>3, FieldsOfNumbers DEF n
  <2>3. /\ 10 \in Nat /\ 14 \in Nat /\ 18 \in Nat /\ 22 \in Nat /\ 24 \in Nat /\ 26 \in Nat
        /\ 27 \in Nat
    BY <1>1
  <2> QED
    BY <2>1, <2>2, <2>3
<1>13. Carries(s8, 0, s6) /\ Carries(s8, 26, U8(paramCount))
  BY <1>10, <1>12, <1>11, FieldInFront, Zenon
<1>14. Carries(s8, 0, s5) /\ Carries(s8, 24, U16(index))
  BY <1>9, <1>12, <1>13, FieldInFront, Zenon
<1>15. Carries(s8, 0, s4) /\ Carries(s8, 22, U16(defLevel))
  BY <1>8, <1>12, <1>14, FieldInFront, Zenon
<1>16. Carries(s8, 0, s3) /\ Carries(s8, 18, U32(ono))
  BY <1>7, <1>12, <1>15, FieldInFront, Zenon
<1>17. Carries(s8, 0, s2) /\ Carries(s8, 14, U32(handle))
  BY <1>6, <1>12, <1>16, FieldInFront, Zenon
<1>18. Carries(s8, 0, s1) /\ Carries(s8, 10, U32(n + 17))
  BY <1>5, <1>12, <1>17, FieldInFront, Zenon
<1>19. /\ U32At(s8, 10) = n + 17
      /\ U32At(s8, 14) = handle
      /\ U32At(s8, 18) = ono
      /\ U16At(s8, 22) = defLevel
      /\ U16At(s8, 24) = index
      /\ s8[27] = paramCount
  <2>1. n + 17 \in Long
    <3>1. n + 17 \in 0 .. n + 26
      BY <1>1
    <3> QED
      BY <1>1, <3>1, NumbersOfFields, Zenon
  <2>2. U32At(s8, 10) = n + 17
    BY <1>18, <2>1, 10 \in Nat, ReadsLong, Zenon
  <2>3. U32At(s8, 14) = handle
    BY <1>17, 14 \in Nat, ReadsLong, Zenon
  <2>4. U32At(s8, 18) = ono
    BY <1>16, 18 \in Nat, ReadsLong, Zenon
  <2>5. U16At(s8, 22) = defLevel
    BY <1>15, 22 \in Nat, ReadsWord, Zenon
  <2>6. U16At(s8, 24) = index
    BY <1>14, 24 \in Nat, ReadsWord, Zenon
  <2>7. s8[26 + 1] = paramCount
    BY <1>13, 26 \in Nat, ReadsOctet, Zenon
  <2> QED
    BY <2>2, <2>3, <2>4, <2>5, <2>6, <2>7
<1>20. Carries(s8, 0, s1)
  BY <1>18
<1>21. From(s8, 27, n) = data
  BY <1>11, <1>11, 27 \in Nat, PayloadRead DEF n
<1>22. UnmarshalCommand(s8) = msg
  <2>1. Len(s8) - 27 = n
    BY <1>1, <1>11
  <2>2. (IF s8[27] = 0 THEN << >> ELSE From(s8, 27, n)) = data
    BY <1>19, <1>21
  <2>3. /\ Len(s8) >= 14 /\ U32At(s8, 10) >= 17
        /\ Len(s8) >= Ocp1HeaderSize + U32At(s8, 10)
    <3>1. n \in Nat /\ Len(s8) = n + 27 /\ U32At(s8, 10) = n + 17
      BY <1>1, <1>11, <1>19, Zenon
    <3> QED
      BY <3>1 DEF Ocp1HeaderSize
  <2>4. /\ U32At(s8, 14) # 0 /\ U32At(s8, 18) # 0
        /\ U16At(s8, 22) >= 1 /\ U16At(s8, 24) >= 1
    BY <1>3, <1>19, SMTT(30)
  <2> QED
    BY <1>19, <2>1, <2>2, <2>3, <2>4, Zenon DEF UnmarshalCommand, msg
<1>23. UnmarshalOcp1Message(s8) = msg
  <2>1. /\ Len(s8) \in Nat /\ CalculateMessageSize(1, n) \in Long
        /\ CalculateMessageSize(1, n) >= Ocp1HeaderSize
        /\ Carries(s8, 0, Header(1, n))
    BY <1>1, <1>11, <1>20 DEF Ocp1HeaderSize, s1
  <2> QED
    BY <1>1, <1>22, <2>1, Dispatched
<1> QED
  BY <1>1, <1>2, <1>11, <1>20, <1>23 DEF Arrives, s1, msg

(* a response,                                                             *)
LEMMA ResponseArrives ==
  ASSUME NEW handle \in Long \ {0}, NEW status \in Octet, NEW paramCount \in Octet,
         NEW data \in Seq(Int), Len(data) + 19 \in Long
  PROVE  Arrives(ResponseMessage(handle, status, paramCount, data),
                 ResponseMessage(handle, status, paramCount, data))
<1> DEFINE msg == ResponseMessage(handle, status, paramCount, data)
           n == Len(data)
           s1 == Header(3, n)
           s2 == s1 \o U32(n + 10)
           s3 == s2 \o U32(handle)
           s4 == s3 \o U8(status)
           s5 == s4 \o U8(paramCount)
           s6 == s5 \o data
<1>1. /\ n \in Nat /\ n + 19 \in Long /\ 3 \in 1 .. 4 /\ 3 \in 0 .. 4
      /\ CalculateMessageSize(3, n) = n + 19
  BY MessageTypes
<1>2. GetSerializedData(msg) = s6 /\ msg.type = 3 /\ Len(msg.data) = n
  <2>1. msg.type = 3 /\ msg.data = data
    BY MessageTypes DEF ResponseMessage
  <2>2. GetSerializedData(msg) = SerializedResponse(msg)
    <3> HIDE DEF msg
    <3> QED
      BY <2>1, SerializedBy, Zenon
  <2>3. InnerSize(msg) = U32(n + 10)
    <3>1. (n + 19) - 9 = n + 10
      BY <1>1
    <3> QED
      BY <1>1, <2>1, <3>1, Zenon DEF InnerSize
  <2> QED
    BY <2>1, <2>2, <2>3, Zenon DEF SerializedResponse, ResponseMessage
<1> HIDE DEF msg, n
<1>3. /\ n + 10 \in Int /\ handle \in Int /\ status \in Int /\ paramCount \in Int
      /\ n + 10 \in Nat /\ handle \in Nat /\ status \in Nat /\ paramCount \in Nat
  BY <1>1, NumbersOfFields
<1>4. s1 \in Seq(Int) /\ Len(s1) = 10
  BY <1>1, HeaderIsSeq
<1>5. /\ s2 \in Seq(Int) /\ Len(s2) = 14
      /\ Carries(s2, 0, s1) /\ Carries(s2, 10, U32(n + 10))
  <2> HIDE DEF s1
  <2>1. /\ s2 \in Seq(Int) /\ Len(s2) = Len(s1) + 4
        /\ Carries(s2, 0, s1) /\ Carries(s2, Len(s1), U32(n + 10))
    BY <1>3, <1>4, FieldBehind, Zenon
  <2> HIDE DEF s2
  <2> QED
    BY <1>1, <1>4, <2>1
<1>6. /\ s3 \in Seq(Int) /\ Len(s3) = 18
      /\ Carries(s3, 0, s2) /\ Carries(s3, 14, U32(handle))
  <2> HIDE DEF s2
  <2>1. /\ s3 \in Seq(Int) /\ Len(s3) = Len(s2) + 4
        /\ Carries(s3, 0, s2) /\ Carries(s3, Len(s2), U32(handle))
    BY <1>3, <1>5, FieldBehind, Zenon
  <2> HIDE DEF s3
  <2> QED
    BY <1>1, <1>5, <2>1
<1>7. /\ s4 \in Seq(Int) /\ Len(s4) = 19
      /\ Carries(s4, 0, s3) /\ Carries(s4, 18, U8(status))
  <2> HIDE DEF s3
  <2>1. /\ s4 \in Seq(Int) /\ Len(s4) = Len(s3) + 1
        /\ Carries(s4, 0, s3) /\ Carries(s4, Len(s3), U8(status))
    BY <1>3, <1>6, FieldBehind, Zenon
  <2> HIDE DEF s4
  <2> QED
    BY <1>1, <1>6, <2>1
<1>8. /\ s5 \in Seq(Int) /\ Len(s5) = 20
      /\ Carries(s5, 0, s4) /\ Carries(s5, 19, U8(paramCount))
  <2> HIDE DEF s4
  <2>1. /\ s5 \in Seq(Int) /\ Len(s5) = Len(s4) + 1
        /\ Carries(s5, 0, s4) /\ Carries(s5, Len(s4), U8(paramCount))
    BY <1>3, <1>7, FieldBehind, Zenon
  <2> HIDE DEF s5
  <2> QED
    BY <1>1, <1>7, <2>1
<1>9. /\ s6 \in Seq(Int) /\ Len(s6) = n + 20
      /\ Carries(s6, 0, s5) /\ Carries(s6, 20, data)
  <2> HIDE DEF s5
  <2>1. /\ s6 \in Seq(Int) /\ Len(s6) = Len(s5) + Len(data)
        /\ Carries(s6, 0, s5) /\ Carries(s6, Len(s5), data)
    BY <1>3, <1>8, FieldAdded, Zenon
  <2> HIDE DEF s6
  <2> QED
    BY <1>1, <1>8, <2>1 DEF n
<1> HIDE DEF s1, s2, s3, s4, s5, s6
<1>10. /\ Len(s1) \in Nat /\ Len(s2) \in Nat /\ Len(s3) \in Nat /\ Len(s4) \in Nat
      /\ Len(s5) \in Nat /\ Len(s6) \in Nat
      /\ Len(U32(n + 10)) \in Nat /\ Len(U32(handle)) \in Nat /\ Len(U8(status)) \in Nat
      /\ Len(U8(paramCount)) \in Nat /\ Len(data) \in Nat
      /\ 10 \in Nat /\ 14 \in Nat /\ 18 \in Nat /\ 19 \in Nat /\ 20 \in Nat
  <2>1. /\ Len(s1) \in Nat /\ Len(s2) \in Nat /\ Len(s3) \in Nat /\ Len(s4) \in Nat
        /\ Len(s5) \in Nat /\ Len(s6) \in Nat
    BY <1>1, <1>4, <1>5, <1>6, <1>7, <1>8, <1>9
  <2>2. /\ Len(U32(n + 10)) \in Nat /\ Len(U32(handle)) \in Nat /\ Len(U8(status)) \in Nat
        /\ Len(U8(paramCount)) \in Nat /\ Len(data) \in Nat
    BY <1>1, <1>3, FieldsOfNumbers DEF n
  <2>3. /\ 10 \in Nat /\ 14 \in Nat /\ 18 \in Nat /\ 19 \in Nat /\ 20 \in Nat
    BY <1>1
  <2> QED
    BY <2>1, <2>2, <2>3
<1>11. Carries(s6, 0, s4) /\ Carries(s6, 19, U8(paramCount))
  BY <1>8, <1>10, <1>9, FieldInFront, Zenon
<1>12. Carries(s6, 0, s3) /\ Carries(s6, 18, U8(status))
  BY <1>7, <1>10, <1>11, FieldInFront, Zenon
<1>13. Carries(s6, 0, s2) /\ Carries(s6, 14, U32(handle))
  BY <1>6, <1>10, <1>12, FieldInFront, Zenon
<1>14. Carries(s6, 0, s1) /\ Carries(s6, 10, U32(n + 10))
  BY <1>5, <1>10, <1>13, FieldInFront, Zenon
<1>15. /\ U32At(s6, 10) = n + 10
      /\ U32At(s6, 14) = handle
      /\ s6[19] = status
      /\ s6[20] = paramCount
  <2>1. n + 10 \in Long
    <3>1. n + 10 \in 0 .. n + 19
      BY <1>1
    <3> QED
      BY <1>1, <3>1, NumbersOfFields, Zenon
  <2>2. U32At(s6, 10) = n + 10
    BY <1>14, <2>1, 10 \in Nat, ReadsLong, Zenon
  <2>3. U32At(s6, 14) = handle
    BY <1>13, 14 \in Nat, ReadsLong, Zenon
  <2>4. s6[18 + 1] = status
    BY <1>12, 18 \in Nat, ReadsOctet, Zenon
  <2>5. s6[19 + 1] = paramCount
    BY <1>11, 19 \in Nat, ReadsOctet, Zenon
  <2> QED
    BY <2>2, <2>3, <2>4, <2>5
<1>16. Carries(s6, 0, s1)
  BY <1>14
<1>17. From(s6, 20, n) = data
  BY <1>9, <1>9, 20 \in Nat, PayloadRead DEF n
<1>18. UnmarshalResponse(s6) = msg
  <2>1. U32At(s6, 10) - 10 = n /\ 18 + 1 = 19 /\ 19 + 1 = 20
    BY <1>1, <1>15
  <2>2. Len(s6) >= 20 /\ U32At(s6, 10) >= 10 /\ Len(s6) >= 20 + n
    <3>1. n \in Nat /\ Len(s6) = n + 20 /\ U32At(s6, 10) = n + 10
      BY <1>1, <1>9, <1>15, Zenon
    <3> QED
      BY <3>1
  <2>3. U32At(s6, 14) # 0
    BY <1>3, <1>15
  <2> QED
    BY <1>15, <1>17, <2>1, <2>2, <2>3, Zenon DEF UnmarshalResponse, msg
<1>19. UnmarshalOcp1Message(s6) = msg
  <2>1. /\ Len(s6) \in Nat /\ CalculateMessageSize(3, n) \in Long
        /\ CalculateMessageSize(3, n) >= Ocp1HeaderSize
        /\ Carries(s6, 0, Header(3, n))
    BY <1>1, <1>9, <1>16 DEF Ocp1HeaderSize, s1
  <2> QED
    BY <1>1, <1>18, <2>1, Dispatched
<1> QED
  BY <1>1, <1>2, <1>9, <1>16, <1>19 DEF Arrives, s1, msg

(* a notification, as one of two parameters,                               *)
LEMMA NotificationArrives ==
  ASSUME NEW ono \in Long \ {0}, NEW defLevel \in Word \ {0}, NEW index \in Word \ {0},
         NEW paramCount, NEW data \in Seq(Int), data # << >>, Len(data) + 37 \in Long
  PROVE  Arrives(NotificationMessage(ono, defLevel, index, paramCount, data),
                 NotificationMessage(ono, defLevel, index, 2, data))
<1> DEFINE msg == NotificationMessage(ono, defLevel, index, paramCount, data)
           n == Len(data)
           s1 == Header(2, n)
           s2 == s1 \o U32(n + 28)
           s3 == s2 \o U32(ono)
           s4 == s3 \o U16(3)
           s5 == s4 \o U16(1)
           s6 == s5 \o U8(2)
           s7 == s6 \o U16(0)
           s8 == s7 \o U32(ono)
           s9 == s8 \o U16(1)
           s10 == s9 \o U16(1)
           s11 == s10 \o U16(defLevel)
           s12 == s11 \o U16(index)
           s13 == s12 \o data
           s14 == s13 \o U8(1)
<1>1. /\ n \in Nat /\ n + 37 \in Long /\ 2 \in 1 .. 4 /\ 2 \in 0 .. 4
      /\ CalculateMessageSize(2, n) = n + 37
  BY MessageTypes
<1>2. GetSerializedData(msg) = s14 /\ msg.type = 2 /\ Len(msg.data) = n
  <2>1. msg.type = 2 /\ msg.data = data
    BY MessageTypes DEF NotificationMessage
  <2>2. GetSerializedData(msg) = SerializedNotification(msg)
    <3> HIDE DEF msg
    <3> QED
      BY <2>1, SerializedBy, Zenon
  <2>3. InnerSize(msg) = U32(n + 28)
    <3>1. (n + 37) - 9 = n + 28
      BY <1>1
    <3> QED
      BY <1>1, <2>1, <3>1, Zenon DEF InnerSize
  <2> QED
    BY <2>1, <2>2, <2>3, Zenon DEF SerializedNotification, NotificationMessage
<1> HIDE DEF msg, n
<1>3. /\ n + 28 \in Int /\ ono \in Int /\ 3 \in Int /\ 1 \in Int /\ 2 \in Int
      /\ 0 \in Int /\ defLevel \in Int /\ index \in Int
      /\ n + 28 \in Nat /\ ono \in Nat /\ 3 \in Nat /\ 1 \in Nat /\ 2 \in Nat
      /\ 0 \in Nat /\ defLevel \in Nat /\ index \in Nat
  BY <1>1, NumbersOfFields
<1>4. s1 \in Seq(Int) /\ Len(s1) = 10
  BY <1>1, HeaderIsSeq
<1>5. /\ s2 \in Seq(Int) /\ Len(s2) = 14
      /\ Carries(s2, 0, s1) /\ Carries(s2, 10, U32(n + 28))
  <2> HIDE DEF s1
  <2>1. /\ s2 \in Seq(Int) /\ Len(s2) = Len(s1) + 4
        /\ Carries(s2, 0, s1) /\ Carries(s2, Len(s1), U32(n + 28))
    BY <1>3, <1>4, FieldBehind, Zenon
  <2> HIDE DEF s2
  <2> QED
    BY <1>1, <1>4, <2>1
<1>6. /\ s3 \in Seq(Int) /\ Len(s3) = 18
      /\ Carries(s3, 0, s2) /\ Carries(s3, 14, U32(ono))
  <2> HIDE DEF s2
  <2>1. /\ s3 \in Seq(Int) /\ Len(s3) = Len(s2) + 4
        /\ Carries(s3, 0, s2) /\ Carries(s3, Len(s2), U32(ono))
    BY <1>3, <1>5, FieldBehind, Zenon
  <2> HIDE DEF s3
  <2> QED
    BY <1>1, <1>5, <2>1
<1>7. /\ s4 \in Seq(Int) /\ Len(s4) = 20
      /\ Carries(s4, 0, s3) /\ Carries(s4, 18, U16(3))
  <2> HIDE DEF s3
  <2>1. /\ s4 \in Seq(Int) /\ Len(s4) = Len(s3) + 2
        /\ Carries(s4, 0, s3) /\ Carries(s4, Len(s3), U16(3))
    BY <1>3, <1>6, FieldBehind, Zenon
  <2> HIDE DEF s4
  <2> QED
    BY <1>1, <1>6, <2>1
<1>8. /\ s5 \in Seq(Int) /\ Len(s5) = 22
      /\ Carries(s5, 0, s4) /\ Carries(s5, 20, U16(1))
  <2> HIDE DEF s4
  <2>1. /\ s5 \in Seq(Int) /\ Len(s5) = Len(s4) + 2
        /\ Carries(s5, 0, s4) /\ Carries(s5, Len(s4), U16(1))
    BY <1>3, <1>7, FieldBehind, Zenon
  <2> HIDE DEF s5
  <2> QED
    BY <1>1, <1>7, <2>1
<1>9. /\ s6 \in Seq(Int) /\ Len(s6) = 23
      /\ Carries(s6, 0, s5) /\ Carries(s6, 22, U8(2))
  <2> HIDE DEF s5
  <2>1. /\ s6 \in Seq(Int) /\ Len(s6) = Len(s5) + 1
        /\ Carries(s6, 0, s5) /\ Carries(s6, Len(s5), U8(2))
    BY <1>3, <1>8, FieldBehind, Zenon
  <2> HIDE DEF s6
  <2> QED
    BY <1>1, <1>8, <2>1
<1>10. /\ s7 \in Seq(Int) /\ Len(s7) = 25
      /\ Carries(s7, 0, s6) /\ Carries(s7, 23, U16(0))
  <2> HIDE DEF s6
  <2>1. /\ s7 \in Seq(Int) /\ Len(s7) = Len(s6) + 2
        /\ Carries(s7, 0, s6) /\ Carries(s7, Len(s6), U16(0))
    BY <1>3, <1>9, FieldBehind, Zenon
  <2> HIDE DEF s7
  <2> QED
    BY <1>1, <1>9, <2>1
<1>11. /\ s8 \in Seq(Int) /\ Len(s8) = 29
      /\ Carries(s8, 0, s7) /\ Carries(s8, 25, U32(ono))
  <2> HIDE DEF s7
  <2>1. /\ s8 \in Seq(Int) /\ Len(s8) = Len(s7) + 4
        /\ Carries(s8, 0, s7) /\ Carries(s8, Len(s7), U32(ono))
    BY <1>3, <1>10, FieldBehind, Zenon
  <2> HIDE DEF s8
  <2> QED
    BY <1>1, <1>10, <2>1
<1>12. /\ s9 \in Seq(Int) /\ Len(s9) = 31
      /\ Carries(s9, 0, s8) /\ Carries(s9, 29, U16(1))
  <2> HIDE DEF s8
  <2>1. /\ s9 \in Seq(Int) /\ Len(s9) = Len(s8) + 2
        /\ Carries(s9, 0, s8) /\ Carries(s9, Len(s8), U16(1))
    BY <1>3, <1>11, FieldBehind, Zenon
  <2> HIDE DEF s9
  <2> QED
    BY <1>1, <1>11, <2>1
<1>13. /\ s10 \in Seq(Int) /\ Len(s10) = 33
      /\ Carries(s10, 0, s9) /\ Carries(s10, 31, U16(1))
  <2> HIDE DEF s9
  <2>1. /\ s10 \in Seq(Int) /\ Len(s10) = Len(s9) + 2
        /\ Carries(s10, 0, s9) /\ Carries(s10, Len(s9), U16(1))
    BY <1>3, <1>12, FieldBehind, Zenon
  <2> HIDE DEF s10
  <2> QED
    BY <1>1, <1>12, <2>1
<1>14. /\ s11 \in Seq(Int) /\ Len(s11) = 35
      /\ Carries(s11, 0, s10) /\ Carries(s11, 33, U16(defLevel))
  <2> HIDE DEF s10
  <2>1. /\ s11 \in Seq(Int) /\ Len(s11) = Len(s10) + 2
        /\ Carries(s11, 0, s10) /\ Carries(s11, Len(s10), U16(defLevel))
    BY <1>3, <1>13, FieldBehind, Zenon
  <2> HIDE DEF s11
  <2> QED
    BY <1>1, <1>13, <2>1
<1>15. /\ s12 \in Seq(Int) /\ Len(s12) = 37
      /\ Carries(s12, 0, s11) /\ Carries(s12, 35, U16(index))
  <2> HIDE DEF s11
  <2>1. /\ s12 \in Seq(Int) /\ Len(s12) = Len(s11) + 2
        /\ Carries(s12, 0, s11) /\ Carries(s12, Len(s11), U16(index))
    BY <1>3, <1>14, FieldBehind, Zenon
  <2> HIDE DEF s12
  <2> QED
    BY <1>1, <1>14, <2>1
<1>16. /\ s13 \in Seq(Int) /\ Len(s13) = n + 37
      /\ Carries(s13, 0, s12) /\ Carries(s13, 37, data)
  <2> HIDE DEF s12
  <2>1. /\ s13 \in Seq(Int) /\ Len(s13) = Len(s12) + Len(data)
        /\ Carries(s13, 0, s12) /\ Carries(s13, Len(s12), data)
    BY <1>3, <1>15, FieldAdded, Zenon
  <2> HIDE DEF s13
  <2> QED
    BY <1>1, <1>15, <2>1 DEF n
<1>17. /\ s14 \in Seq(Int) /\ Len(s14) = n + 38
      /\ Carries(s14, 0, s13) /\ Carries(s14, n + 37, U8(1))
  <2> HIDE DEF s13
  <2>1. /\ s14 \in Seq(Int) /\ Len(s14) = Len(s13) + 1
        /\ Carries(s14, 0, s13) /\ Carries(s14, Len(s13), U8(1))
    BY <1>3, <1>16, FieldBehind, Zenon
  <2> HIDE DEF s14
  <2> QED
    BY <1>1, <1>16, <2>1
<1> HIDE DEF s1, s2, s3, s4, s5, s6, s7, s8, s9, s10, s11, s12, s13, s14
<1>18. /\ Len(s1) \in Nat /\ Len(s2) \in Nat /\ Len(s3) \in Nat /\ Len(s4) \in Nat
      /\ Len(s5) \in Nat /\ Len(s6) \in Nat /\ Len(s7) \in Nat /\ Len(s8) \in Nat
      /\ Len(s9) \in Nat /\ Len(s10) \in Nat /\ Len(s11) \in Nat /\ Len(s12) \in Nat
      /\ Len(s13) \in Nat /\ Len(s14) \in Nat
      /\ Len(U32(n + 28)) \in Nat /\ Len(U32(ono)) \in Nat /\ Len(U16(3)) \in Nat
      /\ Len(U16(1)) \in Nat /\ Len(U8(2)) \in Nat /\ Len(U16(0)) \in Nat
      /\ Len(U16(defLevel)) \in Nat /\ Len(U16(index)) \in Nat /\ Len(data) \in Nat
      /\ Len(U8(1)) \in Nat
      /\ 10 \in Nat /\ 14 \in Nat /\ 18 \in Nat /\ 20 \in Nat /\ 22 \in Nat /\ 23 \in Nat
      /\ 25 \in Nat /\ 29 \in Nat /\ 31 \in Nat /\ 33 \in Nat /\ 35 \in Nat /\ 37 \in Nat
      /\ n + 37 \in Nat
  <2>1. /\ Len(s1) \in Nat /\ Len(s2) \in Nat /\ Len(s3) \in Nat /\ Len(s4) \in Nat
        /\ Len(s5) \in Nat /\ Len(s6) \in Nat /\ Len(s7) \in Nat /\ Len(s8) \in Nat
        /\ Len(s9) \in Nat /\ Len(s10) \in Nat /\ Len(s11) \in Nat /\ Len(s12) \in Nat
        /\ Len(s13) \in Nat /\ Len(s14) \in Nat
    BY <1>1, <1>4, <1>5, <1>6, <1>7, <1>8, <1>9, <1>10, <1>11, <1>12, <1>13, <1>14, <1>15,
       <1>16, <1>17
  <2>2. /\ Len(U32(n + 28)) \in Nat /\ Len(U32(ono)) \in Nat /\ Len(U16(3)) \in Nat
        /\ Len(U16(1)) \in Nat /\ Len(U8(2)) \in Nat /\ Len(U16(0)) \in Nat
        /\ Len(U16(defLevel)) \in Nat /\ Len(U16(index)) \in Nat /\ Len(data) \in Nat
        /\ Len(U8(1)) \in Nat
    BY <1>1, <1>3, FieldsOfNumbers DEF n
  <2>3. /\ 10 \in Nat /\ 14 \in Nat /\ 18 \in Nat /\ 20 \in Nat /\ 22 \in Nat /\ 23 \in Nat
        /\ 25 \in Nat /\ 29 \in Nat /\ 31 \in Nat /\ 33 \in Nat /\ 35 \in Nat /\ 37 \in Nat
        /\ n + 37 \in Nat
    BY <1>1
  <2> QED
    BY <2>1, <2>2, <2>3
<1>19. Carries(s14, 0, s12) /\ Carries(s14, 37, data)
  BY <1>16, <1>18, <1>17, FieldInFront, Zenon
<1>20. Carries(s14, 0, s11) /\ Carries(s14, 35, U16(index))
  BY <1>15, <1>18, <1>19, FieldInFront, Zenon
<1>21. Carries(s14, 0, s10) /\ Carries(s14, 33, U16(defLevel))
  BY <1>14, <1>18, <1>20, FieldInFront, Zenon
<1>22. Carries(s14, 0, s9) /\ Carries(s14, 31, U16(1))
  BY <1>13, <1>18, <1>21, FieldInFront, Zenon
<1>23. Carries(s14, 0, s8) /\ Carries(s14, 29, U16(1))
  BY <1>12, <1>18, <1>22, FieldInFront, Zenon
<1>24. Carries(s14, 0, s7) /\ Carries(s14, 25, U32(ono))
  BY <1>11, <1>18, <1>23, FieldInFront, Zenon
<1>25. Carries(s14, 0, s6) /\ Carries(s14, 23, U16(0))
  BY <1>10, <1>18, <1>24, FieldInFront, Zenon
<1>26. Carries(s14, 0, s5) /\ Carries(s14, 22, U8(2))
  BY <1>9, <1>18, <1>25, FieldInFront, Zenon
<1>27. Carries(s14, 0, s4) /\ Carries(s14, 20, U16(1))
  BY <1>8, <1>18, <1>26, FieldInFront, Zenon
<1>28. Carries(s14, 0, s3) /\ Carries(s14, 18, U16(3))
  BY <1>7, <1>18, <1>27, FieldInFront, Zenon
<1>29. Carries(s14, 0, s2) /\ Carries(s14, 14, U32(ono))
  BY <1>6, <1>18, <1>28, FieldInFront, Zenon
<1>30. Carries(s14, 0, s1) /\ Carries(s14, 10, U32(n + 28))
  BY <1>5, <1>18, <1>29, FieldInFront, Zenon
<1>31. /\ U32At(s14, 10) = n + 28
      /\ U32At(s14, 14) = ono
      /\ U16At(s14, 18) = 3
      /\ U16At(s14, 20) = 1
      /\ s14[23] = 2
      /\ U16At(s14, 23) = 0
      /\ U32At(s14, 25) = ono
      /\ U16At(s14, 29) = 1
      /\ U16At(s14, 31) = 1
      /\ U16At(s14, 33) = defLevel
      /\ U16At(s14, 35) = index
  <2>1. n + 28 \in Long
    <3>1. n + 28 \in 0 .. n + 37
      BY <1>1
    <3> QED
      BY <1>1, <3>1, NumbersOfFields, Zenon
  <2>2. U32At(s14, 10) = n + 28
    BY <1>30, <2>1, 10 \in Nat, ReadsLong, Zenon
  <2>3. U32At(s14, 14) = ono
    BY <1>29, 14 \in Nat, ReadsLong, Zenon
  <2>4. 3 \in Word /\ 18 \in Nat
    BY NumbersOfFields, 3 \in 0 .. 255
  <2>5. U16At(s14, 18) = 3
    BY <1>28, <2>4, ReadsWord, Zenon
  <2>6. 1 \in Word /\ 20 \in Nat
    BY NumbersOfFields, 1 \in 0 .. 255
  <2>7. U16At(s14, 20) = 1
    BY <1>27, <2>6, ReadsWord, Zenon
  <2>8. 2 \in Octet /\ 22 \in Nat
    BY NumbersOfFields, 2 \in 0 .. 255
  <2>9. s14[22 + 1] = 2
    BY <1>26, <2>8, ReadsOctet, Zenon
  <2>10. 0 \in Word /\ 23 \in Nat
    BY NumbersOfFields, 0 \in 0 .. 255
  <2>11. U16At(s14, 23) = 0
    BY <1>25, <2>10, ReadsWord, Zenon
  <2>12. U32At(s14, 25) = ono
    BY <1>24, 25 \in Nat, ReadsLong, Zenon
  <2>13. 1 \in Word /\ 29 \in Nat
    BY NumbersOfFields, 1 \in 0 .. 255
  <2>14. U16At(s14, 29) = 1
    BY <1>23, <2>13, ReadsWord, Zenon
  <2>15. 1 \in Word /\ 31 \in Nat
    BY NumbersOfFields, 1 \in 0 .. 255
  <2>16. U16At(s14, 31) = 1
    BY <1>22, <2>15, ReadsWord, Zenon
  <2>17. U16At(s14, 33) = defLevel
    BY <1>21, 33 \in Nat, ReadsWord, Zenon
  <2>18. U16At(s14, 35) = index
    BY <1>20, 35 \in Nat, ReadsWord, Zenon
  <2> QED
    BY <2>2, <2>3, <2>5, <2>7, <2>9, <2>11, <2>12, <2>14, <2>16, <2>17, <2>18
<1>32. Carries(s14, 0, s1)
  BY <1>30
<1>33. From(s14, 37, n) = data
  BY <1>19, <1>17, 37 \in Nat, PayloadRead DEF n
<1>34. UnmarshalNotification(s14) = NotificationMessage(ono, defLevel, index, 2, data)
  <2>1. /\ U32At(s14, 10) - 28 = n /\ n >= 1 /\ 2 >= 1
        /\ 25 + 0 = 25 /\ 29 + 0 = 29 /\ 31 + 0 = 31 /\ 33 + 0 = 33 /\ 35 + 0 = 35 /\ 37 + 0 = 37
    <3>1. n # 0
      BY EmptySeq DEF n
    <3>2. n \in Nat /\ U32At(s14, 10) = n + 28
      BY <1>1, <1>31, Zenon
    <3> QED
      BY <3>1, <3>2
  <2>2. Len(s14) >= 25 /\ Len(s14) >= 37 /\ Len(s14) >= 37 + n
    <3>1. n \in Nat /\ Len(s14) = n + 38
      BY <1>1, <1>17, Zenon
    <3> QED
      BY <3>1
  <2>3. /\ U32At(s14, 14) # 0 /\ U16At(s14, 18) >= 1 /\ U16At(s14, 20) >= 1
        /\ U32At(s14, 25) # 0 /\ U16At(s14, 33) # 0 /\ U16At(s14, 35) # 0
    <3>1. /\ U32At(s14, 14) = ono /\ U16At(s14, 18) = 3 /\ U16At(s14, 20) = 1
          /\ U32At(s14, 25) = ono /\ U16At(s14, 33) = defLevel /\ U16At(s14, 35) = index
      BY <1>31, Zenon
    <3>2. ono # 0 /\ defLevel # 0 /\ index # 0
      OBVIOUS
    <3>3. 3 >= 1 /\ 1 >= 1
      OBVIOUS
    <3> QED
      BY <3>1, <3>2, <3>3, Zenon
  <2>4. U16At(s14, 23) = 0 /\ U16At(s14, 29) = 1 /\ U16At(s14, 31) = 1 /\ s14[23] >= 1
    BY <1>31, <2>1, Zenon
  <2>5. UnmarshalNotification(s14) =
          NotificationMessage(U32At(s14, 25), U16At(s14, 33), U16At(s14, 35), s14[23],
                              From(s14, 37, n))
    BY <2>1, <2>2, <2>3, <2>4, ZenonT(60) DEF UnmarshalNotification
  <2> QED
    BY <1>31, <1>33, <2>5, Zenon
<1>35. UnmarshalOcp1Message(s14) = NotificationMessage(ono, defLevel, index, 2, data)
  <2>1. /\ Len(s14) \in Nat /\ CalculateMessageSize(2, n) \in Long
        /\ CalculateMessageSize(2, n) >= Ocp1HeaderSize
        /\ Carries(s14, 0, Header(2, n))
    BY <1>1, <1>17, <1>32 DEF Ocp1HeaderSize, s1
  <2> QED
    BY <1>1, <1>34, <2>1, Dispatched
<1> QED
  BY <1>1, <1>2, <1>17, <1>32, <1>35 DEF Arrives, s1, msg

(* The octets of a number that is made of octets are those octets.         *)
LEMMA OctetsOfNumber ==
  ASSUME NEW n \in Nat, NEW data, \A i \in 1 .. n : data[i] \in Octet
  PROVE  DigitsOf(OctetSize, n, NumberOf(OctetSize, n, data)) = [i \in 1 .. n |-> data[i]]
BY OctetSizeIsPositive, DigitsOfNumber DEF Octet

(* and a heartbeat, as one in seconds.                                     *)
LEMMA KeepAliveArrives ==
  ASSUME NEW data \in Seq(Octet), Len(data) \in {2, 4}
  PROVE  Arrives(KeepAliveMessage(data), KeepAliveMessage(SubSeq(data, 1, 2)))
<1> DEFINE msg == KeepAliveMessage(data)
           n == Len(data)
           s1 == Header(4, n)
           s2 == s1 \o data
           first == SubSeq(s2, 11, 12)
<1>0. n = 2 \/ n = 4
  OBVIOUS
<1> HIDE DEF n
<1>1. /\ n \in Nat /\ n + 9 \in Long /\ 4 \in 1 .. 4 /\ 4 \in 0 .. 4
      /\ CalculateMessageSize(4, n) = n + 9
  <2>1. n + 9 \in 0 .. 255 /\ n \in Nat
    BY <1>0
  <2>2. 255 \in Long
    <3>1. 255 \in Int /\ 255 >= 0 /\ 255 <= OctetSize - 1
      BY DEF OctetSize
    <3>2. \A b \in Nat \ {0} : b - 1 <= ((b * b) * (b * b)) - 1
      <4> SUFFICES ASSUME NEW b \in Nat \ {0} PROVE b - 1 <= ((b * b) * (b * b)) - 1
        OBVIOUS
      <4>1. b * b >= b /\ b * b \in Nat
        OBVIOUS
      <4>2. (b * b) * (b * b) >= b * b
        BY <4>1
      <4> QED
        BY <4>1, <4>2
    <3>3. OctetSize - 1 <= ((OctetSize * OctetSize) * (OctetSize * OctetSize)) - 1
      BY <3>2, OctetSizeIsPositive
    <3> QED
      BY <3>1, <3>3, OctetSizeIsPositive DEF Long
  <2>3. n + 9 \in Long
    <3>1. n + 9 \in 0 .. 255
      BY <2>1
    <3> QED
      BY <2>2, <3>1, NumbersOfFields, Zenon
  <2> QED
    BY <2>1, <2>3, MessageTypes, 4 \in 1 .. 4, 4 \in 0 .. 4
<1>2. GetSerializedData(msg) = s2 /\ msg.type = 4 /\ Len(msg.data) = n
  <2>1. msg.type = 4 /\ msg.data = data /\ Len(data) = n
    BY MessageTypes DEF KeepAliveMessage, n
  <2>2. GetSerializedData(msg) = SerializedKeepAlive(msg)
    <3> HIDE DEF msg
    <3> QED
      BY <2>1, SerializedBy, Zenon
  <2> QED
    BY <2>1, <2>2, Zenon DEF SerializedKeepAlive
<1> HIDE DEF msg
<1>3. s1 \in Seq(Int) /\ Len(s1) = 10
  BY <1>1, HeaderIsSeq
<1>4. data \in Seq(Int) /\ \A i \in 1 .. n : data[i] \in Octet
  <2>1. Octet \subseteq Int
    BY DEF Octet
  <2>2. \A i \in 1 .. Len(data) : data[i] \in Octet
    OBVIOUS
  <2> QED
    BY <2>1, <2>2, SeqMonotonic DEF n
<1> HIDE DEF s1
<1>5. /\ s2 \in Seq(Int) /\ Len(s2) = Len(s1) + n
      /\ Carries(s2, 0, s1) /\ Carries(s2, Len(s1), data)
  BY <1>3, <1>4, FieldAdded DEF n
<1> HIDE DEF s2
<1>6. s2[11] = data[1] /\ s2[12] = data[2]
  <2>1. \A i \in 1 .. n : s2[10 + i] = data[i]
    BY <1>3, <1>5 DEF Carries, n
  <2>2. 1 \in 1 .. n /\ 2 \in 1 .. n
    BY <1>0
  <2>3. s2[10 + 1] = data[1] /\ s2[10 + 2] = data[2]
    BY <2>1, <2>2
  <2> QED
    BY <2>3
<1>7. first \in Seq(Int) /\ Len(first) = 2 /\ first[1] = data[1] /\ first[2] = data[2]
  <2>1. Len(s2) >= 12 /\ s2 \in Seq(Int)
    BY <1>0, <1>3, <1>5
  <2>2. first \in Seq(Int) /\ Len(first) = 2 /\ first[1] = s2[11] /\ first[2] = s2[12]
    BY <2>1
  <2> QED
    BY <1>6, <2>2
<1> HIDE DEF first
<1>8. \A i \in 1 .. 2 : first[i] \in Octet
  <2>1. data[1] \in Octet /\ data[2] \in Octet
    BY <1>0, <1>4
  <2> QED
    BY <1>7, <2>1
<1>9. U16(NumberOf(OctetSize, 2, first)) = SubSeq(data, 1, 2)
  <2>1. DigitsOf(OctetSize, 2, NumberOf(OctetSize, 2, first)) = [i \in 1 .. 2 |-> first[i]]
    BY <1>8, 2 \in Nat, OctetsOfNumber
  <2>2. [i \in 1 .. 2 |-> first[i]] = SubSeq(data, 1, 2)
    <3>1. SubSeq(data, 1, 2) \in Seq(Int) /\ Len(SubSeq(data, 1, 2)) = 2
          /\ SubSeq(data, 1, 2)[1] = data[1] /\ SubSeq(data, 1, 2)[2] = data[2]
      BY <1>0, <1>4 DEF n
    <3>2. first = SubSeq(data, 1, 2)
      BY <1>7, <3>1
    <3>3. first = [i \in 1 .. Len(first) |-> first[i]]
      BY <1>7
    <3> QED
      BY <1>7, <3>2, <3>3
  <2> QED
    BY <2>1, <2>2, OctetsAreDigits DEF U16, Octets!DataFromUint16
<1>10. UnmarshalKeepAlive(s2) = KeepAliveMessage(SubSeq(data, 1, 2))
  <2>1. Len(s2) >= 12
    BY <1>0, <1>3, <1>5
  <2>2. U16At(s2, 10) = NumberOf(OctetSize, 2, first)
    <3>1. 10 + 1 = 11 /\ 10 + 2 = 12
      OBVIOUS
    <3> QED
      BY <3>1, OctetsAreDigits, Zenon DEF U16At, Octets!ReadUint16, first
  <2> QED
    BY <1>9, <2>1, <2>2, Zenon DEF UnmarshalKeepAlive
<1>11. UnmarshalOcp1Message(s2) = KeepAliveMessage(SubSeq(data, 1, 2))
  <2>1. /\ Len(s2) \in Nat /\ CalculateMessageSize(4, n) \in Long
        /\ CalculateMessageSize(4, n) >= Ocp1HeaderSize
        /\ Carries(s2, 0, Header(4, n))
    BY <1>0, <1>1, <1>3, <1>5 DEF Ocp1HeaderSize, s1
  <2> QED
    BY <1>1, <1>10, <2>1, Dispatched
<1>12. Arrives(msg, KeepAliveMessage(SubSeq(data, 1, 2)))
  <2>1. Len(s2) = CalculateMessageSize(4, n) + 1
    BY <1>1, <1>3, <1>5
  <2> QED
    BY <1>1, <1>2, <1>5, <1>11, <2>1, Zenon DEF Arrives, s1
<1> QED
  BY <1>12 DEF msg

(* The messages the program and its device send, but for their size which  *)
(* the header must hold: none has a handle or a number of zero, a command  *)
(* without parameters has no data, a notification has some, and a heartbeat*)
(* has the two bytes of a time in seconds or the four of milliseconds.     *)
IsSent(msg) ==
  \/ \E handle \in Long \ {0}, ono \in Long \ {0}, defLevel \in Word \ {0},
        index \in Word \ {0}, paramCount \in Octet, data \in Seq(Int) :
       /\ paramCount = 0 => data = << >>
       /\ Len(data) + 26 \in Long
       /\ msg = CommandMessage(handle, ono, defLevel, index, paramCount, data)
  \/ \E handle \in Long \ {0}, status \in Octet, paramCount \in Octet, data \in Seq(Int) :
       /\ Len(data) + 19 \in Long
       /\ msg = ResponseMessage(handle, status, paramCount, data)
  \/ \E ono \in Long \ {0}, defLevel \in Word \ {0}, index \in Word \ {0},
        paramCount \in Octet, data \in Seq(Int) :
       /\ data # << >>
       /\ Len(data) + 37 \in Long
       /\ msg = NotificationMessage(ono, defLevel, index, paramCount, data)
  \/ \E data \in Seq(Octet) : Len(data) \in {2, 4} /\ msg = KeepAliveMessage(data)

(* The message the receiver has: a notification has two parameters however *)
(* it was built, and a heartbeat in milliseconds loses its lower half.     *)
Received(msg) ==
  CASE msg.type = Notification ->
         NotificationMessage(msg.ono, msg.defLevel, msg.index, 2, msg.data)
    [] msg.type = KeepAlive    -> KeepAliveMessage(SubSeq(msg.data, 1, 2))
    [] OTHER                   -> msg

(* What is sent arrives, and is a message.                                 *)
LEMMA SentArrives ==
  ASSUME NEW msg, IsSent(msg)
  PROVE  /\ msg.type \in 1 .. 4 /\ Len(msg.data) \in Nat
         /\ Arrives(msg, Received(msg)) /\ Received(msg) # NoMessage
<1>1. CASE \E handle \in Long \ {0}, ono \in Long \ {0}, defLevel \in Word \ {0},
              index \in Word \ {0}, paramCount \in Octet, data \in Seq(Int) :
             /\ paramCount = 0 => data = << >>
             /\ Len(data) + 26 \in Long
             /\ msg = CommandMessage(handle, ono, defLevel, index, paramCount, data)
  <2>1. PICK handle \in Long \ {0}, ono \in Long \ {0}, defLevel \in Word \ {0},
             index \in Word \ {0}, paramCount \in Octet, data \in Seq(Int) :
             /\ paramCount = 0 => data = << >>
             /\ Len(data) + 26 \in Long
             /\ msg = CommandMessage(handle, ono, defLevel, index, paramCount, data)
    BY <1>1
  <2>2. Arrives(msg, msg)
    BY <2>1, CommandArrives
  <2>3. msg.type = 1 /\ msg.data = data /\ "data" \in DOMAIN msg
    BY <2>1, MessageTypes DEF CommandMessage
  <2>4. Received(msg) = msg
    BY <2>3, MessageTypes DEF Received
  <2>5. msg # NoMessage
    BY <2>3 DEF NoMessage
  <2> QED
    BY <2>2, <2>3, <2>4, <2>5
<1>2. CASE \E handle \in Long \ {0}, status \in Octet, paramCount \in Octet, data \in Seq(Int) :
             /\ Len(data) + 19 \in Long
             /\ msg = ResponseMessage(handle, status, paramCount, data)
  <2>1. PICK handle \in Long \ {0}, status \in Octet, paramCount \in Octet, data \in Seq(Int) :
             /\ Len(data) + 19 \in Long
             /\ msg = ResponseMessage(handle, status, paramCount, data)
    BY <1>2
  <2>2. Arrives(msg, msg)
    BY <2>1, ResponseArrives
  <2>3. msg.type = 3 /\ msg.data = data /\ "data" \in DOMAIN msg
    BY <2>1, MessageTypes DEF ResponseMessage
  <2>4. Received(msg) = msg
    BY <2>3, MessageTypes DEF Received
  <2>5. msg # NoMessage
    BY <2>3 DEF NoMessage
  <2> QED
    BY <2>2, <2>3, <2>4, <2>5
<1>3. CASE \E ono \in Long \ {0}, defLevel \in Word \ {0}, index \in Word \ {0},
              paramCount \in Octet, data \in Seq(Int) :
             /\ data # << >>
             /\ Len(data) + 37 \in Long
             /\ msg = NotificationMessage(ono, defLevel, index, paramCount, data)
  <2>1. PICK ono \in Long \ {0}, defLevel \in Word \ {0}, index \in Word \ {0},
              paramCount \in Octet, data \in Seq(Int) :
             /\ data # << >>
             /\ Len(data) + 37 \in Long
             /\ msg = NotificationMessage(ono, defLevel, index, paramCount, data)
    BY <1>3
  <2> DEFINE received == NotificationMessage(ono, defLevel, index, 2, data)
  <2>2. Arrives(msg, received)
    BY <2>1, NotificationArrives
  <2>3. /\ msg.type = 2 /\ msg.data = data /\ msg.ono = ono /\ msg.defLevel = defLevel
        /\ msg.index = index
    BY <2>1, MessageTypes DEF NotificationMessage
  <2>4. Received(msg) = received
    BY <2>3, MessageTypes DEF Received
  <2>5. received # NoMessage
    <3>1. "data" \in DOMAIN received
      BY DEF NotificationMessage
    <3> QED
      BY <3>1 DEF NoMessage
  <2> QED
    BY <2>2, <2>3, <2>4, <2>5
<1>4. CASE \E data \in Seq(Octet) : Len(data) \in {2, 4} /\ msg = KeepAliveMessage(data)
  <2>1. PICK data \in Seq(Octet) : Len(data) \in {2, 4} /\ msg = KeepAliveMessage(data)
    BY <1>4
  <2> DEFINE received == KeepAliveMessage(SubSeq(data, 1, 2))
  <2>2. Arrives(msg, received)
    BY <2>1, KeepAliveArrives
  <2>3. msg.type = 4 /\ msg.data = data
    BY <2>1, MessageTypes DEF KeepAliveMessage
  <2>4. Received(msg) = received
    BY <2>3, MessageTypes DEF Received
  <2>5. received # NoMessage
    <3>1. "data" \in DOMAIN received
      BY DEF KeepAliveMessage
    <3> QED
      BY <3>1 DEF NoMessage
  <2> QED
    BY <2>2, <2>3, <2>4, <2>5
<1> QED
  BY <1>1, <1>2, <1>3, <1>4 DEF IsSent

(* The parts that a sequence was put together from.                        *)
LEMMA FirstAndRest ==
  ASSUME NEW s \in Seq(Int), NEW t \in Seq(Int)
  PROVE  SubSeq(s \o t, 1, Len(s)) = s /\ SubSeq(s \o t, Len(s) + 1, Len(s \o t)) = t
<1> DEFINE u == s \o t
           a == SubSeq(u, 1, Len(s))
           b == SubSeq(u, Len(s) + 1, Len(u))
<1>1. /\ u \in Seq(Int) /\ Len(u) = Len(s) + Len(t)
      /\ \A i \in 1 .. Len(s) + Len(t) : u[i] = IF i <= Len(s) THEN s[i] ELSE t[i - Len(s)]
  BY ConcatProperties
<1> HIDE DEF u
<1>2. a \in Seq(Int) /\ Len(a) = Len(s) /\ \A i \in 1 .. Len(s) : a[i] = u[i]
  BY <1>1
<1>3. b \in Seq(Int) /\ Len(b) = Len(t) /\ \A i \in 1 .. Len(t) : b[i] = u[Len(s) + i]
  BY <1>1
<1> HIDE DEF a, b
<1>4. a = s
  <2>1. \A i \in 1 .. Len(s) : a[i] = s[i]
    BY <1>1, <1>2
  <2> QED
    BY <1>2, <2>1, SeqEqual
<1>5. b = t
  <2>1. ASSUME NEW i \in 1 .. Len(t) PROVE b[i] = t[i]
    <3>1. /\ Len(s) + i \in 1 .. Len(s) + Len(t) /\ ~ (Len(s) + i <= Len(s))
          /\ (Len(s) + i) - Len(s) = i
      OBVIOUS
    <3>2. u[Len(s) + i] = t[i]
      BY <1>1, <3>1
    <3> QED
      BY <1>3, <3>2
  <2> QED
    BY <1>3, <2>1, SeqEqual
<1> QED
  BY <1>4, <1>5 DEF a, b, u

(* A message travels unchanged: whatever follows it in the stream, the     *)
(* size in its header marks off its own bytes and no other, the receiver   *)
(* makes of them the message that was sent (see Received), and goes on     *)
(* with what follows.                                                      *)
THEOREM MessageTravels ==
  ASSUME NEW msg, IsSent(msg), NEW rest \in Seq(Int)
  PROVE  LET stream == GetSerializedData(msg) \o rest
         IN  /\ stream \in Seq(Int) /\ Ocp1HeaderSize <= Len(stream)
             /\ MessageSize(stream) < Len(stream)
             /\ FirstFrame(stream) = GetSerializedData(msg)
             /\ AfterFirstFrame(stream) = rest
             /\ UnmarshalOcp1Message(FirstFrame(stream)) = Received(msg)
             /\ Received(msg) # NoMessage
<1> DEFINE bytes == GetSerializedData(msg)
           stream == bytes \o rest
           n == Len(msg.data)
           size == CalculateMessageSize(msg.type, n)
<1>1. msg.type \in 0 .. 4 /\ n \in Nat /\ Received(msg) # NoMessage
  BY SentArrives
<1>2. /\ bytes \in Seq(Int) /\ size \in Long /\ Len(bytes) = size + 1
      /\ Carries(bytes, 0, Header(msg.type, n)) /\ UnmarshalOcp1Message(bytes) = Received(msg)
  BY SentArrives DEF Arrives
<1> HIDE DEF bytes, n, size
<1>3. /\ stream \in Seq(Int) /\ Len(stream) = Len(bytes) + Len(rest)
      /\ SubSeq(stream, 1, Len(bytes)) = bytes
      /\ SubSeq(stream, Len(bytes) + 1, Len(stream)) = rest
  BY <1>2, FieldAdded, FirstAndRest, Zenon
<1>4. Len(Header(msg.type, n)) \in Nat
  BY <1>1, <1>2, HeaderIsSeq DEF size
<1>5. Carries(stream, 0, Header(msg.type, n))
  BY <1>2, <1>4, CarriesStill, 0 \in Nat, Zenon
<1>10. Len(bytes) \in Nat /\ Len(rest) \in Nat /\ size \in Nat
  <2>1. size \in Nat
    BY <1>2, NumbersOfFields, Zenon
  <2>2. Len(bytes) \in Nat /\ Len(rest) \in Nat
    BY <1>2
  <2> QED
    BY <2>1, <2>2
<1>11. Len(stream) \in Nat
  BY <1>3, <1>10
<1>6. MessageSize(stream) = size /\ Len(stream) >= Ocp1HeaderSize
  <2> HIDE DEF stream
  <2> QED
    BY <1>1, <1>2, <1>5, <1>11, HeaderRead, Zenon DEF size
<1>7. MessageSize(stream) + 1 = Len(bytes) /\ MessageSize(stream) + 2 = Len(bytes) + 1
  <2> HIDE DEF stream
  <2> QED
    BY <1>2, <1>6, <1>10
<1>8. MessageSize(stream) < Len(stream) /\ Ocp1HeaderSize <= Len(stream)
  <2> HIDE DEF stream
  <2> QED
    BY <1>3, <1>6, <1>7, <1>10 DEF Ocp1HeaderSize
<1>9. FirstFrame(stream) = bytes /\ AfterFirstFrame(stream) = rest
  BY <1>3, <1>7, Zenon DEF FirstFrame, AfterFirstFrame
<1> QED
  BY <1>1, <1>2, <1>3, <1>8, <1>9, Zenon DEF bytes

-----------------------------------------------------------------------------
(* The packing of object numbers (GetONo and GetONoTy2).                   *)

(* A field of an object number is a number.                                *)
LEMMA FieldIsNumber ==
  ASSUME NEW n \in Nat \ {0}, NEW p \in Nat, NEW x \in 0 .. n - 1
  PROVE  Field(p, n, x) \in Nat
  BY SMT DEF Field

(* A field in range is what remains of the number below it, so that a      *)
(* number determines the field and what is above.                          *)
LEMMA FieldInjective ==
  ASSUME NEW n \in Nat \ {0}, NEW p \in Nat, NEW q \in Nat,
         NEW x \in 0 .. n - 1, NEW y \in 0 .. n - 1,
         Field(p, n, x) = Field(q, n, y)
  PROVE  p = q /\ x = y
<1>1. x % n = x /\ y % n = y
  BY SMT
<1>2. p * n + x = q * n + y
  BY <1>1 DEF Field
<1>3. ASSUME NEW a \in Nat, NEW b \in Nat, NEW u \in 0 .. n - 1, NEW v \in 0 .. n - 1,
             a * n + u = b * n + v, a < b
      PROVE  FALSE
  BY <1>3, SMT
<1> QED
  BY <1>2, <1>3, SMT

(* Each field has room for one value at least.                             *)
LEMMA RoomForOne ==
  /\ Types \in Nat \ {0} /\ Records \in Nat \ {0} /\ Channels \in Nat \ {0}
  /\ BoxesAndObjects \in Nat \ {0} /\ Ty2Channels \in Nat \ {0}
  /\ Ty2Boxes \in Nat \ {0} /\ Ty2Objects \in Nat \ {0}
  BY SMT DEF Types, Records, Channels, BoxesAndObjects, Ty2Channels, Ty2Boxes, Ty2Objects

(* Two objects of type 2 (DS100) whose fields are within the widths that   *)
(* GetONoTy2 shifts by have one number only if they are one object: so a   *)
(* response or a notification, which says nothing but the number, is about *)
(* no other object than the one that was asked or subscribed.              *)
THEOREM GetONoTy2Injective ==
  ASSUME NEW t1 \in 0 .. Types - 1, NEW r1 \in 0 .. Records - 1, NEW c1 \in 0 .. Ty2Channels - 1,
         NEW b1 \in 0 .. Ty2Boxes - 1, NEW o1 \in 0 .. Ty2Objects - 1,
         NEW t2 \in 0 .. Types - 1, NEW r2 \in 0 .. Records - 1, NEW c2 \in 0 .. Ty2Channels - 1,
         NEW b2 \in 0 .. Ty2Boxes - 1, NEW o2 \in 0 .. Ty2Objects - 1,
         GetONoTy2(t1, r1, c1, b1, o1) = GetONoTy2(t2, r2, c2, b2, o2)
  PROVE  t1 = t2 /\ r1 = r2 /\ c1 = c2 /\ b1 = b2 /\ o1 = o2
<1> DEFINE type1 == Field(0, Types, t1)
           record1 == Field(type1, Records, r1)
           channel1 == Field(record1, Ty2Channels, c1)
           box1 == Field(channel1, Ty2Boxes, b1)
           type2 == Field(0, Types, t2)
           record2 == Field(type2, Records, r2)
           channel2 == Field(record2, Ty2Channels, c2)
           box2 == Field(channel2, Ty2Boxes, b2)
<1>1. Field(box1, Ty2Objects, o1) = Field(box2, Ty2Objects, o2)
  BY Zenon DEF GetONoTy2
<1>2. type1 \in Nat /\ type2 \in Nat
  BY FieldIsNumber, RoomForOne
<1> HIDE DEF type1, type2
<1>3. record1 \in Nat /\ record2 \in Nat
  BY <1>2, FieldIsNumber, RoomForOne
<1> HIDE DEF record1, record2
<1>4. channel1 \in Nat /\ channel2 \in Nat
  BY <1>3, FieldIsNumber, RoomForOne
<1> HIDE DEF channel1, channel2
<1>5. box1 \in Nat /\ box2 \in Nat
  BY <1>4, FieldIsNumber, RoomForOne
<1> HIDE DEF box1, box2
<1>6. box1 = box2 /\ o1 = o2
  BY <1>1, <1>5, FieldInjective, RoomForOne
<1>7. channel1 = channel2 /\ b1 = b2
  BY <1>6, <1>4, FieldInjective, RoomForOne DEF box1, box2
<1>8. record1 = record2 /\ c1 = c2
  BY <1>7, <1>3, FieldInjective, RoomForOne DEF channel1, channel2
<1>9. type1 = type2 /\ r1 = r2
  BY <1>8, <1>2, FieldInjective, RoomForOne DEF record1, record2
<1>10. t1 = t2
  BY <1>9, 0 \in Nat, FieldInjective, RoomForOne DEF type1, type2
<1> QED
  BY <1>6, <1>7, <1>8, <1>9, <1>10

(* The same for amplifiers, whose box and object share fifteen bits.       *)
THEOREM GetONoInjective ==
  ASSUME NEW t1 \in 0 .. Types - 1, NEW r1 \in 0 .. Records - 1, NEW c1 \in 0 .. Channels - 1,
         NEW o1 \in 0 .. BoxesAndObjects - 1,
         NEW t2 \in 0 .. Types - 1, NEW r2 \in 0 .. Records - 1, NEW c2 \in 0 .. Channels - 1,
         NEW o2 \in 0 .. BoxesAndObjects - 1,
         GetONo(t1, r1, c1, o1) = GetONo(t2, r2, c2, o2)
  PROVE  t1 = t2 /\ r1 = r2 /\ c1 = c2 /\ o1 = o2
<1> DEFINE type1 == Field(0, Types, t1)
           record1 == Field(type1, Records, r1)
           channel1 == Field(record1, Channels, c1)
           type2 == Field(0, Types, t2)
           record2 == Field(type2, Records, r2)
           channel2 == Field(record2, Channels, c2)
<1>1. Field(channel1, BoxesAndObjects, o1) = Field(channel2, BoxesAndObjects, o2)
  BY Zenon DEF GetONo
<1>2. type1 \in Nat /\ type2 \in Nat
  BY FieldIsNumber, RoomForOne
<1> HIDE DEF type1, type2
<1>3. record1 \in Nat /\ record2 \in Nat
  BY <1>2, FieldIsNumber, RoomForOne
<1> HIDE DEF record1, record2
<1>4. channel1 \in Nat /\ channel2 \in Nat
  BY <1>3, FieldIsNumber, RoomForOne
<1> HIDE DEF channel1, channel2
<1>5. channel1 = channel2 /\ o1 = o2
  BY <1>1, <1>4, FieldInjective, RoomForOne
<1>6. record1 = record2 /\ c1 = c2
  BY <1>5, <1>3, FieldInjective, RoomForOne DEF channel1, channel2
<1>7. type1 = type2 /\ r1 = r2
  BY <1>6, <1>2, FieldInjective, RoomForOne DEF record1, record2
<1>8. t1 = t2
  BY <1>7, 0 \in Nat, FieldInjective, RoomForOne DEF type1, type2
<1> QED
  BY <1>5, <1>6, <1>7, <1>8
=============================================================================
