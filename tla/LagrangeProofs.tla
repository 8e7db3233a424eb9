--------------------------- MODULE LagrangeProofs ---------------------------
(***************************************************************************)
(* The integers modulo P are a field, and sums and products over finite    *)
(* sets are what one expects of them, in whatever order the fold takes the *)
(* elements.  With that, the coefficients of the one-inversion algorithm   *)
(* reconstruct, for any list of distinct nonzero indices, in any order,    *)
(* and any polynomial with no more coefficients than there are indices.    *)
(*                                                                         *)
(* The argument: a divided difference over more points than the degree     *)
(* counts is zero, by induction over the degree, since multiplying by      *)
(* (x_n - x_i) drops the point n.  With zero as one more point it says     *)
(* that the weights 1 / (x_i * Spread) times the product of the points     *)
(* take x^m to 0^m.  The two passes and the one inversion give just these  *)
(* weights, and a polynomial's value is the sum of its terms.              *)
(*                                                                         *)
(* A property of all naturals, or of all subsets of a finite set, is       *)
(* proved by induction as a fact about the set of those that have it.      *)
(***************************************************************************)
EXTENDS Lagrange, FiniteSetTheorems, WellFoundedInduction, TLAPS

-----------------------------------------------------------------------------
(* Induction *)

\* A nonempty set of naturals has a least element.
LEMMA LeastOf ==
    ASSUME NEW S \in SUBSET Nat, S # {}
    PROVE  \E m \in S : \A n \in S : m <= n
<1>1. PICK m \in S : \A n \in S : ~ (<<n, m>> \in OpToRel(<, Nat))
  BY NatLessThanWellFounded, WFMin
<1>2. \A n \in S : ~ (n < m)
  BY <1>1 DEF OpToRel
<1> QED BY <1>2

\* Induction over the naturals, for the set of those that have a property.
LEMMA NatInductive ==
    ASSUME NEW T, 0 \in T, \A n \in Nat : n \in T => n + 1 \in T
    PROVE  \A n \in Nat : n \in T
<1> SUFFICES ASSUME NEW k \in Nat, k \notin T PROVE FALSE
  OBVIOUS
<1> DEFINE U == {n \in Nat : n \notin T}
<1>1. PICK m \in U : \A n \in U : m <= n
  <2>1. U \in SUBSET Nat /\ U # {}
    OBVIOUS
  <2> HIDE DEF U
  <2> QED BY <2>1, LeastOf
<1>2. m # 0 /\ m - 1 \in Nat
  BY <1>1
<1>3. m - 1 \in T
  BY <1>1, <1>2
<1>4. (m - 1) + 1 \in T
  BY <1>2, <1>3
<1> QED BY <1>1, <1>4

\* Taking an element out of a finite set.
LEMMA TakeOut ==
    ASSUME NEW S, IsFiniteSet(S), NEW x \in S
    PROVE  /\ IsFiniteSet(S \ {x})
           /\ Cardinality(S) \in Nat /\ Cardinality(S \ {x}) \in Nat
           /\ Cardinality(S \ {x}) = Cardinality(S) - 1
BY FS_RemoveElement, FS_CardinalityType

\* Induction over the subsets of a finite set.
LEMMA SubsetsInductive ==
    ASSUME NEW S, IsFiniteSet(S), NEW T, {} \in T,
           \A s \in SUBSET S : s # {} /\ (\A x \in s : s \ {x} \in T) => s \in T
    PROVE  \A s \in SUBSET S : s \in T
<1> SUFFICES ASSUME NEW r \in SUBSET S, r \notin T PROVE FALSE
  OBVIOUS
<1> DEFINE U == {Cardinality(s) : s \in (SUBSET S) \ T}
<1>1. \A s \in SUBSET S : IsFiniteSet(s) /\ Cardinality(s) \in Nat
  BY FS_Subset, FS_CardinalityType
<1>2. PICK s \in (SUBSET S) \ T : \A t \in (SUBSET S) \ T : Cardinality(s) <= Cardinality(t)
  <2>1. U \in SUBSET Nat /\ U # {}
    BY <1>1
  <2>2. \E m \in U : \A n \in U : m <= n
    <3> HIDE DEF U
    <3> QED BY <2>1, LeastOf
  <2> QED BY <2>2
<1>3. \A x \in s : s \ {x} \in T
  <2> SUFFICES ASSUME NEW x \in s, s \ {x} \notin T PROVE FALSE
    OBVIOUS
  <2>1. s \ {x} \in (SUBSET S) \ T
    BY <1>2
  <2>2. Cardinality(s) <= Cardinality(s \ {x})
    BY <1>2, <2>1
  <2> QED BY <1>1, <2>2, TakeOut
<1> QED BY <1>2, <1>3

\* iter takes the elements of a set one by one, as ch picks them.
Recursive(iter, S, base, step, ch) ==
    \A s \in SUBSET S : iter[s] = IF s = {} THEN base ELSE step[s][iter[s \ {ch[s]}]]

\* A function can be defined by recursion over the subsets of a finite set, one
\* element at a time.
LEMMA Recursion ==
    ASSUME NEW S, IsFiniteSet(S), NEW X, NEW base \in X,
           NEW step \in [SUBSET S -> [X -> X]],
           NEW ch, \A s \in SUBSET S : s # {} => ch[s] \in s
    PROVE  \E iter \in [SUBSET S -> X] : Recursive(iter, S, base, step, ch)
<1> DEFINE Body(g, s) == IF s = {} THEN base ELSE step[s][g[s \ {ch[s]}]]
           Upto(g, n) == \A s \in SUBSET S : Cardinality(s) <= n => g[s] = Body(g, s)
           T == {n \in Nat : \E g \in [SUBSET S -> X] : Upto(g, n)}
<1>1. \A s \in SUBSET S : IsFiniteSet(s) /\ Cardinality(s) \in Nat
  BY FS_Subset, FS_CardinalityType
<1>2. \A g \in [SUBSET S -> X] : [s \in SUBSET S |-> Body(g, s)] \in [SUBSET S -> X]
  <2> SUFFICES ASSUME NEW g \in [SUBSET S -> X], NEW s \in SUBSET S
               PROVE  Body(g, s) \in X
    OBVIOUS
  <2>1. CASE s = {}
    BY <2>1
  <2>2. CASE s # {}
    <3>1. s \ {ch[s]} \in SUBSET S
      OBVIOUS
    <3>2. g[s \ {ch[s]}] \in X /\ step[s] \in [X -> X]
      BY <3>1
    <3> QED BY <2>2, <3>2
  <2> QED BY <2>1, <2>2
<1>3. 0 \in T
  <2> DEFINE g == [s \in SUBSET S |-> base]
  <2>1. g \in [SUBSET S -> X]
    OBVIOUS
  <2>2. \A s \in SUBSET S : Cardinality(s) <= 0 => s = {}
    BY <1>1, FS_EmptySet
  <2>3. Upto(g, 0)
    BY <2>2
  <2> QED BY <2>1, <2>3
<1>4. ASSUME NEW n \in Nat, n \in T PROVE n + 1 \in T
  <2>1. PICK g \in [SUBSET S -> X] : Upto(g, n)
    BY <1>4
  <2> DEFINE h == [s \in SUBSET S |-> Body(g, s)]
  <2>2. h \in [SUBSET S -> X]
    BY <1>2
  <2>3. ASSUME NEW s \in SUBSET S, Cardinality(s) <= n + 1
        PROVE  h[s] = Body(h, s)
    <3>1. CASE s = {}
      BY <3>1
    <3>2. CASE s # {}
      <4> DEFINE r == s \ {ch[s]}
      <4>1. r \in SUBSET S /\ Cardinality(r) <= n
        BY <1>1, <2>3, <3>2, TakeOut
      <4>2. h[r] = Body(g, r) /\ g[r] = Body(g, r)
        BY <2>1, <4>1
      <4>3. h[s] = step[s][g[r]]
        BY <3>2
      <4>4. Body(h, s) = step[s][h[r]]
        BY <3>2
      <4> QED BY <4>2, <4>3, <4>4, Zenon
    <3> QED BY <3>1, <3>2
  <2>4. Upto(h, n + 1)
    <3> HIDE DEF Body, h
    <3> QED BY <2>3
  <2>5. \E f \in [SUBSET S -> X] : Upto(f, n + 1)
    <3> HIDE DEF Upto, h
    <3> QED BY <2>2, <2>4
  <2>6. n + 1 \in Nat
    OBVIOUS
  <2> HIDE DEF Upto
  <2> QED BY <2>5, <2>6
<1>5. \A n \in Nat : n \in T
  <2> HIDE DEF T
  <2> QED BY <1>3, <1>4, NatInductive
<1>6. PICK g \in [SUBSET S -> X] : Upto(g, Cardinality(S))
  BY <1>1, <1>5
<1>7. \A s \in SUBSET S : Cardinality(s) <= Cardinality(S)
  BY FS_Subset
<1>8. Recursive(g, S, base, step, ch)
  BY <1>6, <1>7 DEF Recursive
<1> QED BY <1>8

\* The image of a finite set is finite.
LEMMA FiniteImage ==
    ASSUME NEW S, IsFiniteSet(S), NEW h
    PROVE  IsFiniteSet({h[x] : x \in S})
<1> DEFINE g == [x \in S |-> h[x]]
<1>1. g \in Surjection(S, {h[x] : x \in S})
  BY DEF Surjection
<1> QED BY <1>1, FS_Surjection

-----------------------------------------------------------------------------
(* The scalar field *)

\* A number is a multiple of P and its residue.
LEMMA ModSplit ==
    ASSUME NEW a \in Int
    PROVE  /\ a % P \in Field
           /\ a \div P \in Int
           /\ a = P * (a \div P) + (a % P)
  BY FieldAssumption DEF Field

\* A number with a scalar added to a multiple of P has that scalar as its residue.
LEMMA ModUnique ==
    ASSUME NEW q \in Int, NEW r \in Field
    PROVE  (P * q + r) % P = r
  BY FieldAssumption DEF Field

\* Multiples of P do not change the residue.
LEMMA ModShift ==
    ASSUME NEW a \in Int, NEW q \in Int
    PROVE  (a + P * q) % P = a % P
<1>1. /\ a % P \in Field /\ a \div P \in Int
      /\ a = P * (a \div P) + (a % P)
  BY ModSplit
<1> DEFINE d == a \div P
           r == a % P
<1>2. d \in Int /\ r \in Field /\ a = P * d + r /\ P \in Int
  BY <1>1, FieldAssumption
<1> HIDE DEF d, r
<1>3. a + P * q = P * (d + q) + r
  <2>1. r \in Int BY <1>2 DEF Field
  <2> QED BY <1>2, <2>1
<1>4. d + q \in Int
  BY <1>2
<1>5. (P * (d + q) + r) % P = r
  BY <1>2, <1>4, ModUnique, Zenon
<1>6. (a + P * q) % P = r
  BY <1>3, <1>5, Zenon
<1> QED BY <1>6, Zenon DEF r

\* A summand can be reduced first.
LEMMA ModAdd ==
    ASSUME NEW a \in Int, NEW b \in Int
    PROVE  (a + (b % P)) % P = (a + b) % P
<1> DEFINE q == b \div P
           r == b % P
<1>1. q \in Int /\ r \in Int /\ b = P * q + r /\ P \in Int
  BY ModSplit, FieldAssumption DEF Field
<1> HIDE DEF q, r
<1>2. a + b = (a + r) + P * q /\ a + r \in Int
  BY <1>1
<1>3. ((a + r) + P * q) % P = (a + r) % P
  BY <1>1, <1>2, ModShift, Zenon
<1>4. (a + r) % P = (a + b) % P
  BY <1>2, <1>3, Zenon
<1> QED BY <1>4, Zenon DEF r

\* A factor can be reduced first.
LEMMA ModMul ==
    ASSUME NEW a \in Int, NEW b \in Int
    PROVE  (a * (b % P)) % P = (a * b) % P
<1> DEFINE q == b \div P
           r == b % P
<1>1. q \in Int /\ r \in Int /\ b = P * q + r /\ P \in Int
  BY ModSplit, FieldAssumption DEF Field
<1> HIDE DEF q, r
<1>2. a * b = a * r + P * (a * q)
  BY <1>1
<1>3. a * r \in Int /\ a * q \in Int
  BY <1>1
<1>4. (a * r + P * (a * q)) % P = (a * r) % P
  BY <1>3, ModShift, Zenon
<1>5. (a * r) % P = (a * b) % P
  BY <1>2, <1>4, Zenon
<1> QED BY <1>5, Zenon DEF r

\* Scalars are integers.
LEMMA FieldIntegers == ASSUME NEW a \in Field PROVE a \in Int /\ P \in Int
BY FieldAssumption DEF Field

\* Zero and one are two scalars.
LEMMA FieldConstants == 0 \in Field /\ 1 \in Field /\ 0 # 1
BY FieldAssumption DEF Field

\* Sums, products and differences of scalars are scalars.
LEMMA FieldClosed ==
    ASSUME NEW a \in Field, NEW b \in Field
    PROVE  Add(a, b) \in Field /\ Mul(a, b) \in Field /\ Minus(a, b) \in Field
<1>1. a + b \in Int /\ a * b \in Int /\ a - b + P \in Int
  BY FieldIntegers
<1> QED BY <1>1, ModSplit, Zenon DEF Add, Mul, Minus

\* Both operations commute.
LEMMA FieldCommutes ==
    ASSUME NEW a \in Field, NEW b \in Field
    PROVE  Add(a, b) = Add(b, a) /\ Mul(a, b) = Mul(b, a)
<1>1. a + b = b + a /\ a * b = b * a
  BY FieldIntegers
<1> QED BY <1>1 DEF Add, Mul

\* Addition associates.
LEMMA AddAssociates ==
    ASSUME NEW a \in Field, NEW b \in Field, NEW c \in Field
    PROVE  Add(a, Add(b, c)) = Add(Add(a, b), c)
<1>1. a \in Int /\ b \in Int /\ c \in Int
  BY FieldIntegers
<1>2. (a + ((b + c) % P)) % P = (a + (b + c)) % P
  BY <1>1, ModAdd
<1>3. (c + ((a + b) % P)) % P = (c + (a + b)) % P
  BY <1>1, ModAdd
<1>4. a + (b + c) = c + (a + b)
  BY <1>1
<1>5. c + ((a + b) % P) = ((a + b) % P) + c
  BY <1>1, ModSplit DEF Field
<1> QED BY <1>2, <1>3, <1>4, <1>5 DEF Add

\* Multiplication associates.
LEMMA MulAssociates ==
    ASSUME NEW a \in Field, NEW b \in Field, NEW c \in Field
    PROVE  Mul(a, Mul(b, c)) = Mul(Mul(a, b), c)
<1>1. a \in Int /\ b \in Int /\ c \in Int
  BY FieldIntegers
<1>2. (a * ((b * c) % P)) % P = (a * (b * c)) % P
  BY <1>1, ModMul
<1>3. (c * ((a * b) % P)) % P = (c * (a * b)) % P
  BY <1>1, ModMul
<1>4. a * (b * c) = c * (a * b)
  BY <1>1
<1>5. c * ((a * b) % P) = ((a * b) % P) * c
  BY <1>1, ModSplit DEF Field
<1> QED BY <1>2, <1>3, <1>4, <1>5 DEF Mul

\* Multiplication distributes over addition.
LEMMA Distributes ==
    ASSUME NEW a \in Field, NEW b \in Field, NEW c \in Field
    PROVE  Mul(a, Add(b, c)) = Add(Mul(a, b), Mul(a, c))
<1>1. a \in Int /\ b \in Int /\ c \in Int /\ (a * b) % P \in Int
  BY FieldIntegers, ModSplit DEF Field
<1>2. (a * ((b + c) % P)) % P = (a * (b + c)) % P
  BY <1>1, ModMul
<1>3. (((a * b) % P) + ((a * c) % P)) % P = (((a * b) % P) + a * c) % P
  BY <1>1, ModAdd
<1>4. (a * c + ((a * b) % P)) % P = (a * c + a * b) % P
  BY <1>1, ModAdd
<1>5. ((a * b) % P) + a * c = a * c + ((a * b) % P)
  BY <1>1
<1>6. a * (b + c) = a * c + a * b
  BY <1>1
<1> QED BY <1>2, <1>3, <1>4, <1>5, <1>6 DEF Add, Mul

\* Zero is neutral in sums and takes products to zero; one is neutral in products.
LEMMA FieldNeutral ==
    ASSUME NEW a \in Field
    PROVE  /\ Add(a, 0) = a /\ Mul(a, 1) = a /\ Mul(a, 0) = 0
           /\ Add(0, a) = a /\ Mul(1, a) = a /\ Mul(0, a) = 0
<1>1. a \in Int /\ 0 \in Field
  BY FieldIntegers, FieldConstants
<1>2. (P * 0 + a) % P = a /\ (P * 0 + 0) % P = 0
  BY <1>1, ModUnique
<1>3. a + 0 = P * 0 + a /\ a * 1 = P * 0 + a /\ a * 0 = P * 0 + 0
  BY FieldIntegers
<1>4. Add(a, 0) = a /\ Mul(a, 1) = a /\ Mul(a, 0) = 0
  BY <1>2, <1>3 DEF Add, Mul
<1>5. Add(a, 0) = Add(0, a) /\ Mul(a, 1) = Mul(1, a) /\ Mul(a, 0) = Mul(0, a)
  BY FieldConstants, FieldCommutes, Zenon
<1> QED BY <1>4, <1>5, Zenon

\* Adding what was subtracted gives back what it was subtracted from.
LEMMA MinusAdd ==
    ASSUME NEW a \in Field, NEW b \in Field
    PROVE  Add(Minus(a, b), b) = a
<1>1. a \in Int /\ b \in Int /\ P \in Int
  BY FieldIntegers
<1>2. (b + ((a - b + P) % P)) % P = (b + (a - b + P)) % P
  BY <1>1, ModAdd
<1>3. ((a - b + P) % P) + b = b + ((a - b + P) % P)
  BY <1>1, ModSplit DEF Field
<1>4. b + (a - b + P) = P * 1 + a
  BY <1>1
<1>5. (P * 1 + a) % P = a
  BY ModUnique
<1> QED BY <1>2, <1>3, <1>4, <1>5 DEF Add, Minus

\* Two summands change places.
LEMMA AddSwap ==
    ASSUME NEW a \in Field, NEW b \in Field, NEW c \in Field
    PROVE  Add(a, Add(b, c)) = Add(b, Add(a, c))
<1>1. Add(a, Add(b, c)) = Add(Add(a, b), c)
  BY AddAssociates
<1>2. Add(b, Add(a, c)) = Add(Add(b, a), c)
  BY AddAssociates
<1>3. Add(a, b) = Add(b, a)
  BY FieldCommutes
<1> QED BY <1>1, <1>2, <1>3, Zenon

\* Two factors change places.
LEMMA MulSwap ==
    ASSUME NEW a \in Field, NEW b \in Field, NEW c \in Field
    PROVE  Mul(a, Mul(b, c)) = Mul(b, Mul(a, c))
<1>1. Mul(a, Mul(b, c)) = Mul(Mul(a, b), c)
  BY MulAssociates
<1>2. Mul(b, Mul(a, c)) = Mul(Mul(b, a), c)
  BY MulAssociates
<1>3. Mul(a, b) = Mul(b, a)
  BY FieldCommutes
<1> QED BY <1>1, <1>2, <1>3, Zenon

\* Two sums are added term by term.
LEMMA AddPairs ==
    ASSUME NEW a \in Field, NEW b \in Field, NEW c \in Field, NEW d \in Field
    PROVE  Add(Add(a, b), Add(c, d)) = Add(Add(a, c), Add(b, d))
<1>1. Add(c, d) \in Field /\ Add(b, d) \in Field
  BY FieldClosed
<1>2. Add(Add(a, b), Add(c, d)) = Add(a, Add(b, Add(c, d)))
  BY <1>1, AddAssociates
<1>3. Add(b, Add(c, d)) = Add(c, Add(b, d))
  BY AddSwap
<1>4. Add(a, Add(c, Add(b, d))) = Add(Add(a, c), Add(b, d))
  BY <1>1, AddAssociates
<1> QED BY <1>2, <1>3, <1>4

\* A nonzero scalar times its inverse is one.
LEMMA NonzeroInverts ==
    ASSUME NEW a \in Field, a # 0
    PROVE  Invert(a) \in Field /\ Mul(a, Invert(a)) = 1
<1>1. \E b \in Field : Mul(a, b) = 1
  BY FieldAssumption DEF Mul
<1> QED BY <1>1 DEF Invert

\* A product is zero only if a factor is.
LEMMA NoZeroDivisors ==
    ASSUME NEW a \in Field, NEW b \in Field, Mul(a, b) = 0
    PROVE  a = 0 \/ b = 0
<1> SUFFICES ASSUME a # 0 PROVE b = 0
  OBVIOUS
<1>1. Invert(a) \in Field /\ Mul(a, Invert(a)) = 1
  BY NonzeroInverts
<1>2. Mul(Invert(a), Mul(a, b)) = Mul(a, Mul(Invert(a), b))
  BY <1>1, MulSwap
<1>3. Mul(a, Mul(Invert(a), b)) = Mul(Mul(a, Invert(a)), b)
  BY <1>1, MulAssociates
<1>4. Mul(Mul(a, Invert(a)), b) = b
  BY <1>1, FieldNeutral
<1>5. Mul(Invert(a), 0) = 0
  BY <1>1, FieldNeutral
<1> QED BY <1>2, <1>3, <1>4, <1>5

\* A common factor other than zero cancels.
LEMMA Cancels ==
    ASSUME NEW a \in Field, NEW b \in Field, NEW c \in Field, a # 0, Mul(a, b) = Mul(a, c)
    PROVE  b = c
<1>1. Invert(a) \in Field /\ Mul(a, Invert(a)) = 1
  BY NonzeroInverts
<1>2. ASSUME NEW d \in Field PROVE Mul(Invert(a), Mul(a, d)) = d
  <2>1. Mul(Invert(a), Mul(a, d)) = Mul(Mul(Invert(a), a), d)
    BY <1>1, MulAssociates
  <2>2. Mul(Invert(a), a) = 1
    BY <1>1, FieldCommutes
  <2> QED BY <2>1, <2>2, FieldNeutral
<1>3. Mul(Invert(a), Mul(a, b)) = b /\ Mul(Invert(a), Mul(a, c)) = c
  BY <1>2
<1> QED BY <1>3

\* Differences of different scalars are not zero.
LEMMA MinusZero ==
    ASSUME NEW a \in Field, NEW b \in Field
    PROVE  Minus(a, b) = 0 <=> a = b
<1>1. Add(Minus(a, b), b) = a
  BY MinusAdd
<1>2. Minus(a, b) = 0 => a = b
  BY <1>1, FieldNeutral
<1>3. Minus(a, a) = 0
  <2>1. a - a + P = P * 1 + 0
    BY FieldIntegers
  <2>2. (P * 1 + 0) % P = 0
    BY FieldConstants, ModUnique
  <2> QED BY <2>1, <2>2 DEF Minus
<1> QED BY <1>2, <1>3

\* A sum with one term determines the other.
LEMMA AddCancels ==
    ASSUME NEW a \in Field, NEW b \in Field, NEW c \in Field, Add(a, b) = Add(a, c)
    PROVE  b = c
<1>1. Minus(0, a) \in Field /\ Add(Minus(0, a), a) = 0
  BY FieldConstants, FieldClosed, MinusAdd
<1>2. ASSUME NEW d \in Field PROVE Add(Minus(0, a), Add(a, d)) = d
  <2>1. Add(Minus(0, a), Add(a, d)) = Add(Add(Minus(0, a), a), d)
    BY <1>1, AddAssociates
  <2> QED BY <1>1, <2>1, FieldNeutral
<1>3. Add(Minus(0, a), Add(a, b)) = b /\ Add(Minus(0, a), Add(a, c)) = c
  BY <1>2
<1> QED BY <1>3

\* A difference can be taken in two steps.
LEMMA MinusThrough ==
    ASSUME NEW a \in Field, NEW b \in Field, NEW c \in Field
    PROVE  Minus(a, c) = Add(Minus(a, b), Minus(b, c))
<1> DEFINE d == Minus(a, b)
           e == Minus(b, c)
<1>1. d \in Field /\ e \in Field /\ Minus(a, c) \in Field /\ Add(d, e) \in Field
  BY FieldClosed
<1>2. Add(d, b) = a /\ Add(e, c) = b /\ Add(Minus(a, c), c) = a
  BY MinusAdd
<1> HIDE DEF d, e
<1>3. Add(Add(d, e), c) = a
  BY <1>1, <1>2, AddAssociates
<1>4. Add(c, Minus(a, c)) = Add(c, Add(d, e))
  BY <1>1, <1>2, <1>3, FieldCommutes
<1>5. Minus(a, c) = Add(d, e)
  BY <1>1, <1>4, AddCancels
<1> QED BY <1>5 DEF d, e

-----------------------------------------------------------------------------
(* Sums *)

\* The element that a fold over a set takes next
Pick(s) == CHOOSE x \in s : TRUE

\* The recursive function in the definition of Sum
SumIter(f, S) ==
    CHOOSE iter : iter =
        [s \in SUBSET S |-> IF s = {} THEN 0 ELSE Add(f[Pick(s)], iter[s \ {Pick(s)}])]

\* A sum is the value of that function at the whole set.
LEMMA SumIsIter ==
    ASSUME NEW f, NEW S
    PROVE  Sum(f, S) = SumIter(f, S)[S]
BY DEF Sum, FoldFunctionOnSet, MapThenFoldSet, SumIter, Pick

\* The function exists, and so it satisfies its equation.
LEMMA SumIterStep ==
    ASSUME NEW S, IsFiniteSet(S), NEW f, \A x \in S : f[x] \in Field, NEW s \in SUBSET S
    PROVE  SumIter(f, S)[s] =
             IF s = {} THEN 0 ELSE Add(f[Pick(s)], SumIter(f, S)[s \ {Pick(s)}])
<1> DEFINE step == [t \in SUBSET S |-> [v \in Field |-> IF t = {} THEN 0 ELSE Add(f[Pick(t)], v)]]
           ch == [t \in SUBSET S |-> Pick(t)]
<1>1. \A t \in SUBSET S : t # {} => Pick(t) \in t
  BY DEF Pick
<1>2. step \in [SUBSET S -> [Field -> Field]]
  BY <1>1, FieldClosed, FieldConstants
<1>3. PICK g \in [SUBSET S -> Field] : Recursive(g, S, 0, step, ch)
  <2>1. 0 \in Field /\ \A t \in SUBSET S : t # {} => ch[t] \in t
    BY <1>1, FieldConstants
  <2> HIDE DEF step, ch
  <2> QED BY <1>2, <2>1, Recursion, Zenon
<1>4. \A t \in SUBSET S :
        g[t] = IF t = {} THEN 0 ELSE Add(f[Pick(t)], g[t \ {Pick(t)}])
  <2> TAKE t \in SUBSET S
  <2>1. t \ {Pick(t)} \in SUBSET S /\ ch[t] = Pick(t)
    OBVIOUS
  <2>2. g[t \ {Pick(t)}] \in Field
    BY <2>1
  <2>3. t # {} => step[t][g[t \ {ch[t]}]] = Add(f[Pick(t)], g[t \ {Pick(t)}])
    BY <2>1, <2>2
  <2>4. g[t] = IF t = {} THEN 0 ELSE step[t][g[t \ {ch[t]}]]
    <3> HIDE DEF step, ch
    <3> QED BY <1>3 DEF Recursive
  <2> HIDE DEF step, ch
  <2> QED BY <2>3, <2>4
<1>5. g = [t \in SUBSET S |-> IF t = {} THEN 0 ELSE Add(f[Pick(t)], g[t \ {Pick(t)}])]
  BY <1>4
<1>6. SumIter(f, S) =
        [t \in SUBSET S |->
            IF t = {} THEN 0 ELSE Add(f[Pick(t)], SumIter(f, S)[t \ {Pick(t)}])]
  <2> HIDE DEF step, ch
  <2> QED BY <1>5, Zenon DEF SumIter
<1> QED BY <1>6, Zenon

\* A sum does not depend on the set it is computed within.
LEMMA SumWithin ==
    ASSUME NEW S, IsFiniteSet(S), NEW f, \A x \in S : f[x] \in Field
    PROVE  \A s \in SUBSET S : SumIter(f, S)[s] = Sum(f, s)
<1> DEFINE T == {s \in SUBSET S : \A U \in SUBSET S :
                    s \subseteq U => SumIter(f, U)[s] = SumIter(f, S)[s]}
<1>1. {} \in T
  <2>1. \A U \in SUBSET S : SumIter(f, U)[{}] = 0
    <3> TAKE U \in SUBSET S
    <3>1. IsFiniteSet(U) /\ {} \in SUBSET U /\ \A x \in U : f[x] \in Field
      BY FS_Subset
    <3> QED BY <3>1, SumIterStep
  <2> QED BY <2>1
<1>2. ASSUME NEW s \in SUBSET S, s # {}, \A x \in s : s \ {x} \in T
      PROVE  s \in T
  <2> SUFFICES ASSUME NEW U \in SUBSET S, s \subseteq U
               PROVE  SumIter(f, U)[s] = SumIter(f, S)[s]
    OBVIOUS
  <2>1. s \ {Pick(s)} \in T
    BY <1>2 DEF Pick
  <2>2. SumIter(f, U)[s \ {Pick(s)}] = SumIter(f, S)[s \ {Pick(s)}]
    BY <2>1
  <2>3. IsFiniteSet(U) /\ s \in SUBSET U /\ \A x \in U : f[x] \in Field
    BY FS_Subset
  <2> DEFINE t == s \ {Pick(s)}
  <2>0. s # {}
    BY <1>2
  <2> HIDE DEF T
  <2>4. SumIter(f, U)[s] = Add(f[Pick(s)], SumIter(f, U)[t])
    BY <2>0, <2>3, SumIterStep
  <2>5. SumIter(f, S)[s] = Add(f[Pick(s)], SumIter(f, S)[t])
    BY <2>0, SumIterStep
  <2> QED BY <2>2, <2>4, <2>5
<1>3. \A s \in SUBSET S : s \in T
  <2> HIDE DEF T
  <2> QED BY <1>1, <1>2, SubsetsInductive
<1> SUFFICES ASSUME NEW s \in SUBSET S PROVE SumIter(f, S)[s] = Sum(f, s)
  OBVIOUS
<1>4. SumIter(f, s)[s] = SumIter(f, S)[s]
  BY <1>3
<1> QED BY <1>4, SumIsIter

\* The empty sum is zero.
LEMMA SumEmpty == ASSUME NEW f PROVE Sum(f, {}) = 0
<1>1. IsFiniteSet({}) /\ {} \in SUBSET {} /\ \A x \in {} : f[x] \in Field
  BY FS_EmptySet
<1>2. SumIter(f, {})[{}] = 0
  BY <1>1, SumIterStep
<1> QED BY <1>2, SumIsIter

\* The element that the fold takes first comes out of the sum.
LEMMA SumPick ==
    ASSUME NEW S, IsFiniteSet(S), NEW f, \A x \in S : f[x] \in Field, S # {}
    PROVE  Sum(f, S) = Add(f[Pick(S)], Sum(f, S \ {Pick(S)}))
<1>1. S \in SUBSET S /\ S \ {Pick(S)} \in SUBSET S
  OBVIOUS
<1>2. SumIter(f, S)[S] = Add(f[Pick(S)], SumIter(f, S)[S \ {Pick(S)}])
  BY <1>1, SumIterStep
<1>3. SumIter(f, S)[S] = Sum(f, S) /\ SumIter(f, S)[S \ {Pick(S)}] = Sum(f, S \ {Pick(S)})
  BY <1>1, SumWithin
<1> QED BY <1>2, <1>3

\* A sum of scalars is a scalar.
LEMMA SumInField ==
    ASSUME NEW S, IsFiniteSet(S), NEW f, \A x \in S : f[x] \in Field
    PROVE  Sum(f, S) \in Field
<1> DEFINE T == {s \in SUBSET S : Sum(f, s) \in Field}
<1>1. {} \in T
  BY SumEmpty, FieldConstants
<1>2. ASSUME NEW s \in SUBSET S, s # {}, \A x \in s : s \ {x} \in T
      PROVE  s \in T
  <2>1. Pick(s) \in s /\ Sum(f, s \ {Pick(s)}) \in Field
    BY <1>2 DEF Pick
  <2>2. IsFiniteSet(s)
    BY FS_Subset
  <2>3. Sum(f, s) = Add(f[Pick(s)], Sum(f, s \ {Pick(s)}))
    BY <1>2, <2>2, SumPick
  <2> QED BY <2>1, <2>3, FieldClosed
<1>3. \A s \in SUBSET S : s \in T
  <2> HIDE DEF T
  <2> QED BY <1>1, <1>2, SubsetsInductive
<1> QED BY <1>3

\* A sum is any one of its terms added to the sum of the others.
LEMMA SumTake ==
    ASSUME NEW S, IsFiniteSet(S), NEW f, \A x \in S : f[x] \in Field, NEW x \in S
    PROVE  Sum(f, S) = Add(f[x], Sum(f, S \ {x}))
<1> DEFINE T == {s \in SUBSET S : \A y \in s : Sum(f, s) = Add(f[y], Sum(f, s \ {y}))}
<1>1. {} \in T
  OBVIOUS
<1>2. ASSUME NEW s \in SUBSET S, s # {}, \A y \in s : s \ {y} \in T
      PROVE  s \in T
  <2> SUFFICES ASSUME NEW y \in s PROVE Sum(f, s) = Add(f[y], Sum(f, s \ {y}))
    OBVIOUS
  <2> DEFINE z == Pick(s)
             r == s \ {y, z}
  <2>1. z \in s /\ IsFiniteSet(s) /\ \A t \in SUBSET s : IsFiniteSet(t)
    BY <1>2, FS_Subset DEF Pick
  <2>2. Sum(f, s) = Add(f[z], Sum(f, s \ {z}))
    BY <1>2, <2>1, SumPick
  <2>3. CASE y = z
    BY <2>2, <2>3
  <2>4. CASE y # z
    <3>1. (s \ {z}) \ {y} = r /\ (s \ {y}) \ {z} = r
      OBVIOUS
    <3>2. Sum(f, s \ {z}) = Add(f[y], Sum(f, r))
      BY <1>2, <2>1, <2>4, <3>1
    <3>3. Sum(f, s \ {y}) = Add(f[z], Sum(f, r))
      BY <1>2, <2>1, <2>4, <3>1
    <3>4. f[y] \in Field /\ f[z] \in Field /\ Sum(f, r) \in Field
      BY <2>1, SumInField
    <3> HIDE DEF z, r
    <3>5. Add(f[z], Add(f[y], Sum(f, r))) = Add(f[y], Add(f[z], Sum(f, r)))
      BY <3>4, AddSwap
    <3> QED BY <2>2, <3>2, <3>3, <3>5
  <2> QED BY <2>3, <2>4
<1>3. \A s \in SUBSET S : s \in T
  <2> HIDE DEF T
  <2> QED BY <1>1, <1>2, SubsetsInductive
<1> QED BY <1>3

\* Equal terms have equal sums.
LEMMA SumAgree ==
    ASSUME NEW S, IsFiniteSet(S), NEW f, NEW g, \A x \in S : f[x] \in Field,
           \A x \in S : f[x] = g[x]
    PROVE  Sum(f, S) = Sum(g, S)
<1> DEFINE T == {s \in SUBSET S : Sum(f, s) = Sum(g, s)}
<1>1. {} \in T
  BY SumEmpty
<1>2. ASSUME NEW s \in SUBSET S, s # {}, \A x \in s : s \ {x} \in T
      PROVE  s \in T
  <2>1. Pick(s) \in s /\ IsFiniteSet(s) /\ Sum(f, s \ {Pick(s)}) = Sum(g, s \ {Pick(s)})
    BY <1>2, FS_Subset DEF Pick
  <2>2. Sum(f, s) = Add(f[Pick(s)], Sum(f, s \ {Pick(s)}))
    BY <1>2, <2>1, SumPick
  <2>3. Sum(g, s) = Add(g[Pick(s)], Sum(g, s \ {Pick(s)}))
    BY <1>2, <2>1, SumPick
  <2> QED BY <2>1, <2>2, <2>3
<1>3. \A s \in SUBSET S : s \in T
  <2> HIDE DEF T
  <2> QED BY <1>1, <1>2, SubsetsInductive
<1> QED BY <1>3

\* A sum over one more index has one more term.
LEMMA SumInsert ==
    ASSUME NEW S, IsFiniteSet(S), NEW y, y \notin S, NEW f, \A x \in S \cup {y} : f[x] \in Field
    PROVE  Sum(f, S \cup {y}) = Add(f[y], Sum(f, S))
<1>1. IsFiniteSet(S \cup {y}) /\ (S \cup {y}) \ {y} = S
  BY FS_AddElement
<1>2. Sum(f, S \cup {y}) = Add(f[y], Sum(f, (S \cup {y}) \ {y}))
  BY <1>1, SumTake
<1> QED BY <1>1, <1>2

\* A sum of zeros is zero.
LEMMA SumZero ==
    ASSUME NEW S, IsFiniteSet(S), NEW f, \A x \in S : f[x] = 0
    PROVE  Sum(f, S) = 0
<1> DEFINE T == {s \in SUBSET S : Sum(f, s) = 0}
<1>1. {} \in T
  BY SumEmpty
<1>2. ASSUME NEW s \in SUBSET S, s # {}, \A x \in s : s \ {x} \in T
      PROVE  s \in T
  <2>1. Pick(s) \in s /\ IsFiniteSet(s) /\ Sum(f, s \ {Pick(s)}) = 0
    BY <1>2, FS_Subset DEF Pick
  <2>2. Sum(f, s) = Add(f[Pick(s)], Sum(f, s \ {Pick(s)}))
    BY <1>2, <2>1, FieldConstants, SumPick
  <2> QED BY <2>1, <2>2, FieldNeutral, FieldConstants
<1>3. \A s \in SUBSET S : s \in T
  <2> HIDE DEF T
  <2> QED BY <1>1, <1>2, SubsetsInductive
<1> QED BY <1>3

\* Sums are linear.
LEMMA SumOfSums ==
    ASSUME NEW S, IsFiniteSet(S), NEW f, NEW g, NEW h,
           \A x \in S : f[x] \in Field /\ g[x] \in Field /\ h[x] = Add(f[x], g[x])
    PROVE  Sum(h, S) = Add(Sum(f, S), Sum(g, S))
<1> DEFINE T == {s \in SUBSET S : Sum(h, s) = Add(Sum(f, s), Sum(g, s))}
<1>0. \A x \in S : h[x] \in Field
  BY FieldClosed
<1>1. {} \in T
  BY SumEmpty, FieldConstants, FieldNeutral
<1>2. ASSUME NEW s \in SUBSET S, s # {}, \A x \in s : s \ {x} \in T
      PROVE  s \in T
  <2> DEFINE y == Pick(s)
             F == Sum(f, s \ {y})
             G == Sum(g, s \ {y})
  <2>1. y \in s /\ IsFiniteSet(s) /\ IsFiniteSet(s \ {y}) /\ Sum(h, s \ {y}) = Add(F, G)
    BY <1>2, FS_Subset DEF Pick
  <2>2. /\ Sum(h, s) = Add(h[y], Sum(h, s \ {y}))
        /\ Sum(f, s) = Add(f[y], F) /\ Sum(g, s) = Add(g[y], G)
    BY <1>0, <1>2, <2>1, SumPick
  <2>3. F \in Field /\ G \in Field /\ f[y] \in Field /\ g[y] \in Field
    BY <2>1, SumInField
  <2>4. h[y] = Add(f[y], g[y])
    BY <2>1
  <2> HIDE DEF F, G, y
  <2>5. Add(Add(f[y], g[y]), Add(F, G)) = Add(Add(f[y], F), Add(g[y], G))
    BY <2>3, AddPairs
  <2> QED BY <2>1, <2>2, <2>4, <2>5
<1>3. \A s \in SUBSET S : s \in T
  <2> HIDE DEF T
  <2> QED BY <1>1, <1>2, SubsetsInductive
<1> QED BY <1>3

\* A common factor comes out of a sum.
LEMMA SumScaled ==
    ASSUME NEW S, IsFiniteSet(S), NEW c \in Field, NEW f, NEW h,
           \A x \in S : f[x] \in Field /\ h[x] = Mul(c, f[x])
    PROVE  Sum(h, S) = Mul(c, Sum(f, S))
<1> DEFINE T == {s \in SUBSET S : Sum(h, s) = Mul(c, Sum(f, s))}
<1>0. \A x \in S : h[x] \in Field
  BY FieldClosed
<1>1. {} \in T
  BY SumEmpty, FieldConstants, FieldNeutral
<1>2. ASSUME NEW s \in SUBSET S, s # {}, \A x \in s : s \ {x} \in T
      PROVE  s \in T
  <2> DEFINE y == Pick(s)
             F == Sum(f, s \ {y})
  <2>1. y \in s /\ IsFiniteSet(s) /\ IsFiniteSet(s \ {y}) /\ Sum(h, s \ {y}) = Mul(c, F)
    BY <1>2, FS_Subset DEF Pick
  <2>2. Sum(h, s) = Add(h[y], Sum(h, s \ {y})) /\ Sum(f, s) = Add(f[y], F)
    BY <1>0, <1>2, <2>1, SumPick
  <2>3. F \in Field /\ f[y] \in Field /\ h[y] = Mul(c, f[y])
    BY <2>1, SumInField
  <2> HIDE DEF F, y
  <2>4. Mul(c, Add(f[y], F)) = Add(Mul(c, f[y]), Mul(c, F))
    BY <2>3, Distributes
  <2> QED BY <2>1, <2>2, <2>3, <2>4
<1>3. \A s \in SUBSET S : s \in T
  <2> HIDE DEF T
  <2> QED BY <1>1, <1>2, SubsetsInductive
<1> QED BY <1>3

\* The order of two sums can be exchanged.
LEMMA SumExchange ==
    ASSUME NEW A, IsFiniteSet(A), NEW B, IsFiniteSet(B), NEW F,
           \A x \in A, y \in B : F[x][y] \in Field
    PROVE  Sum([x \in A |-> Sum(F[x], B)], A) = Sum([y \in B |-> Sum([x \in A |-> F[x][y]], A)], B)
<1> DEFINE Rows == [x \in A |-> Sum(F[x], B)]
           Column(y) == [x \in A |-> F[x][y]]
           Columns(s) == [y \in B |-> Sum(Column(y), s)]
           T == {s \in SUBSET A : Sum(Rows, s) = Sum(Columns(s), B)}
<1>1. \A x \in A : Rows[x] \in Field
  BY SumInField
<1>2. \A s \in SUBSET A : IsFiniteSet(s)
  BY FS_Subset
<1>3. ASSUME NEW s \in SUBSET A, NEW y \in B PROVE Columns(s)[y] \in Field
  <2>1. \A x \in s : Column(y)[x] \in Field
    OBVIOUS
  <2>2. Columns(s)[y] = Sum(Column(y), s)
    OBVIOUS
  <2> HIDE DEF Column, Columns
  <2> QED BY <1>2, <2>1, <2>2, SumInField
<1>4. {} \in T
  <2>1. \A y \in B : Columns({})[y] = 0
    BY SumEmpty
  <2>2. Sum(Columns({}), B) = 0
    <3> HIDE DEF Columns
    <3> QED BY <2>1, SumZero
  <2> QED BY <2>2, SumEmpty
<1>5. ASSUME NEW s \in SUBSET A, s # {}, \A x \in s : s \ {x} \in T
      PROVE  s \in T
  <2> DEFINE z == Pick(s)
             r == s \ {z}
  <2>1. z \in s /\ r \in SUBSET A /\ r \in T
    BY <1>5 DEF Pick
  <2>2. Sum(Rows, s) = Add(Rows[z], Sum(Rows, r))
    <3> HIDE DEF Rows
    <3> QED BY <1>1, <1>2, <1>5, SumPick
  <2>3. \A y \in B : /\ F[z][y] \in Field /\ Columns(r)[y] \in Field
                     /\ Columns(s)[y] = Add(F[z][y], Columns(r)[y])
    <3> TAKE y \in B
    <3>1. \A x \in s : Column(y)[x] \in Field
      OBVIOUS
    <3>2. Sum(Column(y), s) = Add(Column(y)[z], Sum(Column(y), r))
      <4> HIDE DEF Column
      <4> QED BY <1>2, <1>5, <3>1, SumPick
    <3>3. Column(y)[z] = F[z][y] /\ F[z][y] \in Field
      BY <2>1
    <3>4. Columns(s)[y] = Sum(Column(y), s) /\ Columns(r)[y] = Sum(Column(y), r)
      OBVIOUS
    <3>5. Columns(r)[y] \in Field
      BY <1>3, <2>1
    <3> HIDE DEF Columns, Column, z, r
    <3> QED BY <3>2, <3>3, <3>4, <3>5
  <2>4. Sum(Columns(s), B) = Add(Sum(F[z], B), Sum(Columns(r), B))
    <3> HIDE DEF Columns, z, r
    <3> QED BY <2>3, SumOfSums
  <2>5. Rows[z] = Sum(F[z], B) /\ Sum(Rows, r) = Sum(Columns(r), B)
    BY <2>1
  <2> HIDE DEF Rows, Columns, z, r
  <2>6. Sum(Rows, s) = Sum(Columns(s), B)
    BY <2>2, <2>4, <2>5
  <2> QED BY <2>6
<1>6. \A s \in SUBSET A : s \in T
  <2> HIDE DEF T
  <2> QED BY <1>4, <1>5, SubsetsInductive
<1>7. A \in T
  BY <1>6
<1> QED BY <1>7

\* h takes each member of S once over the finite A, and g has what f has there.
Reindexes(h, A, S, f, g) ==
    /\ IsFiniteSet(A)
    /\ \A x \in A : h[x] \in S /\ f[h[x]] \in Field /\ g[x] = f[h[x]]
    /\ \A x, y \in A : h[x] = h[y] => x = y
    /\ \A s \in S : \E x \in A : s = h[x]

\* A sum over the values of a one-to-one h is a sum over its arguments.
LEMMA SumReindexed ==
    ASSUME NEW A, NEW h, NEW S, NEW f, NEW g, Reindexes(h, A, S, f, g)
    PROVE  Sum(f, S) = Sum(g, A)
<1> USE DEF Reindexes
<1> DEFINE I(s) == {h[x] : x \in s}
           T == {s \in SUBSET A : Sum(f, I(s)) = Sum(g, s)}
<1>1. {} \in T
  <2>1. I({}) = {}
    OBVIOUS
  <2> QED BY <2>1, SumEmpty
<1>2. ASSUME NEW s \in SUBSET A, s # {}, \A x \in s : s \ {x} \in T
      PROVE  s \in T
  <2> DEFINE z == Pick(s)
             r == s \ {z}
  <2>1. z \in s /\ r \in SUBSET A /\ r \in T /\ IsFiniteSet(s)
    BY <1>2, FS_Subset DEF Pick
  <2>2. Sum(g, s) = Add(g[z], Sum(g, r))
    <3>1. \A x \in s : g[x] \in Field
      OBVIOUS
    <3> QED BY <1>2, <2>1, <3>1, SumPick
  <2>3. h[z] \in I(s) /\ I(s) \ {h[z]} = I(r)
    BY <2>1
  <2>4. IsFiniteSet(I(s))
    BY <2>1, FiniteImage
  <2>5. \A v \in I(s) : f[v] \in Field
    BY <2>1
  <2>6. Sum(f, I(s)) = Add(f[h[z]], Sum(f, I(s) \ {h[z]}))
    <3> HIDE DEF I, z
    <3> QED BY <2>3, <2>4, <2>5, SumTake
  <2>7. g[z] = f[h[z]] /\ Sum(f, I(r)) = Sum(g, r)
    BY <2>1
  <2> HIDE DEF I, z, r
  <2>8. Sum(f, I(s)) = Sum(g, s)
    BY <2>2, <2>3, <2>6, <2>7
  <2> QED BY <2>8
<1>3. \A s \in SUBSET A : s \in T
  <2> HIDE DEF T
  <2> QED BY <1>1, <1>2, SubsetsInductive
<1>4. A \in T /\ S = I(A)
  BY <1>3
<1> QED BY <1>4

-----------------------------------------------------------------------------
(* Products *)

\* The recursive function in the definition of Product
ProductIter(f, S) ==
    CHOOSE iter : iter =
        [s \in SUBSET S |-> IF s = {} THEN 1 ELSE Mul(f[Pick(s)], iter[s \ {Pick(s)}])]

\* A product is the value of that function at the whole set.
LEMMA ProductIsIter ==
    ASSUME NEW f, NEW S
    PROVE  Product(f, S) = ProductIter(f, S)[S]
BY DEF Product, FoldFunctionOnSet, MapThenFoldSet, ProductIter, Pick

\* The function exists, and so it satisfies its equation.
LEMMA ProductIterStep ==
    ASSUME NEW S, IsFiniteSet(S), NEW f, \A x \in S : f[x] \in Field, NEW s \in SUBSET S
    PROVE  ProductIter(f, S)[s] =
             IF s = {} THEN 1 ELSE Mul(f[Pick(s)], ProductIter(f, S)[s \ {Pick(s)}])
<1> DEFINE step == [t \in SUBSET S |-> [v \in Field |-> IF t = {} THEN 1 ELSE Mul(f[Pick(t)], v)]]
           ch == [t \in SUBSET S |-> Pick(t)]
<1>1. \A t \in SUBSET S : t # {} => Pick(t) \in t
  BY DEF Pick
<1>2. step \in [SUBSET S -> [Field -> Field]]
  BY <1>1, FieldClosed, FieldConstants
<1>3. PICK g \in [SUBSET S -> Field] : Recursive(g, S, 1, step, ch)
  <2>1. 1 \in Field /\ \A t \in SUBSET S : t # {} => ch[t] \in t
    BY <1>1, FieldConstants
  <2> HIDE DEF step, ch
  <2> QED BY <1>2, <2>1, Recursion, Zenon
<1>4. \A t \in SUBSET S :
        g[t] = IF t = {} THEN 1 ELSE Mul(f[Pick(t)], g[t \ {Pick(t)}])
  <2> TAKE t \in SUBSET S
  <2>1. t \ {Pick(t)} \in SUBSET S /\ ch[t] = Pick(t)
    OBVIOUS
  <2>2. g[t \ {Pick(t)}] \in Field
    BY <2>1
  <2>3. t # {} => step[t][g[t \ {ch[t]}]] = Mul(f[Pick(t)], g[t \ {Pick(t)}])
    BY <2>1, <2>2
  <2>4. g[t] = IF t = {} THEN 1 ELSE step[t][g[t \ {ch[t]}]]
    <3> HIDE DEF step, ch
    <3> QED BY <1>3 DEF Recursive
  <2> HIDE DEF step, ch
  <2> QED BY <2>3, <2>4
<1>5. g = [t \in SUBSET S |-> IF t = {} THEN 1 ELSE Mul(f[Pick(t)], g[t \ {Pick(t)}])]
  BY <1>4
<1>6. ProductIter(f, S) =
        [t \in SUBSET S |->
            IF t = {} THEN 1 ELSE Mul(f[Pick(t)], ProductIter(f, S)[t \ {Pick(t)}])]
  <2> HIDE DEF step, ch
  <2> QED BY <1>5, Zenon DEF ProductIter
<1> QED BY <1>6, Zenon

\* A product does not depend on the set it is computed within.
LEMMA ProductWithin ==
    ASSUME NEW S, IsFiniteSet(S), NEW f, \A x \in S : f[x] \in Field
    PROVE  \A s \in SUBSET S : ProductIter(f, S)[s] = Product(f, s)
<1> DEFINE T == {s \in SUBSET S : \A U \in SUBSET S :
                    s \subseteq U => ProductIter(f, U)[s] = ProductIter(f, S)[s]}
<1>1. {} \in T
  <2>1. \A U \in SUBSET S : ProductIter(f, U)[{}] = 1
    <3> TAKE U \in SUBSET S
    <3>1. IsFiniteSet(U) /\ {} \in SUBSET U /\ \A x \in U : f[x] \in Field
      BY FS_Subset
    <3> QED BY <3>1, ProductIterStep
  <2> QED BY <2>1
<1>2. ASSUME NEW s \in SUBSET S, s # {}, \A x \in s : s \ {x} \in T
      PROVE  s \in T
  <2> SUFFICES ASSUME NEW U \in SUBSET S, s \subseteq U
               PROVE  ProductIter(f, U)[s] = ProductIter(f, S)[s]
    OBVIOUS
  <2>1. s \ {Pick(s)} \in T
    BY <1>2 DEF Pick
  <2>2. ProductIter(f, U)[s \ {Pick(s)}] = ProductIter(f, S)[s \ {Pick(s)}]
    BY <2>1
  <2>3. IsFiniteSet(U) /\ s \in SUBSET U /\ \A x \in U : f[x] \in Field
    BY FS_Subset
  <2> DEFINE t == s \ {Pick(s)}
  <2>0. s # {}
    BY <1>2
  <2> HIDE DEF T
  <2>4. ProductIter(f, U)[s] = Mul(f[Pick(s)], ProductIter(f, U)[t])
    BY <2>0, <2>3, ProductIterStep
  <2>5. ProductIter(f, S)[s] = Mul(f[Pick(s)], ProductIter(f, S)[t])
    BY <2>0, ProductIterStep
  <2> QED BY <2>2, <2>4, <2>5
<1>3. \A s \in SUBSET S : s \in T
  <2> HIDE DEF T
  <2> QED BY <1>1, <1>2, SubsetsInductive
<1> SUFFICES ASSUME NEW s \in SUBSET S PROVE ProductIter(f, S)[s] = Product(f, s)
  OBVIOUS
<1>4. ProductIter(f, s)[s] = ProductIter(f, S)[s]
  BY <1>3
<1> QED BY <1>4, ProductIsIter

\* The empty product is one.
LEMMA ProductEmpty == ASSUME NEW f PROVE Product(f, {}) = 1
<1>1. IsFiniteSet({}) /\ {} \in SUBSET {} /\ \A x \in {} : f[x] \in Field
  BY FS_EmptySet
<1>2. ProductIter(f, {})[{}] = 1
  BY <1>1, ProductIterStep
<1> QED BY <1>2, ProductIsIter

\* The element that the fold takes first comes out of the product.
LEMMA ProductPick ==
    ASSUME NEW S, IsFiniteSet(S), NEW f, \A x \in S : f[x] \in Field, S # {}
    PROVE  Product(f, S) = Mul(f[Pick(S)], Product(f, S \ {Pick(S)}))
<1>1. S \in SUBSET S /\ S \ {Pick(S)} \in SUBSET S
  OBVIOUS
<1>2. ProductIter(f, S)[S] = Mul(f[Pick(S)], ProductIter(f, S)[S \ {Pick(S)}])
  BY <1>1, ProductIterStep
<1>3. ProductIter(f, S)[S] = Product(f, S) /\ ProductIter(f, S)[S \ {Pick(S)}] = Product(f, S \ {Pick(S)})
  BY <1>1, ProductWithin
<1> QED BY <1>2, <1>3

\* A product of scalars is a scalar.
LEMMA ProductInField ==
    ASSUME NEW S, IsFiniteSet(S), NEW f, \A x \in S : f[x] \in Field
    PROVE  Product(f, S) \in Field
<1> DEFINE T == {s \in SUBSET S : Product(f, s) \in Field}
<1>1. {} \in T
  BY ProductEmpty, FieldConstants
<1>2. ASSUME NEW s \in SUBSET S, s # {}, \A x \in s : s \ {x} \in T
      PROVE  s \in T
  <2>1. Pick(s) \in s /\ Product(f, s \ {Pick(s)}) \in Field
    BY <1>2 DEF Pick
  <2>2. IsFiniteSet(s)
    BY FS_Subset
  <2>3. Product(f, s) = Mul(f[Pick(s)], Product(f, s \ {Pick(s)}))
    BY <1>2, <2>2, ProductPick
  <2> QED BY <2>1, <2>3, FieldClosed
<1>3. \A s \in SUBSET S : s \in T
  <2> HIDE DEF T
  <2> QED BY <1>1, <1>2, SubsetsInductive
<1> QED BY <1>3

\* A product is any one of its factors times the product of the others.
LEMMA ProductTake ==
    ASSUME NEW S, IsFiniteSet(S), NEW f, \A x \in S : f[x] \in Field, NEW x \in S
    PROVE  Product(f, S) = Mul(f[x], Product(f, S \ {x}))
<1> DEFINE T == {s \in SUBSET S : \A y \in s : Product(f, s) = Mul(f[y], Product(f, s \ {y}))}
<1>1. {} \in T
  OBVIOUS
<1>2. ASSUME NEW s \in SUBSET S, s # {}, \A y \in s : s \ {y} \in T
      PROVE  s \in T
  <2> SUFFICES ASSUME NEW y \in s PROVE Product(f, s) = Mul(f[y], Product(f, s \ {y}))
    OBVIOUS
  <2> DEFINE z == Pick(s)
             r == s \ {y, z}
  <2>1. z \in s /\ IsFiniteSet(s) /\ \A t \in SUBSET s : IsFiniteSet(t)
    BY <1>2, FS_Subset DEF Pick
  <2>2. Product(f, s) = Mul(f[z], Product(f, s \ {z}))
    BY <1>2, <2>1, ProductPick
  <2>3. CASE y = z
    BY <2>2, <2>3
  <2>4. CASE y # z
    <3>1. (s \ {z}) \ {y} = r /\ (s \ {y}) \ {z} = r
      OBVIOUS
    <3>2. Product(f, s \ {z}) = Mul(f[y], Product(f, r))
      BY <1>2, <2>1, <2>4, <3>1
    <3>3. Product(f, s \ {y}) = Mul(f[z], Product(f, r))
      BY <1>2, <2>1, <2>4, <3>1
    <3>4. f[y] \in Field /\ f[z] \in Field /\ Product(f, r) \in Field
      BY <2>1, ProductInField
    <3> HIDE DEF z, r
    <3>5. Mul(f[z], Mul(f[y], Product(f, r))) = Mul(f[y], Mul(f[z], Product(f, r)))
      BY <3>4, MulSwap
    <3> QED BY <2>2, <3>2, <3>3, <3>5
  <2> QED BY <2>3, <2>4
<1>3. \A s \in SUBSET S : s \in T
  <2> HIDE DEF T
  <2> QED BY <1>1, <1>2, SubsetsInductive
<1> QED BY <1>3

\* Equal factors have equal products.
LEMMA ProductAgree ==
    ASSUME NEW S, IsFiniteSet(S), NEW f, NEW g, \A x \in S : f[x] \in Field,
           \A x \in S : f[x] = g[x]
    PROVE  Product(f, S) = Product(g, S)
<1> DEFINE T == {s \in SUBSET S : Product(f, s) = Product(g, s)}
<1>1. {} \in T
  BY ProductEmpty
<1>2. ASSUME NEW s \in SUBSET S, s # {}, \A x \in s : s \ {x} \in T
      PROVE  s \in T
  <2>1. Pick(s) \in s /\ IsFiniteSet(s) /\ Product(f, s \ {Pick(s)}) = Product(g, s \ {Pick(s)})
    BY <1>2, FS_Subset DEF Pick
  <2>2. Product(f, s) = Mul(f[Pick(s)], Product(f, s \ {Pick(s)}))
    BY <1>2, <2>1, ProductPick
  <2>3. Product(g, s) = Mul(g[Pick(s)], Product(g, s \ {Pick(s)}))
    BY <1>2, <2>1, ProductPick
  <2> QED BY <2>1, <2>2, <2>3
<1>3. \A s \in SUBSET S : s \in T
  <2> HIDE DEF T
  <2> QED BY <1>1, <1>2, SubsetsInductive
<1> QED BY <1>3

\* A product over one more index has one more factor.
LEMMA ProductInsert ==
    ASSUME NEW S, IsFiniteSet(S), NEW y, y \notin S, NEW f, \A x \in S \cup {y} : f[x] \in Field
    PROVE  Product(f, S \cup {y}) = Mul(f[y], Product(f, S))
<1>1. IsFiniteSet(S \cup {y}) /\ (S \cup {y}) \ {y} = S
  BY FS_AddElement
<1>2. Product(f, S \cup {y}) = Mul(f[y], Product(f, (S \cup {y}) \ {y}))
  BY <1>1, ProductTake
<1> QED BY <1>1, <1>2

-----------------------------------------------------------------------------
(* Powers *)

\* x to the power n
Power(x, n) == Product([i \in Nat |-> x], 1 .. n)

\* Powers are scalars and satisfy the recursion.
LEMMA Powers ==
    ASSUME NEW x \in Field, NEW n \in Nat
    PROVE  /\ Power(x, n) \in Field
           /\ Power(x, 0) = 1
           /\ Power(x, n + 1) = Mul(x, Power(x, n))
<1> DEFINE f == [i \in Nat |-> x]
<1>1. IsFiniteSet(1 .. n) /\ n + 1 \notin 1 .. n
  BY FS_Interval
<1>2. \A i \in 1 .. n : f[i] \in Field
  OBVIOUS
<1>3. \A i \in (1 .. n) \cup {n + 1} : f[i] \in Field
  OBVIOUS
<1>4. f[n + 1] = x
  OBVIOUS
<1>5. 1 .. 0 = {} /\ 1 .. (n + 1) = (1 .. n) \cup {n + 1}
  OBVIOUS
<1> HIDE DEF f
<1>6. Product(f, 1 .. n) \in Field
  BY <1>1, <1>2, ProductInField
<1>7. Product(f, (1 .. n) \cup {n + 1}) = Mul(f[n + 1], Product(f, 1 .. n))
  BY <1>1, <1>3, ProductInsert
<1>8. Product(f, {}) = 1
  BY ProductEmpty
<1>9. \A m : Power(x, m) = Product(f, 1 .. m)
  BY DEF Power, f
<1> QED BY <1>4, <1>5, <1>6, <1>7, <1>8, <1>9

\* Zero to the power zero is one, as in the constant term of a polynomial.
LEMMA PowersOfZero ==
    ASSUME NEW n \in Nat
    PROVE  Power(0, n) = IF n = 0 THEN 1 ELSE 0
<1>1. CASE n = 0
  BY <1>1, FieldConstants, Powers
<1>2. CASE n # 0
  <2>1. n - 1 \in Nat /\ (n - 1) + 1 = n
    BY <1>2
  <2>2. Power(0, n) = Mul(0, Power(0, n - 1)) /\ Power(0, n - 1) \in Field
    BY <2>1, FieldConstants, Powers
  <2> QED BY <1>2, <2>2, FieldNeutral
<1> QED BY <1>1, <1>2

-----------------------------------------------------------------------------
(* Divided differences *)

\* The product of the differences between the other points and the i-th
Spread(x, I, i) == Product([j \in I |-> Minus(x[j], x[i])], I \ {i})

\* The divided difference of the values f over the points x
Divided(x, I, f) == Sum([i \in I |-> Mul(Invert(Spread(x, I, i)), f[i])], I)

\* Finitely many points in the field, no two of them equal
DistinctPoints(x, I) ==
    /\ IsFiniteSet(I)
    /\ \A i \in I : x[i] \in Field
    /\ \A i, j \in I : x[i] = x[j] => i = j

\* A product is zero only if a factor is.
LEMMA ProductNonzero ==
    ASSUME NEW S, IsFiniteSet(S), NEW f, \A y \in S : f[y] \in Field
    PROVE  Product(f, S) # 0 <=> \A y \in S : f[y] # 0
<1> DEFINE T == {s \in SUBSET S : Product(f, s) # 0 <=> \A y \in s : f[y] # 0}
<1>1. {} \in T
  BY ProductEmpty, FieldConstants
<1>2. ASSUME NEW s \in SUBSET S, s # {}, \A y \in s : s \ {y} \in T
      PROVE  s \in T
  <2> DEFINE z == Pick(s)
             r == s \ {z}
  <2>1. z \in s /\ r \in T /\ IsFiniteSet(s) /\ IsFiniteSet(r)
    BY <1>2, FS_Subset DEF Pick
  <2>2. Product(f, s) = Mul(f[z], Product(f, r))
    BY <1>2, <2>1, ProductPick
  <2>3. Product(f, r) \in Field /\ f[z] \in Field
    BY <2>1, ProductInField
  <2>4. Product(f, s) # 0 <=> f[z] # 0 /\ Product(f, r) # 0
    <3> HIDE DEF z, r
    <3> QED BY <2>2, <2>3, FieldNeutral, NoZeroDivisors
  <2>5. Product(f, r) # 0 <=> \A y \in r : f[y] # 0
    BY <2>1
  <2> QED BY <2>1, <2>4, <2>5
<1>3. \A s \in SUBSET S : s \in T
  <2> HIDE DEF T
  <2> QED BY <1>1, <1>2, SubsetsInductive
<1> QED BY <1>3

\* Distinct points have differences other than zero.
LEMMA SpreadNonzero ==
    ASSUME NEW x, NEW I, DistinctPoints(x, I), NEW i \in I
    PROVE  Spread(x, I, i) \in Field /\ Spread(x, I, i) # 0
<1> DEFINE f == [j \in I |-> Minus(x[j], x[i])]
<1>1. IsFiniteSet(I \ {i})
  BY FS_Subset DEF DistinctPoints
<1>2. \A j \in I \ {i} : f[j] \in Field /\ f[j] # 0
  <2> TAKE j \in I \ {i}
  <2>1. x[i] \in Field /\ x[j] \in Field /\ x[i] # x[j]
    BY DEF DistinctPoints
  <2>2. Minus(x[j], x[i]) \in Field /\ Minus(x[j], x[i]) # 0
    BY <2>1, FieldClosed, MinusZero
  <2> QED BY <2>2
<1>3. Spread(x, I, i) = Product(f, I \ {i})
  BY DEF Spread
<1> HIDE DEF f
<1> QED BY <1>1, <1>2, <1>3, ProductInField, ProductNonzero

\* Without the n-th point, a product of differences lacks one factor.
LEMMA SpreadWithout ==
    ASSUME NEW x, NEW I, DistinctPoints(x, I), NEW n \in I, NEW i \in I, i # n
    PROVE  Spread(x, I, i) = Mul(Minus(x[n], x[i]), Spread(x, I \ {n}, i))
<1> DEFINE f == [j \in I |-> Minus(x[j], x[i])]
           g == [j \in I \ {n} |-> Minus(x[j], x[i])]
           R == (I \ {i}) \ {n}
<1>1. \A j \in I : f[j] \in Field
  BY FieldClosed DEF DistinctPoints
<1>2. IsFiniteSet(I \ {i}) /\ n \in I \ {i} /\ IsFiniteSet(R) /\ R = (I \ {n}) \ {i}
  BY FS_Subset DEF DistinctPoints
<1>3. Product(f, I \ {i}) = Mul(f[n], Product(f, R))
  <2> HIDE DEF f
  <2> QED BY <1>1, <1>2, ProductTake
<1>4. Product(f, R) = Product(g, R)
  <2>1. \A j \in R : f[j] = g[j]
    OBVIOUS
  <2>2. \A j \in R : f[j] \in Field
    BY <1>1
  <2> HIDE DEF f, g, R
  <2> QED BY <1>2, <2>1, <2>2, ProductAgree
<1>5. Spread(x, I, i) = Product(f, I \ {i}) /\ Spread(x, I \ {n}, i) = Product(g, R)
  BY <1>2 DEF Spread
<1>6. f[n] = Minus(x[n], x[i])
  OBVIOUS
<1> QED BY <1>3, <1>4, <1>5, <1>6

\* A factor cancels in the inverse of a product.
LEMMA InvertProduct ==
    ASSUME NEW a \in Field, NEW b \in Field, a # 0, b # 0
    PROVE  Mul(Invert(Mul(a, b)), a) = Invert(b)
<1> DEFINE ab == Mul(a, b)
           c == Invert(ab)
<1>1. ab \in Field /\ ab # 0
  BY FieldClosed, NoZeroDivisors
<1>2. c \in Field /\ Mul(ab, c) = 1 /\ Invert(b) \in Field /\ Mul(b, Invert(b)) = 1
  BY <1>1, NonzeroInverts
<1>3. Mul(c, a) \in Field
  BY <1>2, FieldClosed
<1>4. Mul(b, Mul(c, a)) = 1
  <2>1. Mul(b, Mul(c, a)) = Mul(c, Mul(b, a))
    BY <1>2, MulSwap
  <2>2. Mul(b, a) = ab
    BY FieldCommutes
  <2>3. Mul(c, ab) = Mul(ab, c)
    BY <1>1, <1>2, FieldCommutes
  <2> HIDE DEF c, ab
  <2> QED BY <1>2, <2>1, <2>2, <2>3
<1> QED BY <1>2, <1>3, <1>4, Cancels

\* The terms of a divided difference are scalars.
LEMMA TermsInField ==
    ASSUME NEW x, NEW I, DistinctPoints(x, I), NEW f, \A i \in I : f[i] \in Field
    PROVE  /\ \A i \in I : Mul(Invert(Spread(x, I, i)), f[i]) \in Field
           /\ Divided(x, I, f) \in Field
<1> DEFINE t == [i \in I |-> Mul(Invert(Spread(x, I, i)), f[i])]
<1>1. \A i \in I : Mul(Invert(Spread(x, I, i)), f[i]) \in Field
  BY SpreadNonzero, NonzeroInverts, FieldClosed
<1>2. \A i \in I : t[i] \in Field
  BY <1>1
<1>3. Divided(x, I, f) = Sum(t, I)
  BY DEF Divided
<1>4. Sum(t, I) \in Field
  <2> HIDE DEF t
  <2> QED BY <1>2, SumInField DEF DistinctPoints
<1> QED BY <1>1, <1>3, <1>4

\* Values that differ by a factor of x[n] - x[i] have the divided difference
\* without the n-th point.
LEMMA DividedWithout ==
    ASSUME NEW x, NEW I, DistinctPoints(x, I), NEW n \in I,
           NEW f, \A i \in I : f[i] \in Field,
           NEW g, \A i \in I : g[i] = Mul(Minus(x[n], x[i]), f[i])
    PROVE  Divided(x, I, g) = Divided(x, I \ {n}, f)
<1> DEFINE J == I \ {n}
           t == [i \in I |-> Mul(Invert(Spread(x, I, i)), g[i])]
           u == [i \in J |-> Mul(Invert(Spread(x, J, i)), f[i])]
<1>1. DistinctPoints(x, J)
  BY FS_Subset DEF DistinctPoints
<1>2. \A i \in I : g[i] \in Field
  BY FieldClosed DEF DistinctPoints
<1>3. \A i \in I : t[i] \in Field
  BY <1>2, TermsInField
<1>4. \A i \in J : u[i] \in Field /\ u[i] = t[i]
  <2> TAKE i \in J
  <2> DEFINE a == Minus(x[n], x[i])
             s == Spread(x, J, i)
  <2>1. a \in Field /\ a # 0
    BY FieldClosed, MinusZero DEF DistinctPoints
  <2>2. s \in Field /\ s # 0 /\ Invert(s) \in Field
    BY <1>1, SpreadNonzero, NonzeroInverts
  <2>3. Spread(x, I, i) = Mul(a, s)
    BY SpreadWithout
  <2>4. Invert(Mul(a, s)) \in Field
    BY <2>3, SpreadNonzero, NonzeroInverts
  <2>5. Mul(Invert(Mul(a, s)), Mul(a, f[i])) = Mul(Mul(Invert(Mul(a, s)), a), f[i])
    BY <2>1, <2>4, MulAssociates
  <2>6. Mul(Invert(Mul(a, s)), a) = Invert(s)
    BY <2>1, <2>2, InvertProduct
  <2>7. t[i] = Mul(Invert(Mul(a, s)), Mul(a, f[i])) /\ u[i] = Mul(Invert(s), f[i])
    BY <2>3
  <2> HIDE DEF t, u, a, s
  <2> QED BY <2>2, <2>5, <2>6, <2>7, FieldClosed
<1>5. t[n] = 0
  <2>1. x[n] \in Field /\ Minus(x[n], x[n]) = 0 /\ f[n] \in Field
    BY MinusZero DEF DistinctPoints
  <2>2. g[n] = 0
    BY <2>1, FieldNeutral
  <2>3. Invert(Spread(x, I, n)) \in Field
    BY SpreadNonzero, NonzeroInverts
  <2> QED BY <2>2, <2>3, FieldNeutral
<1>6. Sum(t, I) = Add(t[n], Sum(t, J)) /\ Sum(t, J) = Sum(u, J) /\ Sum(u, J) \in Field
  <2>1. IsFiniteSet(I) /\ IsFiniteSet(J)
    BY <1>1 DEF DistinctPoints
  <2>2. \A i \in J : t[i] \in Field
    BY <1>3
  <2> HIDE DEF t, u
  <2>3. Sum(t, I) = Add(t[n], Sum(t, J))
    BY <1>3, <2>1, SumTake
  <2>4. Sum(t, J) = Sum(u, J)
    BY <1>4, <2>1, <2>2, SumAgree
  <2> QED BY <1>4, <2>1, <2>3, <2>4, SumInField
<1>7. Divided(x, I, g) = Sum(t, I) /\ Divided(x, J, f) = Sum(u, J)
  BY DEF Divided
<1> HIDE DEF t, u
<1> QED BY <1>5, <1>6, <1>7, FieldNeutral

\* Divided differences are linear.
LEMMA DividedLinear ==
    ASSUME NEW x, NEW I, DistinctPoints(x, I), NEW c \in Field,
           NEW f, NEW g, \A i \in I : f[i] \in Field /\ g[i] \in Field,
           NEW h, \A i \in I : h[i] = Add(Mul(c, f[i]), g[i])
    PROVE  Divided(x, I, h) = Add(Mul(c, Divided(x, I, f)), Divided(x, I, g))
<1> DEFINE w(i) == Invert(Spread(x, I, i))
           F == [i \in I |-> Mul(w(i), f[i])]
           G == [i \in I |-> Mul(w(i), g[i])]
           H == [i \in I |-> Mul(w(i), h[i])]
           C == [i \in I |-> Mul(c, F[i])]
<1>1. \A i \in I : /\ F[i] \in Field /\ G[i] \in Field /\ C[i] \in Field
                   /\ C[i] = Mul(c, F[i]) /\ H[i] = Add(C[i], G[i])
  <2> TAKE i \in I
  <2>1. w(i) \in Field
    BY SpreadNonzero, NonzeroInverts
  <2>2. f[i] \in Field /\ g[i] \in Field /\ Mul(c, f[i]) \in Field /\ Mul(w(i), f[i]) \in Field
    BY <2>1, FieldClosed
  <2>3. Mul(w(i), Add(Mul(c, f[i]), g[i])) =
            Add(Mul(w(i), Mul(c, f[i])), Mul(w(i), g[i]))
    BY <2>1, <2>2, Distributes
  <2>4. Mul(w(i), Mul(c, f[i])) = Mul(c, Mul(w(i), f[i]))
    BY <2>1, <2>2, MulSwap
  <2>5. h[i] = Add(Mul(c, f[i]), g[i])
    OBVIOUS
  <2>6. H[i] = Mul(w(i), h[i]) /\ C[i] = Mul(c, Mul(w(i), f[i])) /\ G[i] = Mul(w(i), g[i])
        /\ F[i] = Mul(w(i), f[i]) /\ C[i] = Mul(c, F[i])
    OBVIOUS
  <2>7. Mul(w(i), g[i]) \in Field /\ Mul(c, Mul(w(i), f[i])) \in Field
    BY <2>1, <2>2, FieldClosed
  <2> HIDE DEF w, F, G, H, C
  <2> QED BY <2>2, <2>3, <2>4, <2>5, <2>6, <2>7
<1>2. Divided(x, I, f) = Sum(F, I) /\ Divided(x, I, g) = Sum(G, I) /\ Divided(x, I, h) = Sum(H, I)
  BY DEF Divided
<1> HIDE DEF w, F, G, H, C
<1>3. Sum(C, I) = Mul(c, Sum(F, I))
  BY <1>1, SumScaled DEF DistinctPoints
<1>4. Sum(H, I) = Add(Sum(C, I), Sum(G, I))
  BY <1>1, SumOfSums DEF DistinctPoints
<1> QED BY <1>2, <1>3, <1>4

\* The divided difference of a constant: itself at one point, zero at more.
LEMMA DividedOne ==
    ASSUME NEW x, NEW I, DistinctPoints(x, I), I # {}, NEW f, \A i \in I : f[i] = 1
    PROVE  Divided(x, I, f) = IF Cardinality(I) = 1 THEN 1 ELSE 0
<1> DEFINE D(s) == Divided(x, s, f)
           T == {s \in SUBSET I : s # {} => D(s) = IF Cardinality(s) = 1 THEN 1 ELSE 0}
<1>1. {} \in T
  OBVIOUS
<1>2. ASSUME NEW s \in SUBSET I, s # {}, \A u \in s : s \ {u} \in T
      PROVE  s \in T
  <2>1. DistinctPoints(x, s) /\ IsFiniteSet(s) /\ Cardinality(s) \in Nat \ {0}
    BY <1>2, FS_Subset, FS_EmptySet, FS_CardinalityType DEF DistinctPoints
  <2>2. \A i \in s : f[i] \in Field
    BY FieldConstants
  <2>3. CASE Cardinality(s) = 1
    <3>1. PICK u : s = {u}
      BY <2>1, <2>3, FS_Singleton
    <3> DEFINE t == [i \in s |-> Mul(Invert(Spread(x, s, i)), f[i])]
    <3>2. s \ {u} = {} /\ t[u] = Mul(Invert(Spread(x, s, u)), 1)
      BY <3>1
    <3>3. Spread(x, s, u) = 1
      BY <3>2, ProductEmpty DEF Spread
    <3>4. Invert(1) = 1
      <4>1. Invert(1) \in Field /\ Mul(1, Invert(1)) = 1
        BY FieldConstants, NonzeroInverts
      <4> QED BY <4>1, FieldNeutral
    <3>5. t[u] = 1
      BY <3>2, <3>3, <3>4, FieldConstants, FieldNeutral
    <3>6. D(s) = Sum(t, s)
      BY DEF Divided
    <3>7. Sum(t, s) = Add(t[u], Sum(t, s \ {u}))
      <4>1. \A i \in s : t[i] \in Field
        BY <3>1, <3>5, FieldConstants
      <4> HIDE DEF t
      <4> QED BY <2>1, <3>1, <4>1, SumTake
    <3> HIDE DEF t
    <3>8. D(s) = 1
      BY <3>2, <3>5, <3>6, <3>7, SumEmpty, FieldConstants, FieldNeutral
    <3> HIDE DEF D
    <3> QED BY <2>3, <3>8
  <2>4. CASE Cardinality(s) # 1
    <3>1. PICK u \in s, v \in s : u # v
      <4>1. PICK u \in s : TRUE
        BY <1>2
      <4>2. Cardinality(s \ {u}) # 0 /\ IsFiniteSet(s \ {u})
        BY <2>1, <2>4, TakeOut
      <4>3. s \ {u} # {}
        BY <4>2, FS_EmptySet
      <4> QED BY <4>1, <4>3
    <3>2. D(s \ {u}) = D(s \ {v})
      <4>1. s \ {u} # {} /\ s \ {v} # {} /\ s \ {u} \in T /\ s \ {v} \in T
        BY <1>2, <3>1
      <4>2. Cardinality(s \ {u}) = Cardinality(s \ {v})
        BY <2>1, TakeOut
      <4> HIDE DEF D
      <4> QED BY <4>1, <4>2
    <3> DEFINE a == Minus(x[u], x[v])
               g(n) == [i \in s |-> Minus(x[n], x[i])]
    <3>3. a \in Field /\ a # 0
      <4>1. x[u] \in Field /\ x[v] \in Field /\ x[u] # x[v]
        BY <2>1, <3>1 DEF DistinctPoints
      <4>2. Minus(x[u], x[v]) \in Field
        BY <4>1, FieldClosed, Zenon
      <4>3. Minus(x[u], x[v]) # 0
        BY <4>1, MinusZero, Zenon
      <4> QED BY <4>2, <4>3
    <3>4. \A n \in s : \A i \in s : g(n)[i] \in Field /\ g(n)[i] = Mul(Minus(x[n], x[i]), f[i])
      <4> TAKE n \in s
      <4> TAKE i \in s
      <4>1. Minus(x[n], x[i]) \in Field /\ f[i] = 1
        BY <2>1, FieldClosed DEF DistinctPoints
      <4> QED BY <4>1, FieldNeutral
    <3>5. \A n \in s : Divided(x, s, g(n)) = D(s \ {n})
      <4> HIDE DEF g
      <4> QED BY <2>1, <2>2, <3>4, DividedWithout
    <3>6. \A i \in s : g(u)[i] = Add(Mul(a, f[i]), g(v)[i])
      <4> TAKE i \in s
      <4>1. x[u] \in Field /\ x[v] \in Field /\ x[i] \in Field /\ f[i] = 1
        BY <2>1 DEF DistinctPoints
      <4>2. Minus(x[u], x[i]) = Add(Minus(x[u], x[v]), Minus(x[v], x[i]))
        BY <4>1, MinusThrough
      <4> QED BY <3>3, <4>1, <4>2, FieldNeutral
    <3>7. Divided(x, s, g(u)) = Add(Mul(a, D(s)), Divided(x, s, g(v)))
      <4> HIDE DEF g, a
      <4> QED BY <2>1, <2>2, <3>3, <3>4, <3>6, DividedLinear
    <3>8. D(s) \in Field /\ D(s \ {v}) \in Field
      <4>1. DistinctPoints(x, s \ {v})
        BY <2>1, FS_Subset DEF DistinctPoints
      <4>2. \A i \in s \ {v} : f[i] \in Field
        BY <2>2
      <4> QED BY <2>1, <2>2, <4>1, <4>2, TermsInField
    <3> HIDE DEF D, g, a
    <3>9. Add(D(s \ {v}), 0) = Add(D(s \ {v}), Mul(a, D(s)))
      <4>1. D(s \ {v}) = Add(Mul(a, D(s)), D(s \ {v}))
        BY <3>2, <3>5, <3>7
      <4>2. Mul(a, D(s)) \in Field
        BY <3>3, <3>8, FieldClosed
      <4> QED BY <3>8, <4>1, <4>2, FieldNeutral, FieldCommutes
    <3>10. Mul(a, D(s)) = 0
      <4>1. Mul(a, D(s)) \in Field
        BY <3>3, <3>8, FieldClosed
      <4> QED BY <3>8, <3>9, <4>1, FieldConstants, AddCancels
    <3>11. D(s) = 0
      BY <3>3, <3>8, <3>10, NoZeroDivisors
    <3> QED BY <2>4, <3>11
  <2> QED BY <2>3, <2>4
<1>3. \A s \in SUBSET I : s \in T
  <2> HIDE DEF T
  <2> QED BY <1>1, <1>2, SubsetsInductive DEF DistinctPoints
<1>4. I \in T
  BY <1>3
<1> QED BY <1>4

\* The divided difference of a monomial whose degree is less than the number of
\* points minus one
LEMMA DividedPower ==
    ASSUME NEW x, NEW m \in Nat
    PROVE  \A I : DistinctPoints(x, I) /\ m + 1 < Cardinality(I) =>
               Divided(x, I, [i \in I |-> Power(x[i], m)]) = 0
<1> DEFINE M(I, n) == [i \in I |-> Power(x[i], n)]
           T == {n \in Nat : \A I : DistinctPoints(x, I) /\ n + 1 < Cardinality(I)
                                => Divided(x, I, M(I, n)) = 0}
<1>1. 0 \in T
  <2> SUFFICES ASSUME NEW I, DistinctPoints(x, I), 0 + 1 < Cardinality(I)
               PROVE  Divided(x, I, M(I, 0)) = 0
    OBVIOUS
  <2>1. \A i \in I : M(I, 0)[i] = 1
    BY Powers DEF DistinctPoints
  <2>2. Cardinality(I) \in Nat /\ Cardinality(I) # 1 /\ I # {}
    BY FS_CardinalityType, FS_EmptySet DEF DistinctPoints
  <2> HIDE DEF M
  <2> QED BY <2>1, <2>2, DividedOne
<1>2. ASSUME NEW n \in Nat, n \in T PROVE n + 1 \in T
  <2> SUFFICES ASSUME NEW I, DistinctPoints(x, I), (n + 1) + 1 < Cardinality(I)
               PROVE  Divided(x, I, M(I, n + 1)) = 0
    OBVIOUS
  <2>1. Cardinality(I) \in Nat /\ I # {} /\ IsFiniteSet(I)
    BY FS_CardinalityType, FS_EmptySet DEF DistinctPoints
  <2>2. PICK u \in I : TRUE
    BY <2>1
  <2> DEFINE J == I \ {u}
             f == M(I, n)
             g == [i \in I |-> Mul(Minus(x[u], x[i]), f[i])]
             h == M(I, n + 1)
             k == [i \in I |-> Mul(x[u], f[i])]
  <2>3. DistinctPoints(x, J) /\ n + 1 < Cardinality(J)
    BY <2>1, TakeOut, FS_Subset DEF DistinctPoints
  <2>4. Divided(x, I, f) = 0 /\ Divided(x, J, M(J, n)) = 0
    BY <1>2, <2>1, <2>3
  <2>5. \A i \in I : x[i] \in Field /\ f[i] \in Field /\ g[i] \in Field /\ h[i] \in Field
                     /\ h[i] = Mul(x[i], f[i])
    <3> TAKE i \in I
    <3>1. x[i] \in Field /\ Minus(x[u], x[i]) \in Field
      BY FieldClosed DEF DistinctPoints
    <3>2. f[i] = Power(x[i], n) /\ h[i] = Power(x[i], n + 1)
      OBVIOUS
    <3>3. f[i] \in Field /\ h[i] = Mul(x[i], f[i])
      BY <3>1, <3>2, Powers
    <3>4. g[i] = Mul(Minus(x[u], x[i]), f[i])
      OBVIOUS
    <3> HIDE DEF f, g, h
    <3> QED BY <3>1, <3>3, <3>4, FieldClosed
  <2>6. \A i \in I : g[i] = Mul(Minus(x[u], x[i]), f[i])
    OBVIOUS
  <2>7. Divided(x, I, g) = Divided(x, J, f)
    <3> HIDE DEF f, g
    <3> QED BY <2>5, <2>6, DividedWithout
  <2>8. Divided(x, J, f) = Divided(x, J, M(J, n))
    <3> DEFINE t == [i \in J |-> Mul(Invert(Spread(x, J, i)), f[i])]
               r == [i \in J |-> Mul(Invert(Spread(x, J, i)), M(J, n)[i])]
    <3>1. \A i \in J : t[i] = r[i]
      OBVIOUS
    <3>2. \A i \in J : t[i] \in Field
      <4>1. \A i \in J : f[i] \in Field
        BY <2>5
      <4>2. \A i \in J : Mul(Invert(Spread(x, J, i)), f[i]) \in Field
        <5> HIDE DEF f, J
        <5> QED BY <2>3, <4>1, TermsInField
      <4> QED BY <4>2
    <3>3. Sum(t, J) = Sum(r, J)
      <4> HIDE DEF t, r
      <4> QED BY <2>3, <3>1, <3>2, SumAgree DEF DistinctPoints
    <3>4. Divided(x, J, f) = Sum(t, J) /\ Divided(x, J, M(J, n)) = Sum(r, J)
      BY DEF Divided
    <3> QED BY <3>3, <3>4
  <2>9. \A i \in I : k[i] \in Field /\ k[i] = Add(Mul(1, g[i]), h[i])
    <3> TAKE i \in I
    <3>1. x[u] \in Field /\ x[i] \in Field /\ f[i] \in Field /\ g[i] \in Field
          /\ Minus(x[u], x[i]) \in Field
      BY <2>2, <2>5, FieldClosed
    <3>2. Mul(x[u], f[i]) = Mul(f[i], Add(Minus(x[u], x[i]), x[i]))
      BY <3>1, MinusAdd, FieldCommutes
    <3>3. Mul(f[i], Add(Minus(x[u], x[i]), x[i])) =
            Add(Mul(f[i], Minus(x[u], x[i])), Mul(f[i], x[i]))
      BY <3>1, Distributes
    <3>4. Mul(f[i], Minus(x[u], x[i])) = g[i] /\ Mul(f[i], x[i]) = h[i]
      BY <2>5, <2>6, <3>1, FieldCommutes
    <3>5. Mul(1, g[i]) = g[i] /\ Mul(x[u], f[i]) \in Field
      BY <3>1, FieldNeutral, FieldClosed
    <3>6. k[i] = Mul(x[u], f[i])
      OBVIOUS
    <3> HIDE DEF f, g, h, k
    <3> QED BY <3>2, <3>3, <3>4, <3>5, <3>6
  <2> DEFINE z == [i \in I |-> 0]
  <2>10. \A i \in I : z[i] = 0 /\ z[i] \in Field
    BY FieldConstants
  <2>11. Divided(x, I, z) = 0
    <3> DEFINE t == [i \in I |-> Mul(Invert(Spread(x, I, i)), z[i])]
    <3>1. \A i \in I : t[i] = 0
      BY <2>10, SpreadNonzero, NonzeroInverts, FieldNeutral
    <3>2. Sum(t, I) = 0
      <4> HIDE DEF t
      <4> QED BY <2>1, <3>1, SumZero
    <3> QED BY <3>2 DEF Divided
  <2>12. \A i \in I : k[i] = Add(Mul(x[u], f[i]), z[i])
    <3> TAKE i \in I
    <3>1. k[i] = Mul(x[u], f[i])
      OBVIOUS
    <3> HIDE DEF k, f, z
    <3> QED BY <2>9, <2>10, <3>1, FieldNeutral
  <2> HIDE DEF M, f, g, h, k, z, J
  <2>13. Divided(x, I, k) = Add(Mul(1, Divided(x, I, g)), Divided(x, I, h))
    BY <2>5, <2>9, FieldConstants, DividedLinear
  <2>14. Divided(x, I, k) = Add(Mul(x[u], Divided(x, I, f)), Divided(x, I, z))
    BY <2>2, <2>5, <2>10, <2>12, DividedLinear
  <2>15. Divided(x, I, h) \in Field
    BY <2>5, TermsInField
  <2>16. Divided(x, I, g) = 0 /\ Divided(x, I, k) = 0
    BY <2>2, <2>4, <2>5, <2>7, <2>8, <2>11, <2>14, FieldConstants, FieldNeutral
  <2>17. Divided(x, I, h) = 0
    BY <2>13, <2>15, <2>16, FieldConstants, FieldNeutral
  <2> QED BY <2>17 DEF h
<1>3. \A n \in Nat : n \in T
  <2> HIDE DEF T
  <2> QED BY <1>1, <1>2, NatInductive
<1> QED BY <1>3

-----------------------------------------------------------------------------
(* Interpolation at zero *)

\* With p + q = 0, weights that turn p into s and -q into 1 agree up to s.
LEMMA OppositeWeights ==
    ASSUME NEW p \in Field, NEW q \in Field, p # 0, Add(p, q) = 0,
           NEW s \in Field, NEW w \in Field, Mul(p, w) = s,
           NEW v \in Field, Mul(q, v) = 1
    PROVE  Add(w, Mul(s, v)) = 0
<1> DEFINE pv == Mul(p, v)
           sv == Mul(s, v)
<1>1. pv \in Field /\ sv \in Field /\ Mul(s, pv) \in Field /\ Add(w, sv) \in Field
  BY FieldClosed
<1>2. Add(pv, 1) = 0
  <2>1. Mul(v, Add(p, q)) = Add(Mul(v, p), Mul(v, q))
    BY Distributes
  <2>2. Mul(v, p) = pv /\ Mul(v, q) = 1
    BY FieldCommutes
  <2> HIDE DEF pv
  <2> QED BY <2>1, <2>2, FieldNeutral
<1>3. Add(s, Mul(s, pv)) = 0
  <2>1. Mul(s, Add(pv, 1)) = Add(Mul(s, pv), Mul(s, 1))
    BY <1>1, FieldConstants, Distributes
  <2> HIDE DEF pv
  <2> QED BY <1>1, <1>2, <2>1, FieldNeutral, FieldCommutes
<1>4. Mul(p, sv) = Mul(s, pv)
  BY MulSwap
<1>5. Mul(p, Add(w, sv)) = Add(Mul(p, w), Mul(p, sv))
  BY <1>1, Distributes
<1> HIDE DEF pv, sv
<1>6. Mul(p, Add(w, sv)) = 0
  BY <1>3, <1>4, <1>5
<1>7. Add(w, sv) = 0
  BY <1>1, <1>6, NoZeroDivisors
<1> QED BY <1>7 DEF sv

\* Weights of nonzero points, w[i] being the product of all points over x[i] and
\* its differences, give each monomial's value at zero.
LEMMA WeightsAtZero ==
    ASSUME NEW x, NEW I, DistinctPoints(x, I), \A i \in I : x[i] # 0, NEW o, o \notin I,
           NEW w, \A i \in I : w[i] \in Field /\
                      Mul(Mul(x[i], Spread(x, I, i)), w[i]) = Product(x, I),
           NEW m \in Nat, m < Cardinality(I)
    PROVE  Sum([i \in I |-> Mul(w[i], Power(x[i], m))], I) = Power(0, m)
<1> DEFINE K == I \cup {o}
           y == [i \in K |-> IF i = o THEN 0 ELSE x[i]]
           X == Product(x, I)
           S(i) == Spread(x, I, i)
           v(i) == Invert(Spread(y, K, i))
           t == [i \in K |-> Mul(v(i), Power(y[i], m))]
           W == [i \in I |-> Mul(w[i], Power(x[i], m))]
           U == [i \in I |-> Mul(X, t[i])]
<1>1. /\ IsFiniteSet(I) /\ IsFiniteSet(K) /\ Cardinality(K) = Cardinality(I) + 1
      /\ Cardinality(I) \in Nat /\ K \ {o} = I /\ o \in K
  BY FS_AddElement, FS_CardinalityType DEF DistinctPoints
<1>2. y[o] = 0 /\ \A i \in I : y[i] = x[i] /\ x[i] \in Field
  BY DEF DistinctPoints
<1>3. DistinctPoints(y, K)
  <2>1. \A i \in K : y[i] \in Field
    BY <1>2, FieldConstants
  <2>2. \A i, j \in K : y[i] = y[j] => i = j
    BY DEF DistinctPoints
  <2> HIDE DEF y, K
  <2> QED BY <1>1, <2>1, <2>2 DEF DistinctPoints
<1>4. X \in Field /\ X # 0
  BY <1>1, <1>2, ProductInField, ProductNonzero
<1>5. \A i \in I : Spread(y, K, i) = Mul(Minus(0, x[i]), S(i))
  <2> TAKE i \in I
  <2>1. Spread(y, K, i) = Mul(Minus(y[o], y[i]), Spread(y, K \ {o}, i))
    <3>1. o \in K /\ i \in K /\ i # o
      OBVIOUS
    <3> HIDE DEF y, K
    <3> QED BY <1>3, <3>1, SpreadWithout
  <2>2. [j \in I |-> Minus(y[j], y[i])] = [j \in I |-> Minus(x[j], x[i])]
    <3>1. \A j \in I : Minus(y[j], y[i]) = Minus(x[j], x[i])
      BY <1>2
    <3> HIDE DEF y
    <3> QED BY <3>1
  <2>3. Spread(y, I, i) = S(i)
    <3> HIDE DEF y
    <3> QED BY <2>2 DEF Spread
  <2> HIDE DEF y, K, S
  <2> QED BY <1>1, <1>2, <2>1, <2>3
<1>6. Spread(y, K, o) = X
  <2> DEFINE f == [j \in K |-> Minus(y[j], y[o])]
  <2>1. \A j \in I : f[j] = x[j] /\ x[j] \in Field
    <3> TAKE j \in I
    <3>1. f[j] = Minus(x[j], 0)
      BY <1>2
    <3>2. Minus(x[j], 0) \in Field /\ Add(Minus(x[j], 0), 0) = x[j]
      BY <1>2, FieldConstants, FieldClosed, MinusAdd
    <3> HIDE DEF f
    <3> QED BY <1>2, <3>1, <3>2, FieldNeutral
  <2>2. Spread(y, K, o) = Product(f, I)
    BY <1>1 DEF Spread
  <2> HIDE DEF f, y, K
  <2> QED BY <1>1, <2>1, <2>2, ProductAgree
<1>7. \A i \in I : v(i) \in Field /\ Add(w[i], Mul(X, v(i))) = 0
  <2> TAKE i \in I
  <2> DEFINE p == Mul(x[i], S(i))
             q == Mul(Minus(0, x[i]), S(i))
  <2>1. S(i) \in Field /\ S(i) # 0 /\ x[i] # 0 /\ Minus(0, x[i]) \in Field
    BY <1>2, SpreadNonzero, FieldConstants, FieldClosed
  <2>2. p \in Field /\ q \in Field /\ p # 0
    BY <1>2, <2>1, FieldClosed, NoZeroDivisors
  <2>3. Add(p, q) = 0
    <3>1. Mul(S(i), Add(Minus(0, x[i]), x[i])) =
            Add(Mul(S(i), Minus(0, x[i])), Mul(S(i), x[i]))
      BY <1>2, <2>1, Distributes
    <3>2. Add(Minus(0, x[i]), x[i]) = 0
      BY <1>2, FieldConstants, MinusAdd
    <3>3. Mul(S(i), Minus(0, x[i])) = q /\ Mul(S(i), x[i]) = p
      BY <1>2, <2>1, FieldCommutes
    <3> HIDE DEF p, q, S
    <3> QED BY <2>1, <2>2, <3>1, <3>2, <3>3, FieldNeutral, FieldCommutes
  <2>4. v(i) = Invert(q)
    <3> HIDE DEF y, K
    <3> QED BY <1>5
  <2>5. q # 0
    <3>1. i \in K
      OBVIOUS
    <3> HIDE DEF y, K, q, S
    <3> QED BY <1>3, <1>5, <3>1, SpreadNonzero DEF q
  <2>6. v(i) \in Field /\ Mul(q, v(i)) = 1
    <3> HIDE DEF v, q
    <3> QED BY <2>2, <2>4, <2>5, NonzeroInverts
  <2>7. w[i] \in Field /\ Mul(p, w[i]) = X
    OBVIOUS
  <2> HIDE DEF p, q, v, X
  <2> QED BY <1>4, <2>2, <2>3, <2>6, <2>7, OppositeWeights
<1>8. v(o) \in Field /\ Mul(X, v(o)) = 1
  <2>1. v(o) = Invert(X)
    BY <1>6
  <2> HIDE DEF v, X
  <2> QED BY <1>4, <2>1, NonzeroInverts
<1>9. \A i \in K : y[i] \in Field /\ Power(y[i], m) \in Field
  BY <1>3, Powers DEF DistinctPoints
<1>10. Sum(t, K) = 0
  <2>1. Divided(y, K, [i \in K |-> Power(y[i], m)]) = 0
    <3> HIDE DEF y, K
    <3> QED BY <1>1, <1>3, DividedPower
  <2>2. [i \in K |-> Mul(v(i), [k \in K |-> Power(y[k], m)][i])] = t
    OBVIOUS
  <2> HIDE DEF y, K, t
  <2> QED BY <2>1, <2>2 DEF Divided
<1>11. \A i \in K : t[i] \in Field /\ t[i] = Mul(v(i), Power(y[i], m))
  <2> TAKE i \in K
  <2>1. v(i) \in Field
    <3> HIDE DEF v, y
    <3> QED BY <1>7, <1>8
  <2>2. t[i] = Mul(v(i), Power(y[i], m))
    OBVIOUS
  <2> HIDE DEF v, y, t
  <2> QED BY <1>9, <2>1, <2>2, FieldClosed
<1>12. Add(t[o], Sum(t, I)) = 0 /\ t[o] \in Field /\ Sum(t, I) \in Field
  <2>1. \A i \in I : t[i] \in Field
    BY <1>11
  <2>2. o \in K
    OBVIOUS
  <2> HIDE DEF t, K
  <2> QED BY <1>1, <1>10, <1>11, <2>1, <2>2, SumTake, SumInField
<1>13. Mul(X, t[o]) = Power(0, m) /\ Power(0, m) \in Field
  <2>1. t[o] = Mul(v(o), Power(0, m)) /\ Power(0, m) \in Field
    BY <1>2, <1>11, FieldConstants, Powers
  <2> HIDE DEF t, X, v
  <2>2. Mul(X, Mul(v(o), Power(0, m))) = Mul(Mul(X, v(o)), Power(0, m))
    BY <1>4, <1>8, <2>1, MulAssociates
  <2> QED BY <1>8, <2>1, <2>2, FieldNeutral
<1>14. \A i \in I : /\ W[i] \in Field /\ U[i] \in Field /\ U[i] = Mul(X, t[i])
                    /\ Add(W[i], U[i]) = 0
  <2> TAKE i \in I
  <2> DEFINE r == Power(x[i], m)
  <2>1. r \in Field /\ w[i] \in Field /\ v(i) \in Field /\ t[i] = Mul(v(i), r) /\ t[i] \in Field
    BY <1>2, <1>7, <1>9, <1>11
  <2>2. W[i] = Mul(w[i], r) /\ U[i] = Mul(X, t[i])
    OBVIOUS
  <2> HIDE DEF r, W, U, t, v, X
  <2>3. Mul(X, Mul(v(i), r)) = Mul(Mul(X, v(i)), r) /\ Mul(X, v(i)) \in Field
    BY <1>4, <2>1, MulAssociates, FieldClosed
  <2>4. Mul(r, Add(w[i], Mul(X, v(i)))) = Add(Mul(r, w[i]), Mul(r, Mul(X, v(i))))
    BY <2>1, <2>3, Distributes
  <2>5. Mul(r, w[i]) = W[i] /\ Mul(r, Mul(X, v(i))) = U[i]
    BY <2>1, <2>2, <2>3, FieldCommutes
  <2> QED BY <1>4, <1>7, <2>1, <2>2, <2>4, <2>5, FieldNeutral, FieldClosed
<1> DEFINE Z == [i \in I |-> Add(W[i], U[i])]
<1>15. Sum(Z, I) = 0 /\ \A i \in I : Z[i] = Add(W[i], U[i])
  <2>1. \A i \in I : Z[i] = 0 /\ Z[i] = Add(W[i], U[i])
    BY <1>14
  <2> HIDE DEF Z
  <2> QED BY <1>1, <2>1, SumZero
<1> HIDE DEF Z, W, U, t, X, K, y, v
<1>16. Add(Sum(W, I), Sum(U, I)) = 0 /\ Sum(W, I) \in Field /\ Sum(U, I) \in Field
  BY <1>1, <1>14, <1>15, SumOfSums, SumInField
<1>17. Sum(U, I) = Mul(X, Sum(t, I))
  <2>1. \A i \in I : t[i] \in Field
    BY <1>11 DEF K
  <2> QED BY <1>1, <1>4, <1>14, <2>1, SumScaled
<1>18. Add(Power(0, m), Sum(U, I)) = 0
  <2>1. Mul(X, Add(t[o], Sum(t, I))) = Add(Mul(X, t[o]), Mul(X, Sum(t, I)))
    BY <1>4, <1>12, Distributes
  <2> QED BY <1>4, <1>12, <1>13, <1>17, <2>1, FieldNeutral
<1>19. Add(Sum(U, I), Sum(W, I)) = Add(Sum(U, I), Power(0, m))
  BY <1>13, <1>16, <1>18, FieldCommutes
<1>20. Sum(W, I) = Power(0, m)
  BY <1>13, <1>16, <1>19, AddCancels
<1> QED BY <1>20 DEF W

-----------------------------------------------------------------------------
(* Horner's rule *)

\* The recursive function in the definition of Evaluate, from the last
\* coefficient down
HornerIter(a, x) ==
    CHOOSE iter : iter =
        [s \in SUBSET (DOMAIN a) |->
            IF s = {} THEN 0 ELSE Add(Mul(iter[s \ {Min(s)}], x), a[Min(s)])]

\* Horner's rule is the value of that function at the whole list.
LEMMA EvaluateIsIter ==
    ASSUME NEW a, NEW x
    PROVE  Evaluate(a, x) = HornerIter(a, x)[DOMAIN a]
BY DEF Evaluate, FoldRight, MapThenFoldSet, HornerIter

\* Min gives the least element of a nonempty set of naturals.
LEMMA MinOfNat ==
    ASSUME NEW s \in SUBSET Nat, s # {}
    PROVE  Min(s) \in s /\ \A n \in s : Min(s) <= n
BY LeastOf DEF Min

\* The function exists, and so it satisfies its equation.
LEMMA HornerStep ==
    ASSUME NEW a \in Seq(Field), NEW x \in Field, NEW s \in SUBSET (DOMAIN a)
    PROVE  HornerIter(a, x)[s] =
             IF s = {} THEN 0 ELSE Add(Mul(HornerIter(a, x)[s \ {Min(s)}], x), a[Min(s)])
<1> DEFINE S == DOMAIN a
           step == [t \in SUBSET S |->
                       [v \in Field |-> IF t = {} THEN 0 ELSE Add(Mul(v, x), a[Min(t)])]]
           ch == [t \in SUBSET S |-> Min(t)]
<1>1. \A t \in SUBSET S : t # {} => Min(t) \in t
  BY MinOfNat
<1>2. \A k \in S : a[k] \in Field
  OBVIOUS
<1>3. IsFiniteSet(S)
  BY FS_Interval
<1>4. step \in [SUBSET S -> [Field -> Field]]
  <2> SUFFICES ASSUME NEW t \in SUBSET S, NEW v \in Field, t # {}
               PROVE  Add(Mul(v, x), a[Min(t)]) \in Field
    BY FieldConstants
  <2> QED BY <1>1, <1>2, FieldClosed
<1> HIDE DEF S
<1>5. PICK g \in [SUBSET S -> Field] : Recursive(g, S, 0, step, ch)
  <2>1. 0 \in Field /\ \A t \in SUBSET S : t # {} => ch[t] \in t
    BY <1>1, FieldConstants
  <2> HIDE DEF step, ch
  <2> QED BY <1>3, <1>4, <2>1, Recursion, Zenon
<1>6. \A t \in SUBSET S :
        g[t] = IF t = {} THEN 0 ELSE Add(Mul(g[t \ {Min(t)}], x), a[Min(t)])
  <2> TAKE t \in SUBSET S
  <2>1. t \ {Min(t)} \in SUBSET S /\ ch[t] = Min(t)
    OBVIOUS
  <2>2. g[t \ {Min(t)}] \in Field
    BY <2>1
  <2>3. t # {} => step[t][g[t \ {ch[t]}]] = Add(Mul(g[t \ {Min(t)}], x), a[Min(t)])
    BY <2>1, <2>2
  <2>4. g[t] = IF t = {} THEN 0 ELSE step[t][g[t \ {ch[t]}]]
    <3> HIDE DEF step, ch
    <3> QED BY <1>5 DEF Recursive
  <2> HIDE DEF step, ch
  <2> QED BY <2>3, <2>4
<1>7. g = [t \in SUBSET S |->
              IF t = {} THEN 0 ELSE Add(Mul(g[t \ {Min(t)}], x), a[Min(t)])]
  BY <1>6
<1>8. HornerIter(a, x) =
        [t \in SUBSET S |->
            IF t = {} THEN 0 ELSE Add(Mul(HornerIter(a, x)[t \ {Min(t)}], x), a[Min(t)])]
  <2> HIDE DEF step, ch
  <2> QED BY <1>7, Zenon DEF HornerIter, S
<1>9. s \in SUBSET S
  BY DEF S
<1> QED BY <1>8, <1>9, Zenon

\* The value of a polynomial is the sum of its terms.
LEMMA EvaluateIsSum ==
    ASSUME NEW a \in Seq(Field), NEW x \in Field
    PROVE  Evaluate(a, x) = Sum([j \in DOMAIN a |-> Mul(a[j], Power(x, j - 1))], DOMAIN a)
<1> DEFINE n == Len(a)
           h(k) == HornerIter(a, x)[k .. n]
           t(k) == [j \in 1 .. n |-> Mul(a[j], Power(x, j - k))]
           T == {m \in Nat : m <= n => h((n - m) + 1) = Sum(t((n - m) + 1), ((n - m) + 1) .. n)}
<1>0. n \in Nat /\ DOMAIN a = 1 .. n /\ \A j \in 1 .. n : a[j] \in Field
  OBVIOUS
<1> HIDE DEF n
<1>1. 0 \in T
  <2>1. (n - 0) + 1 = n + 1 /\ (n + 1) .. n = {}
    BY <1>0
  <2>2. h(n + 1) = 0
    BY <1>0, <2>1, HornerStep
  <2> QED BY <2>1, <2>2, SumEmpty
<1>2. ASSUME NEW m \in Nat, m \in T PROVE m + 1 \in T
  <2> SUFFICES ASSUME m + 1 <= n
               PROVE  h((n - (m + 1)) + 1) = Sum(t((n - (m + 1)) + 1), ((n - (m + 1)) + 1) .. n)
    OBVIOUS
  <2> DEFINE k == n - m
             R == (k + 1) .. n
  <2>1. k \in 1 .. n /\ (n - (m + 1)) + 1 = k /\ (n - m) + 1 = k + 1
    BY <1>0
  <2>2. h(k + 1) = Sum(t(k + 1), R)
    BY <1>0, <1>2, <2>1
  <2> HIDE DEF k
  <2>3. /\ k .. n \in SUBSET (DOMAIN a) /\ k \in k .. n
        /\ (k .. n) \ {k} = R /\ IsFiniteSet(k .. n) /\ IsFiniteSet(R)
    <3>1. /\ k \in Int /\ n \in Int /\ k + 1 \in Int /\ k \in k .. n
          /\ k .. n \subseteq 1 .. n
      BY <1>0, <2>1
    <3>2. (k .. n) \ {k} = R
      BY <1>0, <2>1
    <3>3. IsFiniteSet(k .. n) /\ IsFiniteSet((k + 1) .. n)
      BY <3>1, FS_Interval
    <3> QED BY <1>0, <3>1, <3>2, <3>3
  <2>4. Min(k .. n) = k
    <3>1. k .. n \in SUBSET Nat /\ k .. n # {}
      <4>1. \A j \in k .. n : j \in Nat
        BY <1>0, <2>1
      <4> QED BY <4>1, <2>3
    <3>2. Min(k .. n) \in k .. n /\ Min(k .. n) <= k
      BY <2>3, <3>1, MinOfNat
    <3> QED BY <1>0, <2>1, <3>2
  <2>5. h(k) = Add(Mul(h(k + 1), x), a[k])
    <3> DEFINE s == k .. n
    <3>1. s \in SUBSET (DOMAIN a) /\ s # {} /\ Min(s) = k /\ s \ {k} = R
      BY <2>3, <2>4
    <3>2. HornerIter(a, x)[s] = Add(Mul(HornerIter(a, x)[R], x), a[k])
      <4> HIDE DEF s, R
      <4> QED BY <3>1, HornerStep
    <3> QED BY <3>2
  <2>6. \A j \in R : /\ t(k)[j] \in Field /\ t(k + 1)[j] \in Field
                     /\ t(k)[j] = Mul(x, t(k + 1)[j])
    <3> TAKE j \in R
    <3> DEFINE r == Power(x, j - (k + 1))
    <3>1. j \in 1 .. n /\ j - (k + 1) \in Nat /\ (j - (k + 1)) + 1 = j - k
      BY <1>0, <2>1
    <3>2. r \in Field /\ Power(x, j - k) = Mul(x, r)
      BY <3>1, Powers
    <3>3. t(k)[j] = Mul(a[j], Power(x, j - k)) /\ t(k + 1)[j] = Mul(a[j], r) /\ a[j] \in Field
      BY <1>0, <3>1
    <3> HIDE DEF r, t
    <3>4. Mul(a[j], Mul(x, r)) = Mul(x, Mul(a[j], r))
      BY <3>2, <3>3, MulSwap
    <3> QED BY <3>2, <3>3, <3>4, FieldClosed
  <2>7. t(k)[k] = a[k] /\ a[k] \in Field
    <3>1. t(k)[k] = Mul(a[k], Power(x, 0)) /\ a[k] \in Field
      BY <1>0, <2>1
    <3> QED BY <3>1, Powers, FieldNeutral
  <2> HIDE DEF t, h, R
  <2>8. Sum(t(k), k .. n) = Add(t(k)[k], Sum(t(k), R))
    <3>1. \A j \in k .. n : t(k)[j] \in Field
      BY <2>3, <2>6, <2>7
    <3> QED BY <2>3, <3>1, SumTake
  <2>9. Sum(t(k), R) = Mul(x, Sum(t(k + 1), R)) /\ Sum(t(k + 1), R) \in Field
    BY <2>3, <2>6, SumScaled, SumInField
  <2>10. h(k) = Sum(t(k), k .. n)
    <3> DEFINE u == Sum(t(k + 1), R)
    <3>1. u \in Field /\ Mul(x, u) \in Field /\ a[k] \in Field
      BY <2>7, <2>9, FieldClosed
    <3>2. h(k) = Add(Mul(u, x), a[k])
      BY <2>2, <2>5
    <3>3. Sum(t(k), k .. n) = Add(a[k], Mul(x, u))
      BY <2>7, <2>8, <2>9
    <3> HIDE DEF u
    <3>4. Mul(u, x) = Mul(x, u)
      BY <3>1, FieldCommutes
    <3>5. Add(Mul(x, u), a[k]) = Add(a[k], Mul(x, u))
      BY <3>1, FieldCommutes
    <3> QED BY <3>2, <3>3, <3>4, <3>5
  <2> QED BY <2>1, <2>10
<1>3. \A m \in Nat : m \in T
  <2> HIDE DEF T
  <2> QED BY <1>1, <1>2, NatInductive
<1>4. n \in T
  BY <1>0, <1>3
<1>5. (n - n) + 1 = 1
  BY <1>0
<1>6. h(1) = Sum(t(1), 1 .. n)
  BY <1>0, <1>4, <1>5
<1>7. Evaluate(a, x) = h(1)
  BY <1>0, EvaluateIsIter
<1> QED BY <1>0, <1>6, <1>7

\* The value of a polynomial is a scalar.
LEMMA EvaluateInField ==
    ASSUME NEW a \in Seq(Field), NEW x \in Field
    PROVE  Evaluate(a, x) \in Field
<1> DEFINE t == [j \in DOMAIN a |-> Mul(a[j], Power(x, j - 1))]
<1>1. IsFiniteSet(DOMAIN a)
  BY FS_Interval
<1>2. \A j \in DOMAIN a : t[j] \in Field
  <2> TAKE j \in DOMAIN a
  <2>1. j - 1 \in Nat /\ a[j] \in Field
    OBVIOUS
  <2> QED BY <2>1, Powers, FieldClosed
<1>3. Sum(t, DOMAIN a) \in Field
  <2> HIDE DEF t
  <2> QED BY <1>1, <1>2, SumInField
<1> QED BY <1>3, EvaluateIsSum

-----------------------------------------------------------------------------
(* The two passes of compute_lagrange_coefficients *)

\* Before each place the forward pass holds the product of what comes before it.
LEMMA BeforeIsProduct ==
    ASSUME NEW d \in Seq(Field), NEW i \in 1 .. Len(d)
    PROVE  Before(d)[i] = Product(d, 1 .. (i - 1))
<1> DEFINE n == Len(d)
           rho == Before(d)
           g == [k \in 1 .. n |-> Product(d, 1 .. (k - 1))]
           T == {m \in Nat : m + 1 <= n => rho[m + 1] = g[m + 1]}
<1>0. n \in Nat /\ \A k \in 1 .. n : d[k] \in Field
  OBVIOUS
<1>1. \A k \in 1 .. n : g[k] = IF k = 1 THEN 1 ELSE Mul(g[k - 1], d[k - 1])
  <2> TAKE k \in 1 .. n
  <2>1. CASE k = 1
    <3>1. 1 .. (k - 1) = {}
      BY <2>1
    <3> QED BY <2>1, <3>1, ProductEmpty
  <2>2. CASE k # 1
    <3> DEFINE j == k - 1
               S == 1 .. (j - 1)
    <3>1. j \in 1 .. n /\ j \notin S /\ 1 .. j = S \cup {j} /\ j - 1 \in Int
      BY <1>0, <2>2
    <3>2. IsFiniteSet(S)
      BY <3>1, FS_Interval
    <3>3. \A l \in S \cup {j} : d[l] \in Field
      BY <1>0, <3>1
    <3>4. g[k] = Product(d, S \cup {j}) /\ g[j] = Product(d, S) /\ d[j] \in Field
      BY <3>1, <1>0
    <3> HIDE DEF S, j
    <3>5. Product(d, S \cup {j}) = Mul(d[j], Product(d, S))
      BY <3>1, <3>2, <3>3, ProductInsert
    <3>6. Product(d, S) \in Field
      BY <3>2, <3>3, ProductInField
    <3>7. Product(d, S \cup {j}) = Mul(Product(d, S), d[j])
      BY <3>4, <3>5, <3>6, FieldCommutes
    <3> QED BY <2>2, <3>4, <3>7 DEF j
  <2> QED BY <2>1, <2>2
<1>2. rho = [k \in 1 .. n |-> IF k = 1 THEN 1 ELSE Mul(rho[k - 1], d[k - 1])]
  <2>1. g = [k \in 1 .. n |-> IF k = 1 THEN 1 ELSE Mul(g[k - 1], d[k - 1])]
    BY <1>1
  <2> HIDE DEF g
  <2> QED BY <2>1, Zenon DEF Before, n
<1> HIDE DEF rho, g, n
<1>3. 0 \in T
  BY <1>0, <1>1, <1>2
<1>4. ASSUME NEW m \in Nat, m \in T PROVE m + 1 \in T
  <2> SUFFICES ASSUME (m + 1) + 1 <= n PROVE rho[(m + 1) + 1] = g[(m + 1) + 1]
    OBVIOUS
  <2>1. (m + 1) + 1 \in 1 .. n /\ (m + 1) + 1 # 1 /\ ((m + 1) + 1) - 1 = m + 1 /\ m + 1 <= n
    BY <1>0
  <2>2. rho[m + 1] = g[m + 1]
    BY <1>4, <2>1
  <2>3. rho[(m + 1) + 1] = Mul(rho[m + 1], d[m + 1])
    BY <1>2, <2>1
  <2>4. g[(m + 1) + 1] = Mul(g[m + 1], d[m + 1])
    BY <1>1, <2>1
  <2> QED BY <2>2, <2>3, <2>4
<1>5. \A m \in Nat : m \in T
  <2> HIDE DEF T
  <2> QED BY <1>3, <1>4, NatInductive
<1>6. i - 1 \in Nat /\ (i - 1) + 1 = i /\ i <= n
  BY <1>0 DEF n
<1>7. rho[i] = g[i]
  BY <1>5, <1>6
<1> QED BY <1>7 DEF rho, g, n

\* At each place the suffix of the backward pass is the product of what comes
\* after it; where it ends, of everything.
LEMMA AfterIsProduct ==
    ASSUME NEW d \in Seq(Field), NEW i \in 0 .. Len(d)
    PROVE  After(d)[i] = Product(d, (i + 1) .. Len(d))
<1> DEFINE n == Len(d)
           suffix == After(d)
           g == [k \in 0 .. n |-> Product(d, (k + 1) .. n)]
           T == {m \in Nat : m <= n => suffix[n - m] = g[n - m]}
<1>0. n \in Nat /\ \A k \in 1 .. n : d[k] \in Field
  OBVIOUS
<1>1. \A k \in 0 .. n : g[k] = IF k = n THEN 1 ELSE Mul(g[k + 1], d[k + 1])
  <2> TAKE k \in 0 .. n
  <2>1. CASE k = n
    <3>1. (k + 1) .. n = {}
      BY <1>0, <2>1
    <3> QED BY <2>1, <3>1, ProductEmpty
  <2>2. CASE k # n
    <3> DEFINE j == k + 1
               S == (j + 1) .. n
    <3>1. j \in 1 .. n /\ j \in 0 .. n /\ j \notin S /\ j .. n = S \cup {j} /\ j + 1 \in Int
      BY <1>0, <2>2
    <3>2. IsFiniteSet(S)
      BY <1>0, <3>1, FS_Interval
    <3>3. \A l \in S \cup {j} : d[l] \in Field
      BY <1>0, <3>1
    <3>4. g[k] = Product(d, S \cup {j}) /\ g[j] = Product(d, S) /\ d[j] \in Field
      BY <3>1, <1>0
    <3> HIDE DEF S, j
    <3>5. Product(d, S \cup {j}) = Mul(d[j], Product(d, S))
      BY <3>1, <3>2, <3>3, ProductInsert
    <3>6. Product(d, S) \in Field
      BY <3>2, <3>3, ProductInField
    <3>7. Product(d, S \cup {j}) = Mul(Product(d, S), d[j])
      BY <3>4, <3>5, <3>6, FieldCommutes
    <3> QED BY <2>2, <3>4, <3>7 DEF j
  <2> QED BY <2>1, <2>2
<1>2. suffix = [k \in 0 .. n |-> IF k = n THEN 1 ELSE Mul(suffix[k + 1], d[k + 1])]
  <2>1. g = [k \in 0 .. n |-> IF k = n THEN 1 ELSE Mul(g[k + 1], d[k + 1])]
    BY <1>1
  <2> HIDE DEF g
  <2> QED BY <2>1, Zenon DEF After, n
<1> HIDE DEF suffix, g, n
<1>3. 0 \in T
  <2>1. n - 0 = n /\ n \in 0 .. n
    BY <1>0
  <2> QED BY <2>1, <1>1, <1>2
<1>4. ASSUME NEW m \in Nat, m \in T PROVE m + 1 \in T
  <2> SUFFICES ASSUME m + 1 <= n PROVE suffix[n - (m + 1)] = g[n - (m + 1)]
    OBVIOUS
  <2>1. n - (m + 1) \in 0 .. n /\ n - (m + 1) # n /\ (n - (m + 1)) + 1 = n - m /\ m <= n
    BY <1>0
  <2>2. suffix[n - m] = g[n - m]
    BY <1>4, <2>1
  <2>3. suffix[n - (m + 1)] = Mul(suffix[n - m], d[n - m])
    BY <1>2, <2>1
  <2>4. g[n - (m + 1)] = Mul(g[n - m], d[n - m])
    BY <1>1, <2>1
  <2> QED BY <2>2, <2>3, <2>4
<1>5. \A m \in Nat : m \in T
  <2> HIDE DEF T
  <2> QED BY <1>3, <1>4, NatInductive
<1>6. n - i \in Nat /\ n - (n - i) = i /\ n - i <= n
  BY <1>0 DEF n
<1>7. suffix[i] = g[i]
  BY <1>5, <1>6
<1> QED BY <1>7 DEF suffix, g, n

\* The product over two disjoint sets is the product of their products.
LEMMA ProductJoin ==
    ASSUME NEW A, IsFiniteSet(A), NEW B, IsFiniteSet(B), A \cap B = {},
           NEW f, \A y \in A \cup B : f[y] \in Field
    PROVE  Product(f, A \cup B) = Mul(Product(f, A), Product(f, B))
<1> DEFINE T == {s \in SUBSET A : Product(f, s \cup B) = Mul(Product(f, s), Product(f, B))}
<1>0. \A s \in SUBSET A : IsFiniteSet(s) /\ Product(f, s) \in Field
  <2> TAKE s \in SUBSET A
  <2>1. IsFiniteSet(s) /\ \A y \in s : f[y] \in Field
    BY FS_Subset
  <2> QED BY <2>1, ProductInField
<1>1. Product(f, B) \in Field
  BY ProductInField
<1>2. {} \in T
  <2>1. {} \cup B = B
    OBVIOUS
  <2> QED BY <1>1, <2>1, ProductEmpty, FieldNeutral
<1>3. \A s \in SUBSET A : s # {} /\ (\A x \in s : s \ {x} \in T) => s \in T
  <2> TAKE s \in SUBSET A
  <2> SUFFICES ASSUME NEW z \in s, s \ {z} \in T PROVE s \in T
    OBVIOUS
  <2> DEFINE r == s \ {z}
  <2>1. r \in SUBSET A /\ IsFiniteSet(r) /\ IsFiniteSet(s \cup B) /\ Product(f, r) \in Field
    BY <1>0, FS_Union
  <2>2. (s \cup B) \ {z} = r \cup B /\ z \in s \cup B /\ f[z] \in Field
    OBVIOUS
  <2>3. \A y \in s \cup B : f[y] \in Field
    OBVIOUS
  <2>4. Product(f, s \cup B) = Mul(f[z], Product(f, r \cup B))
    BY <2>1, <2>2, <2>3, ProductTake
  <2>5. Product(f, s) = Mul(f[z], Product(f, r))
    BY <1>0, <2>3, ProductTake
  <2>6. Product(f, r \cup B) = Mul(Product(f, r), Product(f, B))
    OBVIOUS
  <2>7. Mul(f[z], Mul(Product(f, r), Product(f, B))) = Mul(Mul(f[z], Product(f, r)), Product(f, B))
    BY <1>1, <2>1, <2>2, MulAssociates
  <2>8. Product(f, s \cup B) = Mul(Product(f, s), Product(f, B))
    BY <2>4, <2>5, <2>6, <2>7
  <2> QED BY <2>8
<1>4. A \in T
  <2> HIDE DEF T
  <2>1. A \in SUBSET A
    OBVIOUS
  <2> QED BY <1>2, <1>3, <2>1, SubsetsInductive
<1> QED BY <1>4

\* Multiplying a denominator by its coefficient leaves the common factor.
LEMMA OneInversion ==
    ASSUME NEW d \in Field, NEW e \in Field, NEW k \in Field, NEW v \in Field,
           Mul(Mul(d, e), v) = 1
    PROVE  Mul(d, Mul(Mul(k, v), e)) = k
<1> DEFINE de == Mul(d, e)
           kv == Mul(k, v)
<1>1. de \in Field /\ kv \in Field /\ Mul(de, v) = 1
  BY FieldClosed
<1>2. Mul(d, Mul(kv, e)) = Mul(kv, Mul(d, e))
  BY <1>1, MulSwap
<1>3. Mul(kv, de) = Mul(de, kv)
  BY <1>1, FieldCommutes
<1>4. Mul(de, Mul(k, v)) = Mul(k, Mul(de, v))
  BY <1>1, MulSwap
<1>5. Mul(k, 1) = k
  BY FieldNeutral
<1> QED BY <1>1, <1>2, <1>3, <1>4, <1>5

\* What Refused leaves through: distinct nonzero indices, at least one
LEMMA AcceptedIndices ==
    ASSUME NEW indices \in Seq(Field), ~Refused(indices)
    PROVE  /\ DistinctPoints(indices, DOMAIN indices)
           /\ DOMAIN indices = 1 .. Len(indices)
           /\ Len(indices) \in Nat /\ Len(indices) # 0
           /\ Cardinality(DOMAIN indices) = Len(indices)
           /\ \A i \in DOMAIN indices : indices[i] # 0
<1>1. /\ DOMAIN indices = 1 .. Len(indices) /\ Len(indices) \in Nat
      /\ \A i \in DOMAIN indices : indices[i] \in Field
  OBVIOUS
<1>2. Len(indices) # 0
  <2>1. indices # <<>>
    BY DEF Refused
  <2> QED BY <2>1
<1>3. IsFiniteSet(DOMAIN indices) /\ Cardinality(DOMAIN indices) = Len(indices)
  BY <1>1, <1>2, FS_Interval
<1>4. \A i \in DOMAIN indices : indices[i] # 0
  BY Zenon DEF Refused, Range
<1>5. \A i, j \in DOMAIN indices : indices[i] = indices[j] => i = j
  BY Zenon DEF Refused, IsInjective
<1> QED BY <1>1, <1>2, <1>3, <1>4, <1>5 DEF DistinctPoints

\* The denominators of accepted indices are scalars with inverses.
LEMMA DenominatorsNonzero ==
    ASSUME NEW indices \in Seq(Field), ~Refused(indices)
    PROVE  /\ Denominators(indices) \in Seq(Field)
           /\ Len(Denominators(indices)) = Len(indices)
           /\ \A i \in DOMAIN indices :
                  /\ Denominators(indices)[i] =
                         Mul(indices[i], Spread(indices, DOMAIN indices, i))
                  /\ Denominators(indices)[i] \in Field \ {0}
<1> DEFINE I == DOMAIN indices
           d == Denominators(indices)
           n == Len(indices)
<1>1. I = 1 .. n /\ n \in Nat /\ DistinctPoints(indices, I) /\ \A i \in I : indices[i] # 0
  BY AcceptedIndices
<1>2. d = [i \in I |-> Mul(indices[i], Spread(indices, I, i))]
  BY DEF Denominators, Spread
<1>3. \A i \in I : Mul(indices[i], Spread(indices, I, i)) \in Field \ {0}
  <2> TAKE i \in I
  <2>1. Spread(indices, I, i) \in Field /\ Spread(indices, I, i) # 0
    BY <1>1, SpreadNonzero
  <2>2. indices[i] \in Field /\ indices[i] # 0
    BY <1>1 DEF DistinctPoints
  <2> QED BY <2>1, <2>2, FieldClosed, NoZeroDivisors
<1> HIDE DEF d
<1>4. d \in [1 .. n -> Field]
  BY <1>1, <1>2, <1>3
<1>5. d \in Seq(Field) /\ Len(d) = n
  BY <1>1, <1>4
<1> QED BY <1>2, <1>3, <1>5 DEF d

\* One inversion serves all the places: each coefficient times its denominator is
\* the product of the indices, and the value inverted is not zero.
THEOREM CoefficientsDivide ==
    ASSUME NEW indices \in Seq(Field), ~Refused(indices), NEW i \in DOMAIN indices
    PROVE  /\ After(Denominators(indices))[0] \in Field \ {0}
           /\ Coefficients(indices)[i] \in Field
           /\ Mul(Denominators(indices)[i], Coefficients(indices)[i]) =
                  Product(indices, DOMAIN indices)
<1> DEFINE I == DOMAIN indices
           d == Denominators(indices)
           n == Len(indices)
           k == Product(indices, I)
           all == After(d)[0]
           e == Mul(Before(d)[i], After(d)[i])
           L == 1 .. (i - 1)
           R == (i + 1) .. n
<1>1. /\ I = 1 .. n /\ n \in Nat /\ d \in Seq(Field) /\ Len(d) = n
      /\ \A j \in I : d[j] \in Field \ {0} /\ indices[j] \in Field
  BY AcceptedIndices, DenominatorsNonzero
<1> HIDE DEF d, n
<1>2. /\ i \in 1 .. n /\ i \in 0 .. n /\ 0 \in 0 .. n /\ 0 + 1 = 1
      /\ IsFiniteSet(I) /\ IsFiniteSet(L) /\ IsFiniteSet(R)
  <2>1. i \in 1 .. n /\ i \in 0 .. n /\ 0 \in 0 .. n /\ i - 1 \in Int /\ i + 1 \in Int
    BY <1>1
  <2> QED BY <1>1, <2>1, FS_Interval
<1>3. /\ I = (L \cup R) \cup {i} /\ i \notin L \cup R /\ L \cap R = {}
      /\ L \subseteq I /\ R \subseteq I
  BY <1>1, <1>2
<1>4. k \in Field
  BY <1>1, <1>2, ProductInField
<1>5. Before(d)[i] = Product(d, L) /\ After(d)[i] = Product(d, R) /\ all = Product(d, I)
  BY <1>1, <1>2, BeforeIsProduct, AfterIsProduct
<1> HIDE DEF L, R
<1>6. Product(d, L) \in Field /\ Product(d, R) \in Field
  BY <1>1, <1>2, <1>3, ProductInField
<1>7. e = Product(d, L \cup R) /\ e \in Field
  <2>1. \A j \in L \cup R : d[j] \in Field
    BY <1>1, <1>3
  <2> QED BY <1>2, <1>3, <1>5, <1>6, <2>1, ProductJoin, FieldClosed
<1>8. all = Mul(d[i], e)
  <2>1. IsFiniteSet(L \cup R) /\ \A j \in (L \cup R) \cup {i} : d[j] \in Field
    BY <1>1, <1>2, <1>3, FS_Union
  <2> HIDE DEF all, e
  <2>2. Product(d, (L \cup R) \cup {i}) = Mul(d[i], Product(d, L \cup R))
    BY <1>3, <2>1, ProductInsert
  <2> QED BY <1>3, <1>5, <1>7, <2>2
<1>9. all \in Field \ {0}
  <2>1. \A j \in I : d[j] \in Field
    BY <1>1
  <2> QED BY <1>1, <1>2, <1>5, <2>1, ProductNonzero, ProductInField
<1> HIDE DEF e, all, k
<1>10. Invert(all) \in Field /\ Mul(all, Invert(all)) = 1 /\ d[i] \in Field
  BY <1>1, <1>9, NonzeroInverts
<1>11. Mul(d[i], Mul(Mul(k, Invert(all)), e)) = k
  BY <1>4, <1>7, <1>8, <1>10, OneInversion
<1>12. Mul(Mul(k, Invert(all)), e) \in Field
  BY <1>4, <1>7, <1>10, FieldClosed
<1>13. Coefficients(indices)[i] = Mul(Mul(k, Invert(all)), e)
  BY Zenon DEF Coefficients, d, k, all, e
<1> QED BY <1>9, <1>11, <1>12, <1>13 DEF all, k, d

\* The coefficients of accepted indices weigh the powers of the indices to the
\* powers of zero, so they read any polynomial shorter than the list at zero.
THEOREM LagrangeReconstructs ==
    ASSUME NEW indices \in Seq(Field), ~Refused(indices),
           NEW a \in Seq(Field), Len(a) \in 1 .. Len(indices)
    PROVE  Sum([i \in DOMAIN indices |-> Mul(Coefficients(indices)[i], Evaluate(a, indices[i]))],
               DOMAIN indices) = a[1]
<1> DEFINE I == DOMAIN indices
           J == DOMAIN a
           w == Coefficients(indices)
           F == [i \in I |-> [j \in J |-> Mul(w[i], Mul(a[j], Power(indices[i], j - 1)))]]
           c(j) == Sum([i \in I |-> Mul(w[i], Power(indices[i], j - 1))], I)
<1>1. /\ DistinctPoints(indices, I) /\ IsFiniteSet(I) /\ Cardinality(I) = Len(indices)
      /\ \A i \in I : indices[i] \in Field /\ indices[i] # 0 /\ w[i] \in Field
      /\ 0 \notin I
  BY AcceptedIndices, CoefficientsDivide DEF DistinctPoints
<1>2. /\ IsFiniteSet(J) /\ 1 \in J
      /\ \A j \in J : j - 1 \in Nat /\ j - 1 < Len(indices) /\ a[j] \in Field
  <2>1. J = 1 .. Len(a) /\ Len(a) \in Int /\ Len(indices) \in Nat
    OBVIOUS
  <2>2. IsFiniteSet(J)
    BY <2>1, FS_Interval
  <2>3. \A j \in J : j - 1 \in Nat /\ j - 1 < Len(indices) /\ a[j] \in Field
    BY <2>1
  <2> QED BY <2>1, <2>2, <2>3
<1> HIDE DEF I, J, w
<1>3. \A i \in I, j \in J : Power(indices[i], j - 1) \in Field /\ F[i][j] \in Field
  <2> TAKE i \in I, j \in J
  <2>1. Power(indices[i], j - 1) \in Field
    BY <1>1, <1>2, Powers
  <2> QED BY <1>1, <1>2, <2>1, FieldClosed
<1>4. \A i \in I : Mul(w[i], Evaluate(a, indices[i])) = Sum(F[i], J)
  <2> TAKE i \in I
  <2> DEFINE t == [j \in J |-> Mul(a[j], Power(indices[i], j - 1))]
  <2>1. Evaluate(a, indices[i]) = Sum(t, J)
    BY <1>1, EvaluateIsSum DEF J
  <2>2. \A j \in J : t[j] \in Field /\ F[i][j] = Mul(w[i], t[j])
    BY <1>2, <1>3, FieldClosed
  <2> DEFINE h == F[i]
  <2>3. \A j \in J : t[j] \in Field /\ h[j] = Mul(w[i], t[j])
    BY <2>2
  <2>4. w[i] \in Field
    BY <1>1
  <2> HIDE DEF t, h, F
  <2>5. Sum(h, J) = Mul(w[i], Sum(t, J))
    BY <1>2, <2>3, <2>4, SumScaled
  <2> QED BY <2>1, <2>5 DEF h
<1>5. Sum([i \in I |-> Mul(w[i], Evaluate(a, indices[i]))], I)
        = Sum([j \in J |-> Sum([i \in I |-> F[i][j]], I)], J)
  <2>1. [i \in I |-> Mul(w[i], Evaluate(a, indices[i]))] = [i \in I |-> Sum(F[i], J)]
    BY <1>4
  <2>2. \A i \in I, j \in J : F[i][j] \in Field
    BY <1>3
  <2> HIDE DEF F
  <2>3. Sum([i \in I |-> Sum(F[i], J)], I) = Sum([j \in J |-> Sum([i \in I |-> F[i][j]], I)], J)
    BY <1>1, <1>2, <2>2, SumExchange, Zenon
  <2> QED BY <2>1, <2>3, Zenon
<1>6. \A j \in J : c(j) = Power(0, j - 1)
  <2> TAKE j \in J
  <2>1. \A i \in I : Mul(Mul(indices[i], Spread(indices, I, i)), w[i]) = Product(indices, I)
    BY CoefficientsDivide, DenominatorsNonzero DEF I, w
  <2> DEFINE m == j - 1
  <2>2. m \in Nat /\ m < Cardinality(I)
    BY <1>1, <1>2
  <2>3. \A i \in I : w[i] \in Field /\ Mul(Mul(indices[i], Spread(indices, I, i)), w[i]) = Product(indices, I)
    BY <1>1, <2>1
  <2>4. DistinctPoints(indices, I) /\ 0 \notin I /\ \A i \in I : indices[i] # 0
    BY <1>1
  <2> HIDE DEF m
  <2>5. Sum([i \in I |-> Mul(w[i], Power(indices[i], m))], I) = Power(0, m)
    BY <1>1, <2>2, <2>3, <2>4, WeightsAtZero
  <2> QED BY <2>5 DEF m
<1>7. \A j \in J : Sum([i \in I |-> F[i][j]], I) = Mul(a[j], Power(0, j - 1))
  <2> TAKE j \in J
  <2> DEFINE t == [i \in I |-> Mul(w[i], Power(indices[i], j - 1))]
             h == [i \in I |-> F[i][j]]
  <2>1. \A i \in I : t[i] \in Field /\ h[i] = Mul(a[j], t[i])
    <3> TAKE i \in I
    <3>1. t[i] \in Field /\ h[i] = Mul(w[i], Mul(a[j], Power(indices[i], j - 1)))
      BY <1>1, <1>3, FieldClosed
    <3>2. Mul(w[i], Mul(a[j], Power(indices[i], j - 1)))
            = Mul(a[j], Mul(w[i], Power(indices[i], j - 1)))
      BY <1>1, <1>2, <1>3, MulSwap
    <3> QED BY <3>1, <3>2
  <2>2. Sum(t, I) = Power(0, j - 1)
    BY <1>6
  <2> HIDE DEF t, h
  <2>3. Sum(h, I) = Mul(a[j], Sum(t, I))
    BY <1>1, <1>2, <2>1, SumScaled
  <2> QED BY <2>2, <2>3 DEF h
<1> DEFINE z == [j \in J |-> Mul(a[j], Power(0, j - 1))]
<1>8. Sum([j \in J |-> Sum([i \in I |-> F[i][j]], I)], J) = Sum(z, J)
  <2>1. [j \in J |-> Sum([i \in I |-> F[i][j]], I)] = z
    BY <1>7
  <2> QED BY <2>1
<1>9. z[1] = a[1] /\ \A j \in J \ {1} : z[j] = 0
  <2>1. Power(0, 1 - 1) = 1 /\ a[1] \in Field
    BY <1>2, PowersOfZero
  <2>2. \A j \in J \ {1} : Power(0, j - 1) = 0 /\ a[j] \in Field
    BY <1>2, PowersOfZero DEF J
  <2> QED BY <1>2, <2>1, <2>2, FieldNeutral
<1>10. Sum(z, J) = a[1]
  <2> HIDE DEF z
  <2>1. IsFiniteSet(J \ {1}) /\ a[1] \in Field
    BY <1>2, FS_RemoveElement
  <2>2. \A j \in J : z[j] \in Field
    BY <1>2, <1>9, FieldConstants
  <2>3. Sum(z, J) = Add(z[1], Sum(z, J \ {1}))
    BY <1>2, <2>2, SumTake
  <2>4. Sum(z, J \ {1}) = 0
    BY <1>9, <2>1, SumZero
  <2> QED BY <1>9, <2>1, <2>3, <2>4, FieldNeutral
<1> QED BY <1>5, <1>8, <1>10 DEF I, w

-----------------------------------------------------------------------------
(* Sets of indices *)

\* A set of nonzero scalars that is listed without repetition is finite, listed
\* in full, and a list of indices that is not refused.
LEMMA ListedIndices ==
    ASSUME NEW S \in SUBSET (Field \ {0}), S # {},
           NEW q \in [1 .. Cardinality(S) -> S], IsInjective(q)
    PROVE  /\ IsFiniteSet(S)
           /\ Cardinality(S) \in Nat
           /\ q \in Seq(Field) /\ Len(q) = Cardinality(S) /\ DOMAIN q = 1 .. Cardinality(S)
           /\ ~Refused(q)
           /\ {q[i] : i \in DOMAIN q} = S
           /\ \A i, j \in DOMAIN q : q[i] = q[j] => i = j
<1> DEFINE n == Cardinality(S)
<1>1. IsFiniteSet(S) /\ n \in Nat
  <2>1. IsFiniteSet(Field)
    BY FS_Interval, FieldAssumption DEF Field
  <2> QED BY <2>1, FS_Subset, FS_CardinalityType
<1>2. n # 0
  BY <1>1, FS_EmptySet
<1> HIDE DEF n
<1>3. DOMAIN q = 1 .. n /\ \A i \in 1 .. n : q[i] \in S
  BY DEF n
<1>4. q \in Seq(Field) /\ Len(q) = n
  BY <1>1, <1>3 DEF n
<1>5. \A i, j \in DOMAIN q : q[i] = q[j] => i = j
  BY Zenon DEF IsInjective
<1>6. ~Refused(q)
  <2>1. q # <<>>
    BY <1>1, <1>2, <1>4
  <2>2. 0 \notin Range(q)
    BY <1>3 DEF Range
  <2> QED BY <2>1, <2>2 DEF Refused
<1>7. {q[i] : i \in DOMAIN q} = S
  <2>1. q \in Injection(1 .. n, S)
    BY <1>3, <1>5 DEF Injection, IsInjective, n
  <2>2. Cardinality(1 .. n) = n
    BY <1>1, <1>2, FS_Interval
  <2>3. q \in Surjection(1 .. n, S)
    BY <1>1, <2>1, <2>2, FS_Injection DEF n
  <2> QED BY <1>3, <2>3 DEF Surjection
<1> QED BY <1>1, <1>3, <1>4, <1>5, <1>6, <1>7 DEF n

\* What a list of holders reconstructs of what each of them has
Reconstructed(q, v) == Sum([n \in DOMAIN q |-> Mul(Coefficients(q)[n], v[q[n]])], DOMAIN q)

\* What holders listed in some order reconstruct of shares on one polynomial is
\* its constant term.
THEOREM ListReconstructs ==
    ASSUME NEW S \in SUBSET (Field \ {0}),
           NEW q \in [1 .. Cardinality(S) -> S], IsInjective(q),
           NEW a \in Seq(Field), Len(a) \in 1 .. Cardinality(S),
           NEW v, \A x \in S : v[x] = Evaluate(a, x)
    PROVE  Reconstructed(q, v) = a[1]
<1>1. S # {}
  BY FS_EmptySet
<1>2. /\ q \in Seq(Field) /\ Len(q) = Cardinality(S) /\ ~Refused(q)
      /\ DOMAIN q = 1 .. Cardinality(S)
  BY <1>1, ListedIndices
<1>3. \A n \in DOMAIN q : v[q[n]] = Evaluate(a, q[n])
  BY <1>2
<1>4. [n \in DOMAIN q |-> Mul(Coefficients(q)[n], v[q[n]])]
        = [n \in DOMAIN q |-> Mul(Coefficients(q)[n], Evaluate(a, q[n]))]
  BY <1>3
<1>5. Sum([n \in DOMAIN q |-> Mul(Coefficients(q)[n], Evaluate(a, q[n]))], DOMAIN q) = a[1]
  BY <1>2, LagrangeReconstructs
<1> QED BY <1>4, <1>5 DEF Reconstructed

\* What weights w looked up by index make of a polynomial's values over S
Reweighed(w, a, S) == Sum([x \in S |-> Mul(w[x], Evaluate(a, x))], S)

\* The weights reconstruct as well when they are looked up by index.
THEOREM WeightsReconstruct ==
    ASSUME NEW S \in SUBSET (Field \ {0}),
           NEW q \in [1 .. Cardinality(S) -> S], IsInjective(q),
           NEW w, \A i \in DOMAIN q : w[q[i]] = Coefficients(q)[i],
           NEW a \in Seq(Field), Len(a) \in 1 .. Cardinality(S)
    PROVE  Reweighed(w, a, S) = a[1]
<1> DEFINE f == [x \in S |-> Mul(w[x], Evaluate(a, x))]
           g == [i \in DOMAIN q |-> Mul(Coefficients(q)[i], Evaluate(a, q[i]))]
<1>1. S # {}
  BY FS_EmptySet
<1>2. /\ q \in Seq(Field) /\ Len(q) = Cardinality(S) /\ ~Refused(q)
      /\ IsFiniteSet(S) /\ Cardinality(S) \in Nat /\ {q[i] : i \in DOMAIN q} = S
      /\ \A i, j \in DOMAIN q : q[i] = q[j] => i = j
  BY <1>1, ListedIndices
<1>3. \A x \in S : f[x] \in Field
  <2> TAKE x \in S
  <2>1. PICK i \in DOMAIN q : q[i] = x
    BY <1>2
  <2>2. w[x] \in Field
    BY <1>2, <2>1, CoefficientsDivide
  <2>3. Evaluate(a, x) \in Field
    BY EvaluateInField
  <2> QED BY <2>2, <2>3, FieldClosed
<1>4. \A i \in DOMAIN q : g[i] = f[q[i]]
  OBVIOUS
<1>5. Sum(f, S) = Sum(g, DOMAIN q)
  <2> DEFINE I == DOMAIN q
  <2>1. IsFiniteSet(I)
    <3>1. I = 1 .. Cardinality(S) /\ Cardinality(S) \in Nat
      BY <1>2
    <3> QED BY <3>1, FS_Interval
  <2>2. /\ \A i \in I : q[i] \in S
        /\ \A x \in S : \E i \in I : x = q[i]
        /\ \A i, j \in I : q[i] = q[j] => i = j
    BY <1>2
  <2> HIDE DEF f, g, I
  <2>3. \A i \in I : f[q[i]] \in Field /\ g[i] = f[q[i]]
    BY <1>3, <1>4, <2>2 DEF I
  <2>4. Sum(f, S) = Sum(g, I)
    <3>1. Reindexes(q, I, S, f, g)
      BY <2>1, <2>2, <2>3 DEF Reindexes
    <3> QED BY <3>1, SumReindexed
  <2> QED BY <2>4 DEF I
<1>6. Sum(g, DOMAIN q) = a[1]
  BY <1>2, LagrangeReconstructs
<1> QED BY <1>5, <1>6 DEF Reweighed

\* A finite set of numbers can be listed in ascending order.
LEMMA AscendingExists ==
    ASSUME NEW S \in SUBSET Nat, IsFiniteSet(S)
    PROVE  \E q \in [1 .. Cardinality(S) -> S] : \A i, j \in DOMAIN q : i < j => q[i] < q[j]
<1> DEFINE Asc(q) == \A i, j \in DOMAIN q : i < j => q[i] < q[j]
           T == {s \in SUBSET S : \E q \in [1 .. Cardinality(s) -> s] : Asc(q)}
<1>1. {} \in T
  <2> DEFINE q == [i \in 1 .. Cardinality({}) |-> i]
  <2>1. 1 .. Cardinality({}) = {}
    BY FS_EmptySet
  <2>2. q \in [1 .. Cardinality({}) -> {}] /\ Asc(q)
    BY <2>1
  <2> QED BY <2>2
<1>2. \A s \in SUBSET S : s # {} /\ (\A x \in s : s \ {x} \in T) => s \in T
  <2> TAKE s \in SUBSET S
  <2> SUFFICES ASSUME s # {}, \A x \in s : s \ {x} \in T PROVE s \in T
    OBVIOUS
  <2>1. PICK m \in s : \A k \in s : m <= k
    BY LeastOf
  <2> DEFINE r == s \ {m}
             n == Cardinality(s)
  <2>2. IsFiniteSet(s) /\ n \in Nat /\ Cardinality(r) \in Nat /\ Cardinality(r) = n - 1
    BY <2>1, FS_Subset, TakeOut
  <2>3. PICK q \in [1 .. Cardinality(r) -> r] : Asc(q)
    BY <2>1
  <2> HIDE DEF n
  <2>4. q \in [1 .. n - 1 -> r] /\ n >= 1
    <3>1. n >= 1
      <4> HIDE DEF r
      <4> QED BY <2>2
    <3>2. q \in [1 .. n - 1 -> r]
      <4> HIDE DEF r
      <4> QED BY <2>2, <2>3, Zenon
    <3> QED BY <3>1, <3>2
  <2>5. \A k \in r : m < k
    <3> TAKE k \in r
    <3>1. m <= k /\ m # k /\ m \in Nat /\ k \in Nat
      BY <2>1
    <3> QED BY <3>1
  <2> DEFINE u == [i \in 1 .. n |-> IF i = 1 THEN m ELSE q[i - 1]]
  <2>6. \A i \in 1 .. n : i # 1 => i - 1 \in 1 .. n - 1 /\ u[i] = q[i - 1] /\ u[i] \in r
    <3> TAKE i \in 1 .. n
    <3> SUFFICES ASSUME i # 1 PROVE i - 1 \in 1 .. n - 1 /\ u[i] = q[i - 1] /\ u[i] \in r
      OBVIOUS
    <3>1. i - 1 \in 1 .. n - 1
      BY <2>2
    <3>2. u[i] = q[i - 1]
      OBVIOUS
    <3> HIDE DEF u, r
    <3> QED BY <2>4, <3>1, <3>2
  <2>7. u \in [1 .. n -> s]
    <3>1. \A i \in 1 .. n : u[i] \in s
      BY <2>1, <2>6
    <3> QED BY <3>1
  <2>8. ASSUME NEW i \in 1 .. n, NEW j \in 1 .. n, i < j PROVE u[i] < u[j]
    <3>1. j # 1 /\ u[j] \in r /\ u[j] = q[j - 1] /\ j - 1 \in 1 .. n - 1
      <4>1. j # 1
        BY <2>2, <2>8
      <4> HIDE DEF u, r
      <4> QED BY <2>6, <4>1
    <3>2. CASE i = 1
      BY <2>5, <3>1, <3>2
    <3>3. CASE i # 1
      <4>1. u[i] = q[i - 1] /\ i - 1 \in 1 .. n - 1 /\ i - 1 < j - 1
        BY <2>2, <2>6, <2>8, <3>3
      <4>2. DOMAIN q = 1 .. n - 1
        BY <2>4
      <4> HIDE DEF u
      <4> QED BY <2>3, <3>1, <4>1, <4>2
    <3> QED BY <3>2, <3>3
  <2>9. Asc(u)
    <3>1. DOMAIN u = 1 .. n
      OBVIOUS
    <3> HIDE DEF u
    <3> QED BY <2>8, <3>1
  <2> HIDE DEF u
  <2> QED BY <2>7, <2>9 DEF n
<1>3. S \in T
  <2> HIDE DEF T
  <2>1. S \in SUBSET S
    OBVIOUS
  <2> QED BY <1>1, <1>2, <2>1, SubsetsInductive
<1> QED BY <1>3

-----------------------------------------------------------------------------
(* Polynomials that are sums of others *)

\* The terms of a polynomial of n coefficients at x
Terms(n, a, x) == [j \in 1 .. n |-> Mul(a[j], Power(x, j - 1))]

\* The powers that polynomials are sums of are scalars.
LEMMA PlacePower ==
    ASSUME NEW n \in Nat, NEW j \in 1 .. n, NEW x \in Field
    PROVE  Power(x, j - 1) \in Field
<1>1. j - 1 \in Nat
  OBVIOUS
<1> QED BY <1>1, Powers

\* A list of n coefficients is evaluated over 1 .. n.
LEMMA EvaluateOver ==
    ASSUME NEW n \in Nat, NEW a \in [1 .. n -> Field], NEW x \in Field
    PROVE  /\ \A j \in 1 .. n : /\ Terms(n, a, x)[j] = Mul(a[j], Power(x, j - 1))
                                /\ Terms(n, a, x)[j] \in Field
           /\ Evaluate(a, x) = Sum(Terms(n, a, x), 1 .. n)
           /\ Evaluate(a, x) \in Field
<1>1. a \in Seq(Field) /\ DOMAIN a = 1 .. n
  OBVIOUS
<1>2. ASSUME NEW j \in 1 .. n PROVE Mul(a[j], Power(x, j - 1)) \in Field
  <2>1. a[j] \in Field
    OBVIOUS
  <2> QED BY <2>1, PlacePower, FieldClosed
<1>3. Evaluate(a, x) = Sum([j \in 1 .. n |-> Mul(a[j], Power(x, j - 1))], 1 .. n)
  BY <1>1, EvaluateIsSum
<1>4. Evaluate(a, x) \in Field
  BY <1>1, EvaluateInField
<1> QED BY <1>2, <1>3, <1>4 DEF Terms

\* The sum of two polynomials has the sum of their values.
LEMMA EvaluateAdds ==
    ASSUME NEW n \in Nat, NEW a \in [1 .. n -> Field], NEW b \in [1 .. n -> Field],
           NEW c \in [1 .. n -> Field], \A j \in 1 .. n : c[j] = Add(a[j], b[j]),
           NEW x \in Field
    PROVE  Evaluate(c, x) = Add(Evaluate(a, x), Evaluate(b, x))
<1> DEFINE J == 1 .. n
           t(p) == Terms(n, p, x)
<1>1. IsFiniteSet(J)
  BY FS_Interval
<1>2. /\ Evaluate(a, x) = Sum(t(a), J) /\ Evaluate(b, x) = Sum(t(b), J)
      /\ Evaluate(c, x) = Sum(t(c), J)
  BY EvaluateOver
<1>3. \A j \in J : /\ t(a)[j] \in Field /\ t(a)[j] = Mul(a[j], Power(x, j - 1))
                   /\ t(b)[j] \in Field /\ t(b)[j] = Mul(b[j], Power(x, j - 1))
                   /\ t(c)[j] = Mul(Add(a[j], b[j]), Power(x, j - 1))
                   /\ a[j] \in Field /\ b[j] \in Field /\ Power(x, j - 1) \in Field
  <2> TAKE j \in J
  <2>1. Power(x, j - 1) \in Field
    BY PlacePower
  <2> QED BY <2>1, EvaluateOver
<1> HIDE DEF t, J
<1>4. \A j \in J : t(a)[j] \in Field /\ t(b)[j] \in Field /\ t(c)[j] = Add(t(a)[j], t(b)[j])
  <2> TAKE j \in J
  <2> DEFINE r == Power(x, j - 1)
  <2>1. /\ t(c)[j] = Mul(Add(a[j], b[j]), r) /\ t(a)[j] = Mul(a[j], r) /\ t(b)[j] = Mul(b[j], r)
        /\ r \in Field /\ a[j] \in Field /\ b[j] \in Field
    BY <1>3
  <2> HIDE DEF r
  <2>2. Add(a[j], b[j]) \in Field
    BY <2>1, FieldClosed
  <2>3. /\ Mul(Add(a[j], b[j]), r) = Mul(r, Add(a[j], b[j]))
        /\ Mul(a[j], r) = Mul(r, a[j]) /\ Mul(b[j], r) = Mul(r, b[j])
    BY <2>1, <2>2, FieldCommutes
  <2>4. Mul(r, Add(a[j], b[j])) = Add(Mul(r, a[j]), Mul(r, b[j]))
    BY <2>1, Distributes
  <2> QED BY <1>3, <2>1, <2>3, <2>4
<1>5. Sum(t(c), J) = Add(Sum(t(a), J), Sum(t(b), J))
  BY <1>1, <1>4, SumOfSums
<1> QED BY <1>2, <1>5

\* The sum of the polynomials A[d] of n coefficients
Together(D, n, A) == [j \in 1 .. n |-> Sum([d \in D |-> A[d][j]], D)]

\* The sum of a finite family of polynomials has the sum of their values.
LEMMA EvaluateSums ==
    ASSUME NEW D, IsFiniteSet(D), NEW n \in Nat,
           NEW A, \A d \in D : A[d] \in [1 .. n -> Field], NEW x \in Field
    PROVE  /\ Together(D, n, A) \in [1 .. n -> Field]
           /\ Evaluate(Together(D, n, A), x) = Sum([d \in D |-> Evaluate(A[d], x)], D)
<1> DEFINE J == 1 .. n
           c == Together(D, n, A)
           F == [d \in D |-> Terms(n, A[d], x)]
           G == [j \in J |-> Sum([d \in D |-> F[d][j]], D)]
<1>0. c = [j \in J |-> Sum([d \in D |-> A[d][j]], D)]
  BY DEF Together
<1> HIDE DEF c
<1>1. \A d \in D : \A j \in J : A[d][j] \in Field
  OBVIOUS
<1>2. \A j \in J : c[j] \in Field
  <2> TAKE j \in J
  <2> DEFINE t == [d \in D |-> A[d][j]]
  <2>1. \A d \in D : t[d] \in Field
    BY <1>1
  <2>2. Sum(t, D) \in Field
    <3> HIDE DEF t
    <3> QED BY <2>1, SumInField
  <2> QED BY <1>0, <2>2
<1>3. c \in [1 .. n -> Field]
  BY <1>0, <1>2
<1>4. \A d \in D : /\ Evaluate(A[d], x) = Sum(F[d], J)
                   /\ \A j \in J : F[d][j] = Mul(A[d][j], Power(x, j - 1)) /\ F[d][j] \in Field
  <2> TAKE d \in D
  <2> DEFINE p == A[d]
  <2>1. p \in [1 .. n -> Field]
    OBVIOUS
  <2>2. F[d] = Terms(n, p, x)
    OBVIOUS
  <2> HIDE DEF p, F
  <2>3. /\ Evaluate(p, x) = Sum(F[d], J)
        /\ \A j \in J : F[d][j] = Mul(p[j], Power(x, j - 1)) /\ F[d][j] \in Field
    BY <2>1, <2>2, EvaluateOver
  <2> QED BY <2>3 DEF p
<1>5. Sum([d \in D |-> Evaluate(A[d], x)], D) = Sum(G, J)
  <2>1. [d \in D |-> Evaluate(A[d], x)] = [d \in D |-> Sum(F[d], J)]
    BY <1>4
  <2>2. IsFiniteSet(J)
    BY FS_Interval
  <2> HIDE DEF F, J
  <2>3. \A d \in D, j \in J : F[d][j] \in Field
    BY <1>4
  <2>4. Sum([d \in D |-> Sum(F[d], J)], D) = Sum([j \in J |-> Sum([d \in D |-> F[d][j]], D)], J)
    BY <2>2, <2>3, SumExchange, Zenon
  <2> QED BY <2>1, <2>4, Zenon
<1>6. \A j \in J : G[j] = Mul(c[j], Power(x, j - 1))
  <2> TAKE j \in J
  <2> DEFINE t == [d \in D |-> A[d][j]]
             h == [d \in D |-> F[d][j]]
             r == Power(x, j - 1)
  <2>1. r \in Field
    BY PlacePower
  <2>2. \A d \in D : t[d] \in Field /\ h[d] = Mul(r, t[d])
    <3> TAKE d \in D
    <3>1. t[d] \in Field /\ h[d] = Mul(t[d], r)
      BY <1>1, <1>4
    <3> HIDE DEF t, h, r
    <3> QED BY <2>1, <3>1, FieldCommutes
  <2>3. Sum(t, D) \in Field /\ Sum(h, D) = Mul(r, Sum(t, D))
    <3> HIDE DEF t, h, r
    <3> QED BY <2>1, <2>2, SumScaled, SumInField
  <2>4. c[j] = Sum(t, D) /\ G[j] = Sum(h, D)
    BY <1>0
  <2>5. G[j] = Mul(c[j], r)
    <3> HIDE DEF t, h, r, G
    <3> QED BY <2>1, <2>3, <2>4, FieldCommutes
  <2> QED BY <2>5
<1>7. Evaluate(c, x) = Sum(Terms(n, c, x), J) /\ Terms(n, c, x) = G
  <2>1. \A j \in J : Terms(n, c, x)[j] = G[j]
    <3> HIDE DEF G
    <3> QED BY <1>3, <1>6, EvaluateOver
  <2>2. Terms(n, c, x) = [j \in J |-> Terms(n, c, x)[j]]
    BY DEF Terms
  <2>3. G = [j \in J |-> G[j]]
    OBVIOUS
  <2>4. Terms(n, c, x) = G
    <3> HIDE DEF G, J
    <3> QED BY <2>1, <2>2, <2>3
  <2> QED BY <1>3, <2>4, EvaluateOver
<1> HIDE DEF G
<1>8. Evaluate(c, x) = Sum([d \in D |-> Evaluate(A[d], x)], D)
  BY <1>5, <1>7
<1> QED BY <1>3, <1>8 DEF c

\* A polynomial in two variables is evaluated in either order.
LEMMA EvaluateExchange ==
    ASSUME NEW m \in Nat, NEW n \in Nat, NEW A \in [1 .. m -> [1 .. n -> Field]],
           NEW x \in Field, NEW y \in Field
    PROVE  Evaluate([c \in 1 .. m |-> Evaluate(A[c], x)], y)
             = Evaluate([l \in 1 .. n |-> Evaluate([c \in 1 .. m |-> A[c][l]], y)], x)
<1> DEFINE M == 1 .. m
           L == 1 .. n
           B == [c \in M |-> [l \in L |-> Mul(Power(y, c - 1), A[c][l])]]
           u == [c \in M |-> Evaluate(A[c], x)]
           v == [l \in L |-> Evaluate([c \in M |-> A[c][l]], y)]
           w == Together(M, n, B)
<1>1. IsFiniteSet(M) /\ IsFiniteSet(L)
  BY FS_Interval
<1>2. \A c \in M : Power(y, c - 1) \in Field
  BY PlacePower
<1>3. \A c \in M : \A l \in L : A[c][l] \in Field /\ B[c][l] = Mul(Power(y, c - 1), A[c][l])
                                  /\ B[c][l] \in Field
  <2> TAKE c \in M
  <2> TAKE l \in L
  <2>1. A[c][l] \in Field /\ B[c][l] = Mul(Power(y, c - 1), A[c][l])
    OBVIOUS
  <2> QED BY <1>2, <2>1, FieldClosed
<1>4. \A c \in M : A[c] \in [1 .. n -> Field] /\ B[c] \in [1 .. n -> Field]
  BY <1>3
<1>5. \A c \in M : Evaluate(B[c], x) = Mul(Power(y, c - 1), Evaluate(A[c], x))
                   /\ Evaluate(A[c], x) \in Field
  <2> TAKE c \in M
  <2> DEFINE r == Power(y, c - 1)
             p == A[c]
             q == B[c]
             t == Terms(n, p, x)
             h == Terms(n, q, x)
  <2>1. /\ p \in [1 .. n -> Field] /\ q \in [1 .. n -> Field] /\ r \in Field
        /\ \A l \in L : p[l] \in Field /\ q[l] = Mul(r, p[l])
    BY <1>2, <1>3, <1>4
  <2> HIDE DEF p, q, r, B
  <2>2. /\ Evaluate(p, x) = Sum(t, L) /\ Evaluate(p, x) \in Field /\ Evaluate(q, x) = Sum(h, L)
        /\ \A l \in L : /\ t[l] \in Field /\ t[l] = Mul(p[l], Power(x, l - 1))
                        /\ h[l] = Mul(q[l], Power(x, l - 1))
    BY <2>1, EvaluateOver
  <2>3. \A l \in L : Power(x, l - 1) \in Field
    BY PlacePower
  <2> HIDE DEF t, h, L
  <2>4. \A l \in L : t[l] \in Field /\ h[l] = Mul(r, t[l])
    <3> TAKE l \in L
    <3> DEFINE z == Power(x, l - 1)
    <3>1. z \in Field /\ p[l] \in Field /\ t[l] = Mul(p[l], z) /\ h[l] = Mul(Mul(r, p[l]), z)
      BY <2>1, <2>2, <2>3
    <3> HIDE DEF z
    <3>2. Mul(r, Mul(p[l], z)) = Mul(Mul(r, p[l]), z)
      BY <2>1, <3>1, MulAssociates
    <3> QED BY <2>2, <3>1, <3>2
  <2>5. Sum(h, L) = Mul(r, Sum(t, L))
    BY <1>1, <2>1, <2>4, SumScaled
  <2>6. Evaluate(q, x) = Mul(r, Evaluate(p, x)) /\ Evaluate(p, x) \in Field
    BY <2>2, <2>5
  <2> QED BY <2>6 DEF p, q, r
<1>6. Evaluate(u, y) = Sum([c \in M |-> Evaluate(B[c], x)], M)
  <2> DEFINE t == Terms(m, u, y)
  <2>1. \A c \in M : u[c] \in Field /\ u[c] = Evaluate(A[c], x)
    BY <1>5
  <2>2. u \in [1 .. m -> Field]
    BY <2>1
  <2> HIDE DEF u
  <2>3. Evaluate(u, y) = Sum(t, M) /\ \A c \in M : t[c] = Mul(u[c], Power(y, c - 1))
    BY <2>2, EvaluateOver
  <2>4. t = [c \in M |-> t[c]]
    BY DEF Terms
  <2> HIDE DEF t, M, B
  <2>5. \A c \in M : t[c] = Evaluate(B[c], x)
    <3> TAKE c \in M
    <3>1. u[c] \in Field /\ Power(y, c - 1) \in Field /\ Evaluate(B[c], x) = Mul(Power(y, c - 1), u[c])
      BY <1>2, <1>5, <2>1
    <3> QED BY <2>3, <3>1, FieldCommutes
  <2>6. t = [c \in M |-> Evaluate(B[c], x)]
    BY <2>4, <2>5
  <2> QED BY <2>3, <2>6, Zenon
<1>7. Evaluate(w, x) = Sum([c \in M |-> Evaluate(B[c], x)], M)
  <2>1. IsFiniteSet(M) /\ \A c \in M : B[c] \in [1 .. n -> Field]
    BY <1>1, <1>4
  <2> HIDE DEF B, M
  <2> QED BY <2>1, EvaluateSums, Zenon
<1>8. \A l \in L : w[l] = v[l]
  <2> TAKE l \in L
  <2> DEFINE a == [c \in M |-> A[c][l]]
             t == Terms(m, a, y)
  <2>1. a \in [1 .. m -> Field] /\ \A c \in M : a[c] = A[c][l]
    BY <1>3
  <2> HIDE DEF a
  <2>2. Evaluate(a, y) = Sum(t, M) /\ \A c \in M : t[c] = Mul(a[c], Power(y, c - 1))
    BY <2>1, EvaluateOver
  <2>3. t = [c \in M |-> t[c]]
    BY DEF Terms
  <2> HIDE DEF t
  <2>4. \A c \in M : t[c] = B[c][l]
    <3> TAKE c \in M
    <3> HIDE DEF B, M, L
    <3>1. A[c][l] \in Field /\ Power(y, c - 1) \in Field /\ B[c][l] = Mul(Power(y, c - 1), A[c][l])
      BY <1>2, <1>3
    <3> QED BY <2>1, <2>2, <3>1, FieldCommutes
  <2>5. t = [c \in M |-> B[c][l]]
    <3> HIDE DEF B, M
    <3> QED BY <2>3, <2>4
  <2>6. w[l] = Sum([c \in M |-> B[c][l]], M) /\ v[l] = Evaluate(a, y)
    BY DEF a, Together
  <2> HIDE DEF B, w, v
  <2> QED BY <2>2, <2>5, <2>6, Zenon
<1>9. w = v
  <2>1. w = [l \in L |-> w[l]] /\ v = [l \in L |-> v[l]]
    BY DEF Together
  <2> HIDE DEF w, v, L
  <2> QED BY <1>8, <2>1
<1> HIDE DEF w
<1> QED BY <1>6, <1>7, <1>9
=============================================================================
