--------------------------- MODULE AlgebraProofs ---------------------------
(***************************************************************************)
(* The crate's algebra for every prime field, group, threshold and draw:   *)
(* the one-inversion algorithm answers where its answer is defined and     *)
(* reconstructs, any quorum of holders speaks for a nested position, and   *)
(* the batch check passes good batches and catches bad ones.               *)
(*                                                                         *)
(* The argument for the nested position: what the holders keep are values  *)
(* of polynomials with the inner threshold's length, one for each sum the  *)
(* code computes.  The invariant says that every holder has its shares of  *)
(* one draw and its pieces of the published splits; sums of polynomials    *)
(* and a polynomial in two variables evaluated in either order then give   *)
(* the polynomial that a quorum interpolates.                              *)
(*                                                                         *)
(* The argument for batches: if a value differs from its promise, then a   *)
(* passing choice of weights, changed at that place by each scalar, gives  *)
(* P choices, and different passing ones give different choices.           *)
(***************************************************************************)
EXTENDS MCAlgebra, LagrangeProofs
-----------------------------------------------------------------------------
(* EvalAt and Evaluate *)

\* The recursive function in the definition of EvalAt, from the first coefficient
\* up
PowersIter(a, x) ==
    CHOOSE iter : iter =
        [s \in SUBSET (DOMAIN a) |->
            IF s = {} THEN [power |-> 1, sum |-> 0]
            ELSE [power |-> Mul(iter[s \ {Max(s)}].power, x),
                  sum   |-> Add(iter[s \ {Max(s)}].sum, Mul(a[Max(s)], iter[s \ {Max(s)}].power))]]

\* The running sum of powers ends at the value of that function at the whole list.
LEMMA EvalAtIsIter ==
    ASSUME NEW a, NEW x
    PROVE  EvalAt(a, x) = PowersIter(a, x)[DOMAIN a].sum
BY DEF EvalAt, FoldLeft, MapThenFoldSet, PowersIter

\* A nonempty set of places in a list has a greatest one, and Max is it.
LEMMA MaxOfPlaces ==
    ASSUME NEW n \in Nat, NEW s \in SUBSET (1 .. n), s # {}
    PROVE  Max(s) \in s /\ \A k \in s : k <= Max(s)
<1> DEFINE U == {m \in Nat : n - m \in s}
<1>1. U \in SUBSET Nat /\ U # {}
  <2>1. PICK k \in s : TRUE
    OBVIOUS
  <2>2. n - k \in Nat /\ n - (n - k) = k
    BY <2>1
  <2>3. n - k \in U
    BY <2>2
  <2> QED BY <2>3
<1>2. PICK m \in U : \A o \in U : m <= o
  <2> HIDE DEF U
  <2> QED BY <1>1, LeastOf
<1>3. n - m \in s /\ \A k \in s : n - m >= k
  <2>1. n - m \in s /\ m \in Nat
    OBVIOUS
  <2>2. ASSUME NEW k \in s PROVE n - m >= k
    <3>1. k \in 1 .. n
      OBVIOUS
    <3>2. n - k \in Nat /\ n - (n - k) = k
      BY <3>1
    <3>3. n - k \in U
      BY <3>2
    <3>4. m <= n - k
      BY <1>2, <3>3
    <3> QED BY <2>1, <3>1, <3>4
  <2> QED BY <2>1, <2>2
<1>4. \E y \in s : \A k \in s : y >= k
  BY <1>3
<1>5. Max(s) \in s /\ \A k \in s : Max(s) >= k
  BY <1>4, Zenon DEF Max
<1>6. \A k \in s : k \in Int /\ Max(s) \in Int
  <2>1. \A k \in 1 .. n : k \in Int
    OBVIOUS
  <2> QED BY <1>5, <2>1
<1> QED BY <1>5, <1>6

\* The function exists, and so it satisfies its equation.
LEMMA PowersStep ==
    ASSUME NEW a \in Seq(Field), NEW x \in Field, NEW s \in SUBSET (DOMAIN a)
    PROVE  PowersIter(a, x)[s] =
             IF s = {} THEN [power |-> 1, sum |-> 0]
             ELSE [power |-> Mul(PowersIter(a, x)[s \ {Max(s)}].power, x),
                   sum   |-> Add(PowersIter(a, x)[s \ {Max(s)}].sum,
                                 Mul(a[Max(s)], PowersIter(a, x)[s \ {Max(s)}].power))]
<1> DEFINE S == DOMAIN a
           X == [power : Field, sum : Field]
           base == [power |-> 1, sum |-> 0]
           next(v, k) == [power |-> Mul(v.power, x), sum |-> Add(v.sum, Mul(a[k], v.power))]
           step == [t \in SUBSET S |-> [v \in X |-> IF t = {} THEN base ELSE next(v, Max(t))]]
           ch == [t \in SUBSET S |-> Max(t)]
<1>0. S = 1 .. Len(a) /\ Len(a) \in Nat /\ \A k \in S : a[k] \in Field
  OBVIOUS
<1> HIDE DEF S
<1>1. \A t \in SUBSET S : t # {} => Max(t) \in t
  BY <1>0, MaxOfPlaces
<1>2. base \in X
  BY FieldConstants
<1>3. IsFiniteSet(S)
  BY <1>0, FS_Interval
<1>4. step \in [SUBSET S -> [X -> X]]
  <2> SUFFICES ASSUME NEW t \in SUBSET S, NEW v \in X, t # {} PROVE next(v, Max(t)) \in X
    BY <1>2
  <2>1. a[Max(t)] \in Field /\ v.power \in Field /\ v.sum \in Field
    BY <1>0, <1>1
  <2>2. Mul(v.power, x) \in Field /\ Mul(a[Max(t)], v.power) \in Field
    BY <2>1, FieldClosed
  <2>3. Add(v.sum, Mul(a[Max(t)], v.power)) \in Field
    BY <2>1, <2>2, FieldClosed
  <2> QED BY <2>2, <2>3
<1> HIDE DEF X, base, next
<1>5. PICK g \in [SUBSET S -> X] : Recursive(g, S, base, step, ch)
  <2>1. \A t \in SUBSET S : t # {} => ch[t] \in t
    BY <1>1
  <2> HIDE DEF step, ch
  <2> QED BY <1>2, <1>3, <1>4, <2>1, Recursion, Zenon
<1>6. \A t \in SUBSET S :
        g[t] = IF t = {} THEN base ELSE next(g[t \ {Max(t)}], Max(t))
  <2> TAKE t \in SUBSET S
  <2>1. t \ {Max(t)} \in SUBSET S /\ ch[t] = Max(t)
    OBVIOUS
  <2>2. g[t \ {Max(t)}] \in X
    BY <2>1
  <2>3. t # {} => step[t][g[t \ {ch[t]}]] = next(g[t \ {Max(t)}], Max(t))
    BY <2>1, <2>2
  <2>4. g[t] = IF t = {} THEN base ELSE step[t][g[t \ {ch[t]}]]
    <3> HIDE DEF step, ch
    <3> QED BY <1>5 DEF Recursive
  <2> HIDE DEF step, ch
  <2> QED BY <2>3, <2>4
<1>7. g = [t \in SUBSET S |-> IF t = {} THEN base ELSE next(g[t \ {Max(t)}], Max(t))]
  BY <1>6
<1>8. PowersIter(a, x) =
        [t \in SUBSET S |->
            IF t = {} THEN base ELSE next(PowersIter(a, x)[t \ {Max(t)}], Max(t))]
  <2> HIDE DEF step, ch
  <2> QED BY <1>7, Zenon DEF PowersIter, S, base, next
<1>9. s \in SUBSET S
  BY DEF S
<1>10. PowersIter(a, x)[s] =
         IF s = {} THEN base ELSE next(PowersIter(a, x)[s \ {Max(s)}], Max(s))
  BY <1>8, <1>9, Zenon
<1> QED BY <1>10 DEF base, next

\* The running sum of powers is the polynomial's value, as Horner's rule gives it.
LEMMA EvalAtIsEvaluate ==
    ASSUME NEW a \in Seq(Field), NEW x \in Field
    PROVE  EvalAt(a, x) = Evaluate(a, x)
<1> DEFINE n == Len(a)
           t == Terms(n, a, x)
           h(k) == PowersIter(a, x)[1 .. k]
           T == {k \in Nat : k <= n => h(k).power = Power(x, k) /\ h(k).sum = Sum(t, 1 .. k)}
<1>0. /\ n \in Nat /\ DOMAIN a = 1 .. n /\ a \in [1 .. n -> Field]
      /\ \A k \in 1 .. n : a[k] \in Field
  OBVIOUS
<1> HIDE DEF n
<1>1. \A k \in 1 .. n : t[k] \in Field /\ t[k] = Mul(a[k], Power(x, k - 1))
  BY <1>0, EvaluateOver
<1>2. Evaluate(a, x) = Sum(t, 1 .. n)
  BY <1>0, EvaluateOver
<1> HIDE DEF t
<1>3. 0 \in T
  <2>1. 1 .. 0 = {}
    OBVIOUS
  <2>2. h(0) = [power |-> 1, sum |-> 0]
    <3>1. PowersIter(a, x)[{}] = [power |-> 1, sum |-> 0]
      BY PowersStep
    <3> QED BY <2>1, <3>1
  <2>3. Sum(t, {}) = 0 /\ Power(x, 0) = 1
    BY SumEmpty, Powers
  <2> HIDE DEF h
  <2>4. h(0).power = Power(x, 0) /\ h(0).sum = Sum(t, 1 .. 0)
    BY <2>1, <2>2, <2>3
  <2> QED BY <2>4
<1>4. ASSUME NEW k \in Nat, k \in T PROVE k + 1 \in T
  <2> SUFFICES ASSUME k + 1 <= n
               PROVE  h(k + 1).power = Power(x, k + 1) /\ h(k + 1).sum = Sum(t, 1 .. (k + 1))
    OBVIOUS
  <2> DEFINE l == k + 1
             s == 1 .. l
             R == 1 .. k
  <2>1. l \in 1 .. n /\ l - 1 = k /\ l \in s /\ s \subseteq 1 .. n /\ s = R \cup {l} /\ l \notin R
    BY <1>0
  <2>2. h(k).power = Power(x, k) /\ h(k).sum = Sum(t, R)
    BY <1>0, <1>4
  <2>3. Max(s) = l
    <3>1. Max(s) \in s /\ l <= Max(s)
      BY <1>0, <2>1, MaxOfPlaces
    <3> QED BY <2>1, <3>1
  <2>4. /\ h(l).power = Mul(h(k).power, x)
        /\ h(l).sum = Add(h(k).sum, Mul(a[l], h(k).power))
    <3>1. s \in SUBSET (DOMAIN a) /\ s # {} /\ s \ {l} = R
      BY <1>0, <2>1
    <3> DEFINE pi == PowersIter(a, x)
    <3>2. pi[s] = [power |-> Mul(pi[R].power, x), sum |-> Add(pi[R].sum, Mul(a[l], pi[R].power))]
      <4> HIDE DEF s, R, l
      <4> QED BY <2>3, <3>1, PowersStep
    <3> HIDE DEF pi
    <3>3. /\ pi[s].power = Mul(pi[R].power, x)
          /\ pi[s].sum = Add(pi[R].sum, Mul(a[l], pi[R].power))
      <4> HIDE DEF s, R, l
      <4> QED BY <3>2
    <3> QED BY <3>3 DEF pi
  <2>5. Power(x, k) \in Field /\ Power(x, l) = Mul(x, Power(x, k))
    BY Powers
  <2>6. h(l).power = Power(x, l)
    <3> HIDE DEF h, l
    <3> QED BY <2>2, <2>4, <2>5, FieldCommutes
  <2>7. IsFiniteSet(R) /\ \A j \in R \cup {l} : t[j] \in Field
    <3>1. IsFiniteSet(R)
      BY FS_Interval
    <3> QED BY <1>1, <2>1, <3>1
  <2>8. h(l).sum = Sum(t, s)
    <3>1. Mul(a[l], Power(x, k)) = t[l]
      BY <1>1, <2>1
    <3> HIDE DEF h, l, s, R
    <3>2. Sum(t, R \cup {l}) = Add(t[l], Sum(t, R))
      BY <2>1, <2>7, SumInsert
    <3>3. Sum(t, R) \in Field /\ t[l] \in Field
      BY <2>7, SumInField
    <3> QED BY <2>1, <2>2, <2>4, <3>1, <3>2, <3>3, FieldCommutes
  <2> QED BY <2>6, <2>8
<1>5. \A k \in Nat : k \in T
  <2> HIDE DEF T
  <2> QED BY <1>3, <1>4, NatInductive
<1>6. h(n).sum = Sum(t, 1 .. n)
  BY <1>0, <1>5
<1> QED BY <1>0, <1>2, <1>6, EvalAtIsIter

-----------------------------------------------------------------------------
(* The list *)

\* A refused list has a denominator that is zero, or is empty.
LEMMA RefusedVanishes ==
    ASSUME NEW indices \in Seq(Field), Refused(indices), indices # <<>>
    PROVE  After(Denominators(indices))[0] = 0
<1> DEFINE I == DOMAIN indices
           n == Len(indices)
           d == Denominators(indices)
           diff(i) == [j \in I |-> Minus(indices[j], indices[i])]
           rest(i) == Product(diff(i), I \ {i})
<1>1. I = 1 .. n /\ n \in Nat /\ IsFiniteSet(I) /\ \A i \in I : indices[i] \in Field
  <2>1. I = 1 .. n /\ n \in Nat /\ \A i \in I : indices[i] \in Field
    OBVIOUS
  <2> QED BY <2>1, FS_Interval
<1>2. d = [i \in I |-> Mul(indices[i], rest(i))]
  BY DEF Denominators
<1>3. \A i \in I : /\ IsFiniteSet(I \ {i}) /\ \A j \in I \ {i} : diff(i)[j] \in Field
  BY <1>1, FS_RemoveElement, FieldClosed
<1>4. \A i \in I : rest(i) \in Field
  <2> TAKE i \in I
  <2> DEFINE f == diff(i)
             S == I \ {i}
  <2>1. IsFiniteSet(S) /\ \A j \in S : f[j] \in Field
    BY <1>3
  <2> HIDE DEF f, S
  <2>2. Product(f, S) \in Field
    BY <2>1, ProductInField
  <2> QED BY <2>2 DEF f, S
<1>5. \A i \in I : d[i] \in Field /\ d[i] = Mul(indices[i], rest(i))
  <2> HIDE DEF rest, d
  <2> QED BY <1>1, <1>2, <1>4, FieldClosed
<1>6. d \in Seq(Field) /\ Len(d) = n
  <2>1. d \in [1 .. n -> Field]
    <3> HIDE DEF rest, d
    <3> QED BY <1>1, <1>2, <1>5
  <2> HIDE DEF d
  <2> QED BY <1>1, <2>1
<1>7. \E i \in I : d[i] = 0
  <2>1. CASE 0 \in Range(indices)
    <3>1. PICK i \in I : indices[i] = 0
      BY <2>1 DEF Range
    <3>2. d[i] = Mul(0, rest(i)) /\ rest(i) \in Field
      BY <1>4, <1>5, <3>1
    <3> HIDE DEF rest
    <3> QED BY <3>2, FieldNeutral
  <2>2. CASE ~IsInjective(indices)
    <3>1. PICK i \in I, j \in I : indices[i] = indices[j] /\ i # j
      BY <2>2, Zenon DEF IsInjective
    <3> DEFINE f == diff(i)
               S == I \ {i}
    <3>2. j \in S /\ f[j] = Minus(indices[j], indices[i])
      BY <3>1
    <3>3. f[j] = 0
      BY <1>1, <3>1, <3>2, MinusZero
    <3>4. IsFiniteSet(S) /\ \A k \in S : f[k] \in Field
      BY <1>3
    <3>5. rest(i) = Product(f, S)
      OBVIOUS
    <3> HIDE DEF f, S
    <3>6. Product(f, S) = 0
      BY <3>2, <3>3, <3>4, ProductNonzero
    <3> HIDE DEF rest
    <3>7. d[i] = Mul(indices[i], 0)
      BY <1>5, <3>5, <3>6
    <3> QED BY <1>1, <3>7, FieldNeutral
  <2> QED BY <2>1, <2>2 DEF Refused
<1> HIDE DEF d
<1>8. After(d)[0] = Product(d, I)
  <2>1. 0 \in 0 .. Len(d) /\ (0 + 1) .. Len(d) = I
    BY <1>1, <1>6
  <2> QED BY <1>6, <2>1, AfterIsProduct
<1>9. Product(d, I) = 0
  BY <1>1, <1>5, <1>7, ProductNonzero
<1> QED BY <1>8, <1>9 DEF d

\* The coefficients are answered for exactly the lists whose denominators have
\* an inverse.
THEOREM AnswersDefined == Spec => []AnswersWhereDefined
<1>1. AnswersWhereDefined
  <2> SUFFICES ASSUME list \in Seq(Field) PROVE AnswersWhereDefined
    BY DEF AnswersWhereDefined
  <2>1. CASE Refused(list)
    BY <2>1, RefusedVanishes DEF AnswersWhereDefined
  <2>2. CASE ~Refused(list)
    <3>1. list # <<>> /\ 1 \in DOMAIN list
      BY <2>2, AcceptedIndices
    <3>2. After(Denominators(list))[0] # 0
      BY <2>2, <3>1, CoefficientsDivide
    <3> QED BY <2>2, <3>1, <3>2 DEF AnswersWhereDefined
  <2> QED BY <2>1, <2>2
<1> QED BY <1>1, PTL

\* Whatever the list of indices that is not refused, the coefficients read a
\* polynomial's constant term off its values there.
THEOREM Recovers == Spec => []RecoversConstant
<1>1. RecoversConstant
  <2> SUFFICES ASSUME list \in Seq(Field), ~Refused(list), NEW a \in [1 .. Len(list) -> Field]
               PROVE  Sum([i \in DOMAIN list |-> Mul(Coefficients(list)[i], Evaluate(a, list[i]))],
                          DOMAIN list) = a[1]
    BY DEF RecoversConstant
  <2>1. Len(list) \in Nat /\ Len(list) # 0
    BY AcceptedIndices
  <2>2. a \in Seq(Field) /\ Len(a) \in 1 .. Len(list)
    BY <2>1
  <2> QED BY <2>2, LagrangeReconstructs
<1> QED BY <1>1, PTL

-----------------------------------------------------------------------------
(* The nested position's key *)

\* Nothing is generated, or every holder has its shares of one draw.
OneDraw ==
    \/ coefficients = None /\ \A k \in Holder : inner[k] = None
    \/ \E draw \in Draws :
        /\ coefficients = CoefficientCommitments(draw)
        /\ inner = [k \in Holder |-> InnerShares(draw, k)]

\* What is split has the inner threshold's degree, and an honest participant
\* splits its evaluation.
Splits ==
    \A i \in Flat : split[i] # None =>
        /\ split[i] \in [1 .. InnerT -> Field]
        /\ i \notin FaultyFlat => split[i][1] = Evaluate(Outer[i], Position)

\* A holder keeps values on the polynomials that are split.
PiecesOnSplits ==
    \A k \in Holder :
        /\ DOMAIN pieces[k] \subseteq Flat
        /\ \A i \in DOMAIN pieces[k] : split[i] # None /\ pieces[k][i] = Evaluate(split[i], k)

\* What a holder has combined, it would still combine.
SigmaCombined ==
    \A k \in Holder : sigma[k] # None =>
        inner[k] # None /\ DOMAIN pieces[k] = Flat /\ sigma[k] = Combined(k)

KeyInv ==
    /\ split = [i \in Flat |-> split[i]]
    /\ pieces = [k \in Holder |-> pieces[k]]
    /\ sigma = [k \in Holder |-> sigma[k]]
    /\ OneDraw
    /\ Splits
    /\ PiecesOnSplits
    /\ SigmaCombined

\* Indices are nonzero scalars, and the sets of them are finite.
LEMMA IndicesInField ==
    /\ Holder \in SUBSET (Field \ {0}) /\ Flat \in SUBSET (Field \ {0})
    /\ Position \in Field \ {0} /\ IsFiniteSet(Holder) /\ IsFiniteSet(Flat)
    /\ InnerT \in Nat \ {0}
<1>1. IsFiniteSet(1 .. P - 1) /\ 1 .. P - 1 \subseteq Field \ {0}
  <2>1. P - 1 \in Int
    BY FieldAssumption
  <2> QED BY <2>1, FieldAssumption, FS_Interval DEF Field
<1>2. IsFiniteSet(Holder) /\ IsFiniteSet(Flat)
  BY <1>1, NestedKeyAssumption, FS_Subset
<1>3. Cardinality(Holder) \in Nat
  BY <1>2, FS_CardinalityType
<1> QED BY <1>1, <1>2, <1>3, NestedKeyAssumption

\* A split polynomial has the inner threshold's length and begins with what is split.
LEMMA SplitTyped ==
    ASSUME NEW e \in Field, NEW t \in Tails
    PROVE  SplitPolynomial(e, t) \in [1 .. InnerT -> Field] /\ SplitPolynomial(e, t)[1] = e
<1>1. InnerT \in Nat \ {0} /\ t \in [1 .. InnerT - 1 -> Field]
  BY IndicesInField, NestedKeyAssumption
<1>2. t \in Seq(Field) /\ Len(t) = InnerT - 1
  BY <1>1
<1> DEFINE s == <<e>> \o t
<1>3. s \in Seq(Field) /\ Len(s) = InnerT /\ s[1] = e
  BY <1>1, <1>2
<1>4. SplitPolynomial(e, t) = s
  BY DEF SplitPolynomial
<1> HIDE DEF s
<1>5. s \in [1 .. Len(s) -> Field]
  BY <1>3
<1> QED BY <1>3, <1>4, <1>5

\* Generating the coefficients leaves nothing stale: nobody has combined before.
LEMMA DkgKeepsInv ==
    ASSUME KeyInv, NEW draw \in Draws, InterleavedDkg(draw) PROVE KeyInv'
<1>1. \A k \in Holder : inner[k] = None
  <2>1. CASE \E d \in Draws : coefficients = CoefficientCommitments(d)
    BY <2>1, NoneAssumption DEF InterleavedDkg
  <2> QED BY <2>1 DEF KeyInv, OneDraw
<1>2. \A k \in Holder : sigma[k] = None
  BY <1>1 DEF KeyInv, SigmaCombined
<1>3. OneDraw'
  BY DEF InterleavedDkg, OneDraw
<1>4. Splits' /\ PiecesOnSplits'
  BY DEF KeyInv, InterleavedDkg, Splits, PiecesOnSplits
<1>5. SigmaCombined'
  BY <1>2 DEF InterleavedDkg, SigmaCombined
<1> QED BY <1>3, <1>4, <1>5 DEF KeyInv, InterleavedDkg

\* A split is published once, before any piece of it is accepted.
LEMMA SplitKeepsInv ==
    ASSUME KeyInv, NEW i \in Flat, NEW e \in Field, NEW t \in Tails, SplitEvaluation(i, e, t)
    PROVE  KeyInv'
<1>1. split' = [split EXCEPT ![i] = SplitPolynomial(e, t)] /\ split[i] = None
      /\ (i \notin FaultyFlat => e = Evaluate(Outer[i], Position))
  BY DEF SplitEvaluation
<1>2. /\ UNCHANGED <<coefficients, inner, pieces, sigma>>
      /\ split = [f \in Flat |-> split[f]]
  BY DEF SplitEvaluation, KeyInv
<1>3. \A f \in Flat : split'[f] = IF f = i THEN SplitPolynomial(e, t) ELSE split[f]
  BY <1>1, <1>2
<1>4. split' = [f \in Flat |-> split'[f]]
  BY <1>1, <1>2
<1>5. Splits'
  <2> SUFFICES ASSUME NEW f \in Flat, split'[f] # None
               PROVE  /\ split'[f] \in [1 .. InnerT -> Field]
                      /\ f \notin FaultyFlat => split'[f][1] = Evaluate(Outer[f], Position)
    BY DEF Splits
  <2>1. CASE f = i
    BY <1>1, <1>3, <2>1, SplitTyped
  <2>2. CASE f # i
    BY <1>3, <2>2 DEF KeyInv, Splits
  <2> QED BY <2>1, <2>2
<1>6. PiecesOnSplits'
  <2> SUFFICES ASSUME NEW k \in Holder
               PROVE  /\ DOMAIN pieces[k] \subseteq Flat
                      /\ \A f \in DOMAIN pieces[k] :
                            split'[f] # None /\ pieces[k][f] = Evaluate(split'[f], k)
    BY <1>2 DEF PiecesOnSplits
  <2>1. /\ DOMAIN pieces[k] \subseteq Flat
        /\ \A f \in DOMAIN pieces[k] : split[f] # None /\ pieces[k][f] = Evaluate(split[f], k)
    BY DEF KeyInv, PiecesOnSplits
  <2>2. \A f \in DOMAIN pieces[k] : f # i /\ split'[f] = split[f]
    BY <1>1, <1>3, <2>1
  <2> QED BY <2>1, <2>2
<1>7. OneDraw' /\ SigmaCombined'
  BY <1>2 DEF KeyInv, OneDraw, SigmaCombined, Combined
<1> QED BY <1>2, <1>4, <1>5, <1>6, <1>7 DEF KeyInv

\* A piece is taken from one whose piece is not there, so nobody who takes one
\* has combined.
LEMMA PieceKeepsInv ==
    ASSUME KeyInv, NEW k \in Holder, NEW i \in Flat, NEW v \in Field, TakePiece(k, i, v)
    PROVE  KeyInv'
<1> DEFINE more == [f \in DOMAIN pieces[k] \cup {i} |-> IF f = i THEN v ELSE pieces[k][f]]
<1>1. /\ split[i] # None /\ v = Evaluate(split[i], k) /\ i \notin DOMAIN pieces[k]
      /\ pieces' = [pieces EXCEPT ![k] = more]
      /\ UNCHANGED <<coefficients, inner, split, sigma>>
  BY DEF TakePiece, VerifySplitPiece
<1>2. pieces = [h \in Holder |-> pieces[h]]
  BY DEF KeyInv
<1>3. pieces'[k] = more /\ \A h \in Holder \ {k} : pieces'[h] = pieces[h]
  <2> HIDE DEF more
  <2> QED BY <1>1, <1>2
<1>4. pieces' = [h \in Holder |-> pieces'[h]]
  <2> HIDE DEF more
  <2> QED BY <1>1, <1>2
<1>5. PiecesOnSplits'
  <2> SUFFICES ASSUME NEW h \in Holder
               PROVE  /\ DOMAIN pieces'[h] \subseteq Flat
                      /\ \A f \in DOMAIN pieces'[h] :
                            split[f] # None /\ pieces'[h][f] = Evaluate(split[f], h)
    BY <1>1 DEF PiecesOnSplits
  <2>1. /\ DOMAIN pieces[h] \subseteq Flat
        /\ \A f \in DOMAIN pieces[h] : split[f] # None /\ pieces[h][f] = Evaluate(split[f], h)
    BY DEF KeyInv, PiecesOnSplits
  <2>2. CASE h = k
    <3>1. /\ DOMAIN pieces'[h] = DOMAIN pieces[k] \cup {i}
          /\ \A f \in DOMAIN pieces'[h] : pieces'[h][f] = IF f = i THEN v ELSE pieces[k][f]
      BY <1>3, <2>2
    <3> HIDE DEF more
    <3> QED BY <1>1, <2>1, <2>2, <3>1
  <2>3. CASE h # k
    BY <1>3, <2>1, <2>3
  <2> QED BY <2>2, <2>3
<1>6. SigmaCombined'
  <2> SUFFICES ASSUME NEW h \in Holder, sigma[h] # None
               PROVE  inner[h] # None /\ DOMAIN pieces'[h] = Flat /\ sigma[h] = Combined(h)'
    BY <1>1 DEF SigmaCombined
  <2>1. inner[h] # None /\ DOMAIN pieces[h] = Flat /\ sigma[h] = Combined(h)
    BY DEF KeyInv, SigmaCombined
  <2>2. h # k
    BY <1>1, <2>1
  <2>3. pieces'[h] = pieces[h]
    BY <1>3, <2>2
  <2> QED BY <1>1, <2>1, <2>3 DEF Combined
<1>7. OneDraw' /\ Splits'
  BY <1>1 DEF KeyInv, OneDraw, Splits
<1> QED BY <1>1, <1>4, <1>5, <1>6, <1>7 DEF KeyInv

\* A holder combines what it has.
LEMMA CombineKeepsInv ==
    ASSUME KeyInv, NEW k \in Holder, Combine(k) PROVE KeyInv'
<1>1. /\ inner[k] # None /\ DOMAIN pieces[k] = Flat
      /\ sigma' = [sigma EXCEPT ![k] = Combined(k)]
      /\ UNCHANGED <<coefficients, inner, split, pieces>>
  BY DEF Combine
<1>2. sigma = [h \in Holder |-> sigma[h]]
  BY DEF KeyInv
<1>3. /\ sigma' = [h \in Holder |-> sigma'[h]]
      /\ sigma'[k] = Combined(k) /\ \A h \in Holder \ {k} : sigma'[h] = sigma[h]
  BY <1>1, <1>2
<1>4. SigmaCombined'
  <2> SUFFICES ASSUME NEW h \in Holder, sigma'[h] # None
               PROVE  inner[h] # None /\ DOMAIN pieces[h] = Flat /\ sigma'[h] = Combined(h)
    BY <1>1 DEF SigmaCombined, Combined
  <2>1. CASE h = k
    BY <1>1, <1>3, <2>1
  <2>2. CASE h # k
    BY <1>3, <2>2 DEF KeyInv, SigmaCombined
  <2> QED BY <2>1, <2>2
<1>5. OneDraw' /\ Splits' /\ PiecesOnSplits'
  BY <1>1 DEF KeyInv, OneDraw, Splits, PiecesOnSplits
<1> QED BY <1>1, <1>3, <1>4, <1>5 DEF KeyInv

\* Whatever is generated, split, sent and combined in whatever order, holders have
\* their shares of one draw, checked pieces of the published splits, and sums of both.
THEOREM KeyInvariant == Spec => []KeyInv
<1>1. Init => KeyInv
  BY DEF Init, KeyInit, KeyInv, OneDraw, Splits, PiecesOnSplits, SigmaCombined
<1>2. KeyInv /\ [Next]_<<list, keyVars>> => KeyInv'
  <2> SUFFICES ASSUME KeyInv, [Next]_<<list, keyVars>> PROVE KeyInv'
    OBVIOUS
  <2>1. CASE UNCHANGED keyVars
    BY <2>1 DEF KeyInv, keyVars, OneDraw, Splits, PiecesOnSplits, SigmaCombined, Combined
  <2>2. CASE KeyNext
    BY <2>2, DkgKeepsInv, SplitKeepsInv, PieceKeepsInv, CombineKeepsInv DEF KeyNext
  <2> QED BY <2>1, <2>2 DEF Next, KeyStep, Extend
<1> QED BY <1>1, <1>2, PTL DEF Spec

-----------------------------------------------------------------------------
(* What a quorum of holders reconstructs *)

\* SetToSeq lists a finite set, each member once.
LEMMA SetListed ==
    ASSUME NEW S, IsFiniteSet(S)
    PROVE  SetToSeq(S) \in [1 .. Cardinality(S) -> S] /\ IsInjective(SetToSeq(S))
<1>1. PICK f : f \in Bijection(1 .. Cardinality(S), S)
  BY FS_CardinalityType DEF ExistsBijection
<1>2. f \in [1 .. Cardinality(S) -> S] /\ IsInjective(f)
  BY <1>1 DEF Bijection, Injection, IsInjective
<1> QED BY <1>2, Zenon DEF SetToSeq

\* As many holders as a polynomial has coefficients, or more, interpolate it to
\* its constant term.
LEMMA InterpolatedConstant ==
    ASSUME NEW S \in SUBSET (Field \ {0}), IsFiniteSet(S),
           NEW a \in Seq(Field), Len(a) \in 1 .. Cardinality(S),
           NEW v, \A x \in S : v[x] = Evaluate(a, x)
    PROVE  Interpolated(S, v) = a[1]
<1> DEFINE q == SetToSeq(S)
<1>1. q \in [1 .. Cardinality(S) -> S] /\ IsInjective(q)
  BY SetListed
<1>2. Interpolated(S, v) = Reconstructed(q, v)
  BY Zenon DEF Interpolated, Reconstructed
<1> HIDE DEF q
<1>3. Reconstructed(q, v) = a[1]
  BY <1>1, ListReconstructs
<1> QED BY <1>2, <1>3

\* The polynomials that the inner dealers draw together, by coefficient
Dealt(draw) == [c \in DOMAIN draw |-> Together(Holder, InnerT, draw[c])]

\* A draw's shares and commitments are the values and the constant terms of the
\* polynomials drawn together.
LEMMA DealtTogether ==
    ASSUME NEW draw \in Draws
    PROVE  /\ Len(draw) \in Nat /\ Len(draw) # 0 /\ DOMAIN draw = 1 .. Len(draw)
           /\ Dealt(draw) \in [1 .. Len(draw) -> [1 .. InnerT -> Field]]
           /\ CoefficientCommitments(draw) = [c \in 1 .. Len(draw) |-> Dealt(draw)[c][1]]
           /\ \A k \in Holder :
                InnerShares(draw, k) = [c \in 1 .. Len(draw) |-> Evaluate(Dealt(draw)[c], k)]
<1>1. draw # <<>> /\ draw \in Seq([Holder -> [1 .. InnerT -> Field]])
  BY DrawsAssumption
<1>2. Len(draw) \in Nat /\ Len(draw) # 0 /\ DOMAIN draw = 1 .. Len(draw)
  BY <1>1
<1>3. \A c \in DOMAIN draw : draw[c] \in [Holder -> [1 .. InnerT -> Field]]
  BY <1>1
<1>4. ASSUME NEW c \in DOMAIN draw
      PROVE  /\ Dealt(draw)[c] \in [1 .. InnerT -> Field]
             /\ Dealt(draw)[c][1] = Sum([d \in Holder |-> draw[c][d][1]], Holder)
             /\ \A k \in Holder : Evaluate(Dealt(draw)[c], k) =
                                    Sum([d \in Holder |-> Evaluate(draw[c][d], k)], Holder)
  <2>1. Dealt(draw)[c] = Together(Holder, InnerT, draw[c])
    BY DEF Dealt
  <2>2. \A d \in Holder : draw[c][d] \in [1 .. InnerT -> Field]
    BY <1>3
  <2>3. IsFiniteSet(Holder) /\ InnerT \in Nat /\ 1 \in 1 .. InnerT /\ 0 \in Field
    BY IndicesInField, FieldConstants
  <2>4. \A k \in Holder : k \in Field
    BY IndicesInField
  <2>5. ASSUME NEW x \in Field
        PROVE  /\ Together(Holder, InnerT, draw[c]) \in [1 .. InnerT -> Field]
               /\ Evaluate(Together(Holder, InnerT, draw[c]), x) =
                    Sum([d \in Holder |-> Evaluate(draw[c][d], x)], Holder)
    BY <2>2, <2>3, EvaluateSums
  <2>6. Together(Holder, InnerT, draw[c])[1] = Sum([d \in Holder |-> draw[c][d][1]], Holder)
    BY <2>3 DEF Together
  <2> QED BY <2>1, <2>3, <2>4, <2>5, <2>6
<1>5. CoefficientCommitments(draw) = [c \in DOMAIN draw |-> Dealt(draw)[c][1]]
  BY <1>4, Zenon DEF CoefficientCommitments
<1>6. ASSUME NEW k \in Holder
      PROVE  InnerShares(draw, k) = [c \in DOMAIN draw |-> Evaluate(Dealt(draw)[c], k)]
  BY <1>4, Zenon DEF InnerShares, GenerateSubshare
<1>7. Dealt(draw) \in [DOMAIN draw -> [1 .. InnerT -> Field]]
  BY <1>4 DEF Dealt
<1> QED BY <1>2, <1>5, <1>6, <1>7

\* What the holders compute at a point from their shares of the coefficients are
\* the values of a polynomial whose constant term the commitments promise.
LEMMA HeldPolynomial ==
    ASSUME NEW draw \in Draws, NEW y \in Field
    PROVE  \E b \in [1 .. InnerT -> Field] :
             /\ b[1] = Evaluate(CoefficientCommitments(draw), y)
             /\ \A k \in Holder : EvalAt(InnerShares(draw, k), y) = Evaluate(b, k)
<1> DEFINE m == Len(draw)
           A == Dealt(draw)
           b == [l \in 1 .. InnerT |-> Evaluate([c \in 1 .. m |-> A[c][l]], y)]
<1>1. /\ m \in Nat /\ A \in [1 .. m -> [1 .. InnerT -> Field]]
      /\ CoefficientCommitments(draw) = [c \in 1 .. m |-> A[c][1]]
      /\ \A k \in Holder : InnerShares(draw, k) = [c \in 1 .. m |-> Evaluate(A[c], k)]
  BY DealtTogether
<1>2. InnerT \in Nat /\ 1 \in 1 .. InnerT /\ \A k \in Holder : k \in Field
  BY IndicesInField
<1> HIDE DEF m, A
<1>3. b \in [1 .. InnerT -> Field]
  <2> SUFFICES ASSUME NEW l \in 1 .. InnerT
               PROVE  Evaluate([c \in 1 .. m |-> A[c][l]], y) \in Field
    OBVIOUS
  <2> DEFINE r == [c \in 1 .. m |-> A[c][l]]
  <2>1. m \in Nat /\ r \in [1 .. m -> Field]
    <3>1. \A c \in 1 .. m : A[c] \in [1 .. InnerT -> Field]
      BY <1>1
    <3> QED BY <1>1, <3>1
  <2> HIDE DEF r
  <2>2. Evaluate(r, y) \in Field
    BY <2>1, EvaluateOver
  <2> QED BY <2>2 DEF r
<1>4. b[1] = Evaluate(CoefficientCommitments(draw), y)
  BY <1>1, <1>2
<1>5. ASSUME NEW k \in Holder PROVE EvalAt(InnerShares(draw, k), y) = Evaluate(b, k)
  <2> DEFINE s == [c \in 1 .. m |-> Evaluate(A[c], k)]
  <2>1. k \in Field /\ InnerShares(draw, k) = s
    BY <1>1, <1>2
  <2>2. s \in Seq(Field)
    <3>1. \A c \in 1 .. m : Evaluate(A[c], k) \in Field
      BY <1>1, <1>2, <2>1, EvaluateOver
    <3> QED BY <1>1, <3>1
  <2>3. Evaluate(s, y) = Evaluate(b, k)
    <3>1. m \in Nat /\ InnerT \in Nat /\ A \in [1 .. m -> [1 .. InnerT -> Field]]
      BY <1>1, <1>2
    <3> QED BY <2>1, <3>1, EvaluateExchange, Zenon
  <2> HIDE DEF s, b
  <2> QED BY <2>1, <2>2, <2>3, EvalAtIsEvaluate
<1> HIDE DEF b
<1> QED BY <1>3, <1>4, <1>5

\* Every quorum deals a flat participant what the commitments promise.
LEMMA DealsToFlat == ASSUME KeyInv PROVE QuorumDealsToFlat
<1> SUFFICES ASSUME coefficients # None,
                    NEW Q \in SUBSET Holder, Cardinality(Q) = InnerT, NEW j \in Flat
             PROVE  Interpolated(Q, [k \in Holder |-> EvalAt(inner[k], j)])
                      = Evaluate(coefficients, j)
  BY DEF QuorumDealsToFlat
<1>1. PICK draw \in Draws : /\ coefficients = CoefficientCommitments(draw)
                            /\ inner = [k \in Holder |-> InnerShares(draw, k)]
  BY DEF KeyInv, OneDraw
<1>2. j \in Field
  BY IndicesInField
<1>3. PICK b \in [1 .. InnerT -> Field] :
        /\ b[1] = Evaluate(CoefficientCommitments(draw), j)
        /\ \A k \in Holder : EvalAt(InnerShares(draw, k), j) = Evaluate(b, k)
  BY <1>2, HeldPolynomial
<1> DEFINE v == [k \in Holder |-> EvalAt(inner[k], j)]
<1>4. \A k \in Q : v[k] = Evaluate(b, k)
  BY <1>1, <1>3
<1>5. Q \in SUBSET (Field \ {0}) /\ IsFiniteSet(Q) /\ InnerT \in Nat \ {0}
  BY IndicesInField, FS_Subset
<1>6. b \in Seq(Field) /\ Len(b) = InnerT /\ InnerT \in 1 .. Cardinality(Q)
  BY <1>5
<1> HIDE DEF v
<1>7. Interpolated(Q, v) = b[1]
  BY <1>4, <1>5, <1>6, InterpolatedConstant
<1> QED BY <1>1, <1>3, <1>7 DEF v

\* Once somebody has combined, everybody's split is there, and the combined shares
\* are values of one polynomial: the position's own and the splits, added up.
LEMMA CombinedPolynomial ==
    ASSUME KeyInv, NEW h \in Holder, sigma[h] # None
    PROVE  /\ coefficients # None
           /\ \A i \in Flat : split[i] \in [1 .. InnerT -> Field]
           /\ \E c \in [1 .. InnerT -> Field] :
                /\ c[1] = Add(Evaluate(coefficients, Position),
                              Sum([i \in Flat |-> split[i][1]], Flat))
                /\ \A k \in Holder : sigma[k] # None => sigma[k] = Evaluate(c, k)
<1>1. inner[h] # None /\ DOMAIN pieces[h] = Flat
  BY DEF KeyInv, SigmaCombined
<1>2. \A i \in Flat : split[i] # None
  BY <1>1 DEF KeyInv, PiecesOnSplits
<1>3. \A i \in Flat : split[i] \in [1 .. InnerT -> Field]
  BY <1>2 DEF KeyInv, Splits
<1>4. PICK draw \in Draws : /\ coefficients = CoefficientCommitments(draw)
                            /\ inner = [k \in Holder |-> InnerShares(draw, k)]
  BY <1>1 DEF KeyInv, OneDraw
<1>5. coefficients # None
  BY <1>4, NoneAssumption
<1>6. Position \in Field /\ InnerT \in Nat /\ 1 \in 1 .. InnerT /\ IsFiniteSet(Flat)
      /\ \A k \in Holder : k \in Field
  BY IndicesInField
<1>7. PICK b \in [1 .. InnerT -> Field] :
        /\ b[1] = Evaluate(CoefficientCommitments(draw), Position)
        /\ \A k \in Holder : EvalAt(InnerShares(draw, k), Position) = Evaluate(b, k)
  BY <1>6, HeldPolynomial
<1> DEFINE s == Together(Flat, InnerT, split)
           c == [l \in 1 .. InnerT |-> Add(b[l], s[l])]
<1>8. ASSUME NEW x \in Field
      PROVE  /\ s \in [1 .. InnerT -> Field]
             /\ Evaluate(s, x) = Sum([i \in Flat |-> Evaluate(split[i], x)], Flat)
  BY <1>3, <1>6, EvaluateSums
<1>9. s \in [1 .. InnerT -> Field] /\ s[1] = Sum([i \in Flat |-> split[i][1]], Flat)
  BY <1>6, <1>8 DEF Together
<1> HIDE DEF s
<1>10. c \in [1 .. InnerT -> Field] /\ \A l \in 1 .. InnerT : c[l] = Add(b[l], s[l])
  BY <1>9, FieldClosed
<1> HIDE DEF c
<1>11. ASSUME NEW k \in Holder, sigma[k] # None PROVE sigma[k] = Evaluate(c, k)
  <2> DEFINE t == [i \in Flat |-> Evaluate(split[i], k)]
  <2>1. /\ DOMAIN pieces[k] = Flat
        /\ sigma[k] = Add(EvalAt(inner[k], Position), Sum(pieces[k], Flat))
    <3>1. DOMAIN pieces[k] = Flat /\ sigma[k] = Combined(k)
      BY <1>11 DEF KeyInv, SigmaCombined
    <3>2. Combined(k) = Add(EvalAt(inner[k], Position), Sum(pieces[k], DOMAIN pieces[k]))
      BY Zenon DEF Combined
    <3> QED BY <3>1, <3>2, Zenon
  <2>2. \A i \in Flat : pieces[k][i] = t[i]
    BY <2>1 DEF KeyInv, PiecesOnSplits
  <2>3. \A i \in Flat : t[i] \in Field
    BY <1>3, <1>6, EvaluateOver
  <2>4. Evaluate(s, k) = Sum(t, Flat)
    BY <1>6, <1>8
  <2> HIDE DEF t
  <2>5. Sum(pieces[k], Flat) = Sum(t, Flat)
    <3>1. \A i \in Flat : pieces[k][i] \in Field
      BY <2>2, <2>3
    <3> QED BY <1>6, <2>2, <3>1, SumAgree
  <2>6. EvalAt(inner[k], Position) = Evaluate(b, k)
    BY <1>4, <1>7
  <2>7. Evaluate(c, k) = Add(Evaluate(b, k), Evaluate(s, k))
    <3>1. InnerT \in Nat /\ k \in Field /\ s \in [1 .. InnerT -> Field] /\ c \in [1 .. InnerT -> Field]
      BY <1>6, <1>9, <1>10
    <3> QED BY <1>10, <3>1, EvaluateAdds
  <2> QED BY <2>1, <2>4, <2>5, <2>6, <2>7
<1>12. c[1] = Add(Evaluate(coefficients, Position), Sum([i \in Flat |-> split[i][1]], Flat))
  BY <1>4, <1>6, <1>7, <1>9, <1>10
<1> QED BY <1>3, <1>5, <1>10, <1>11, <1>12

\* A quorum of those who have combined reconstructs what the commitments add up to
\* at the position.
LEMMA HoldsCommitted ==
    ASSUME KeyInv, NEW Q \in SUBSET {k \in Holder : sigma[k] # None}, Cardinality(Q) = InnerT
    PROVE  /\ coefficients # None
           /\ \A i \in Flat : split[i] \in [1 .. InnerT -> Field]
           /\ Interpolated(Q, sigma) = Add(Evaluate(coefficients, Position),
                                           Sum([i \in Flat |-> split[i][1]], Flat))
<1>1. Q \in SUBSET (Field \ {0}) /\ IsFiniteSet(Q) /\ InnerT \in Nat \ {0}
  BY IndicesInField, FS_Subset
<1>2. Q # {}
  BY <1>1, FS_EmptySet
<1>3. PICK h \in Holder : sigma[h] # None
  BY <1>2
<1>4. /\ coefficients # None
      /\ \A i \in Flat : split[i] \in [1 .. InnerT -> Field]
  BY <1>3, CombinedPolynomial
<1>5. PICK c \in [1 .. InnerT -> Field] :
        /\ c[1] = Add(Evaluate(coefficients, Position), Sum([i \in Flat |-> split[i][1]], Flat))
        /\ \A k \in Holder : sigma[k] # None => sigma[k] = Evaluate(c, k)
  BY <1>3, CombinedPolynomial
<1>6. c \in Seq(Field) /\ Len(c) = InnerT /\ InnerT \in 1 .. Cardinality(Q)
  BY <1>1
<1>7. \A k \in Q : sigma[k] = Evaluate(c, k)
  BY <1>5
<1>8. Interpolated(Q, sigma) = c[1]
  BY <1>1, <1>6, <1>7, InterpolatedConstant
<1> QED BY <1>4, <1>5, <1>8

\* For honest flat participants that is their outer polynomials' value.
LEMMA HoldsOuterShare == ASSUME KeyInv PROVE QuorumHoldsOuterShare
<1> DEFINE e == [i \in Flat |-> IF i \in FaultyFlat THEN split[i][1]
                                ELSE Evaluate(Outer[i], Position)]
           f == [i \in Flat |-> split[i][1]]
<1> SUFFICES ASSUME NEW Q \in SUBSET {k \in Holder : sigma[k] # None}, Cardinality(Q) = InnerT
             PROVE  Interpolated(Q, sigma) = Add(Evaluate(coefficients, Position), Sum(e, Flat))
  BY DEF QuorumHoldsOuterShare
<1>1. /\ \A i \in Flat : split[i] \in [1 .. InnerT -> Field]
      /\ Interpolated(Q, sigma) = Add(Evaluate(coefficients, Position), Sum(f, Flat))
  BY HoldsCommitted
<1>2. ASSUME NEW i \in Flat PROVE split[i] # None
  <2>1. PICK k \in Holder : sigma[k] # None
    BY IndicesInField, FS_EmptySet
  <2> QED BY <2>1 DEF KeyInv, SigmaCombined, PiecesOnSplits
<1>3. \A i \in Flat : f[i] = e[i]
  BY <1>2 DEF KeyInv, Splits
<1>4. IsFiniteSet(Flat) /\ 1 \in 1 .. InnerT
  BY IndicesInField
<1>5. \A i \in Flat : f[i] \in Field
  BY <1>1, <1>4
<1> HIDE DEF e, f
<1>6. Sum(f, Flat) = Sum(e, Flat)
  BY <1>3, <1>4, <1>5, SumAgree
<1> QED BY <1>1, <1>6

\* The outer polynomials of the group, the position's among them, as committed to
GroupPolynomials == [i \in Flat \cup {Position} |-> IF i = Position THEN coefficients ELSE Outer[i]]

\* They have the outer threshold's length, and add up to one polynomial.
LEMMA GroupPolynomial ==
    ASSUME KeyInv, coefficients # None
    PROVE  LET m == Len(coefficients)
               group == Flat \cup {Position}
               G == Together(group, m, GroupPolynomials)
           IN /\ m \in Nat \ {0} /\ G \in [1 .. m -> Field]
              /\ coefficients \in [1 .. m -> Field]
              /\ G[1] = Sum([i \in group |-> GroupPolynomials[i][1]], group)
              /\ \A x \in Field :
                   /\ Evaluate(coefficients, x) \in Field
                   /\ \A j \in Flat : Evaluate(Outer[j], x) \in Field
                   /\ Evaluate(G, x) = Add(Evaluate(coefficients, x),
                                           Sum([j \in Flat |-> Evaluate(Outer[j], x)], Flat))
<1> DEFINE m == Len(coefficients)
           group == Flat \cup {Position}
           F == GroupPolynomials
           G == Together(group, m, F)
<1>1. PICK draw \in Draws : coefficients = CoefficientCommitments(draw)
  BY DEF KeyInv, OneDraw
<1>2. m = Len(draw) /\ m \in Nat \ {0} /\ coefficients \in [1 .. m -> Field]
  <2> DEFINE n == Len(draw)
             A == Dealt(draw)
  <2>1. /\ n \in Nat \ {0} /\ A \in [1 .. n -> [1 .. InnerT -> Field]]
        /\ coefficients = [c \in 1 .. n |-> A[c][1]]
    BY <1>1, DealtTogether
  <2>2. 1 \in 1 .. InnerT
    BY IndicesInField
  <2> HIDE DEF n, A
  <2>3. coefficients \in [1 .. n -> Field] /\ Len(coefficients) = n
    <3>1. \A c \in 1 .. n : A[c][1] \in Field
      BY <2>1, <2>2
    <3>2. coefficients \in [1 .. n -> Field]
      BY <2>1, <3>1
    <3>3. coefficients \in Seq(Field) /\ DOMAIN coefficients = 1 .. n
      BY <2>1, <3>2
    <3> QED BY <2>1, <3>2, <3>3
  <2> QED BY <2>1, <2>3 DEF n
<1>3. \A j \in Flat : Outer[j] \in [1 .. m -> Field]
  <2> SUFFICES ASSUME NEW j \in Flat PROVE Outer[j] \in [1 .. m -> Field]
    OBVIOUS
  <2>1. Outer[j] \in Seq(Field) /\ Len(Outer[j]) = m
    BY <1>2, DrawsAssumption
  <2> HIDE DEF m
  <2> QED BY <2>1
<1>4. IsFiniteSet(Flat) /\ IsFiniteSet(group) /\ Position \notin Flat
  BY IndicesInField, NestedKeyAssumption, FS_AddElement
<1>5. /\ \A i \in group : F[i] = IF i = Position THEN coefficients ELSE Outer[i]
      /\ \A i \in group : F[i] \in [1 .. m -> Field]
  BY <1>2, <1>3 DEF GroupPolynomials
<1> HIDE DEF m, F, group
<1>6. ASSUME NEW x \in Field
      PROVE  /\ G \in [1 .. m -> Field]
             /\ Evaluate(G, x) = Sum([i \in group |-> Evaluate(F[i], x)], group)
  BY <1>2, <1>4, <1>5, EvaluateSums
<1>7. G \in [1 .. m -> Field]
  BY <1>6, FieldConstants
<1>8. G[1] = Sum([i \in group |-> F[i][1]], group)
  <2>1. 1 \in 1 .. m
    BY <1>2
  <2> QED BY <2>1 DEF Together
<1> HIDE DEF G
<1>9. ASSUME NEW x \in Field
      PROVE  /\ Evaluate(coefficients, x) \in Field
             /\ \A j \in Flat : Evaluate(Outer[j], x) \in Field
             /\ Evaluate(G, x) = Add(Evaluate(coefficients, x),
                                     Sum([j \in Flat |-> Evaluate(Outer[j], x)], Flat))
  <2> DEFINE f == [i \in group |-> Evaluate(F[i], x)]
             g == [j \in Flat |-> Evaluate(Outer[j], x)]
  <2>1. group = Flat \cup {Position}
    BY DEF group
  <2>2. \A i \in group : f[i] \in Field
    BY <1>2, <1>5, EvaluateOver
  <2>3. f[Position] = Evaluate(coefficients, x) /\ \A j \in Flat : f[j] = g[j]
    BY <1>4, <1>5, <2>1
  <2>4. Evaluate(G, x) = Sum(f, group)
    BY <1>6
  <2> HIDE DEF f, g
  <2>5. Sum(f, group) = Add(f[Position], Sum(f, Flat))
    BY <1>4, <2>1, <2>2, SumInsert
  <2>6. Sum(f, Flat) = Sum(g, Flat)
    BY <1>4, <2>1, <2>2, <2>3, SumAgree
  <2>7. f[Position] \in Field /\ \A j \in Flat : g[j] \in Field
    BY <2>1, <2>2, <2>3
  <2>8. \A j \in Flat : g[j] = Evaluate(Outer[j], x)
    BY DEF g
  <2>9. Evaluate(G, x) = Add(Evaluate(coefficients, x), Sum(g, Flat))
    BY <2>3, <2>4, <2>5, <2>6
  <2> QED BY <2>3, <2>7, <2>8, <2>9 DEF g
<1> QED BY <1>2, <1>7, <1>8, <1>9, Zenon DEF m, G, F, group

\* Any threshold of participants recovers the group key, whichever quorum speaks
\* for the position.
LEMMA RecoversGroupKey == ASSUME KeyInv PROVE GroupKeyRecovered
<1> DEFINE group == Flat \cup {Position}
           m == Len(coefficients)
           G == Together(group, m, GroupPolynomials)
           outer(x) == [j \in Flat |-> Evaluate(Outer[j], x)]
           dealt(i) == [k \in Holder |-> EvalAt(inner[k], i)]
           share(Q, i) ==
               IF i = Position THEN Interpolated(Q, sigma)
               ELSE Add(Sum([j \in Flat |-> GenerateSubshare(Outer[j], i)], Flat),
                        Interpolated(Q, dealt(i)))
           polynomial(i) == IF i = Position THEN coefficients ELSE Outer[i]
<1> SUFFICES ASSUME NEW Q \in SUBSET {k \in Holder : sigma[k] # None}, Cardinality(Q) = InnerT,
                    \A i \in Flat : split[i][1] = Evaluate(Outer[i], Position),
                    NEW R \in SUBSET group, Cardinality(R) = m
             PROVE  Interpolated(R, [i \in R |-> share(Q, i)])
                      = Sum([i \in group |-> polynomial(i)[1]], group)
  BY Zenon DEF GroupKeyRecovered
<1>1. /\ coefficients # None
      /\ \A i \in Flat : split[i] \in [1 .. InnerT -> Field]
      /\ Interpolated(Q, sigma) = Add(Evaluate(coefficients, Position),
                                      Sum([i \in Flat |-> split[i][1]], Flat))
  BY HoldsCommitted
<1>2. /\ m \in Nat \ {0} /\ G \in [1 .. m -> Field]
      /\ G[1] = Sum([i \in group |-> GroupPolynomials[i][1]], group)
      /\ \A x \in Field :
           /\ Evaluate(coefficients, x) \in Field
           /\ \A j \in Flat : Evaluate(Outer[j], x) \in Field
           /\ Evaluate(G, x) = Add(Evaluate(coefficients, x), Sum(outer(x), Flat))
  BY <1>1, GroupPolynomial
<1>3. /\ IsFiniteSet(Flat) /\ IsFiniteSet(group) /\ group \in SUBSET (Field \ {0})
      /\ Position \in Field
  BY IndicesInField, FS_AddElement
<1>4. [i \in group |-> GroupPolynomials[i][1]] = [i \in group |-> polynomial(i)[1]]
  BY Zenon DEF GroupPolynomials
<1> HIDE DEF G, m
<1>5. ASSUME NEW i \in R PROVE share(Q, i) = Evaluate(G, i)
  <2>1. i \in Field
    BY <1>3
  <2>2. CASE i = Position
    <3>1. [j \in Flat |-> split[j][1]] = outer(Position)
      OBVIOUS
    <3>2. Interpolated(Q, sigma) = Evaluate(G, Position)
      BY <1>1, <1>2, <1>3, <3>1
    <3> QED BY <2>2, <3>2
  <2>3. CASE i # Position
    <3>1. i \in Flat
      BY <2>3
    <3>2. Interpolated(Q, dealt(i)) = Evaluate(coefficients, i)
      <4>1. Q \in SUBSET Holder
        OBVIOUS
      <4> QED BY <1>1, <3>1, <4>1, DealsToFlat DEF QuorumDealsToFlat
    <3>3. [j \in Flat |-> GenerateSubshare(Outer[j], i)] = outer(i)
      BY DEF GenerateSubshare
    <3>4. Sum(outer(i), Flat) \in Field
      BY <1>2, <1>3, <2>1, SumInField
    <3>5. Evaluate(coefficients, i) \in Field
          /\ Evaluate(G, i) = Add(Evaluate(coefficients, i), Sum(outer(i), Flat))
      BY <1>2, <2>1
    <3>6. share(Q, i) = Add(Sum(outer(i), Flat), Evaluate(coefficients, i))
      BY <2>3, <3>2, <3>3
    <3> HIDE DEF outer, share
    <3> QED BY <3>4, <3>5, <3>6, FieldCommutes
  <2> QED BY <2>2, <2>3
<1> DEFINE v == [i \in R |-> share(Q, i)]
<1>6. \A i \in R : v[i] = Evaluate(G, i)
  BY <1>5
<1>7. R \in SUBSET (Field \ {0}) /\ IsFiniteSet(R)
  BY <1>3, FS_Subset
<1>8. G \in Seq(Field) /\ Len(G) = m /\ m \in 1 .. Cardinality(R)
  BY <1>2
<1> HIDE DEF v
<1>9. Interpolated(R, v) = G[1]
  BY <1>6, <1>7, <1>8, InterpolatedConstant
<1> QED BY <1>2, <1>4, <1>9 DEF v

\* The position is one participant of the outer group, whichever quorum of holders
\* speaks for it, for all thresholds, group sizes, draws and splits.
THEOREM QuorumsSpeak == Spec => []QuorumsReconstruct
<1>1. KeyInv => QuorumsReconstruct
  BY DealsToFlat, HoldsOuterShare, RecoversGroupKey DEF QuorumsReconstruct
<1> QED BY <1>1, KeyInvariant, PTL

-----------------------------------------------------------------------------
(* Batches *)

\* There are finitely many lists of n scalars.
LEMMA ListsFinite ==
    ASSUME NEW n \in Nat
    PROVE  IsFiniteSet([1 .. n -> Field])
<1> DEFINE T == {m \in Nat : IsFiniteSet([1 .. m -> Field])}
<1>1. 0 \in T
  <2> DEFINE W == [1 .. 0 -> Field]
             e == [j \in 1 .. 0 |-> 0]
  <2>1. 1 .. 0 = {}
    OBVIOUS
  <2>2. W \subseteq {e}
    BY <2>1
  <2> HIDE DEF W, e
  <2>3. IsFiniteSet({e})
    BY FS_Singleton
  <2>4. IsFiniteSet(W)
    BY <2>2, <2>3, FS_Subset
  <2> QED BY <2>4 DEF W
<1>2. ASSUME NEW m \in Nat, m \in T PROVE m + 1 \in T
  <2> DEFINE l == m + 1
             V == [1 .. m -> Field]
             W == [1 .. l -> Field]
             B == V \X Field
             h == [p \in B |-> [j \in 1 .. l |-> IF j = l THEN p[2] ELSE p[1][j]]]
  <2>1. l \in Nat /\ l \in 1 .. l /\ l \notin 1 .. m /\ \A j \in 1 .. l : j # l <=> j \in 1 .. m
    OBVIOUS
  <2>2. IsFiniteSet(V) /\ IsFiniteSet(Field)
    BY <1>2, FieldAssumption, FS_Interval DEF Field
  <2>3. IsFiniteSet(B)
    BY <2>2, FS_Product
  <2>4. ASSUME NEW w \in W PROVE w \in {h[p] : p \in B}
    <3> DEFINE v == [j \in 1 .. m |-> w[j]]
    <3> HIDE DEF l
    <3>1. v \in V /\ w[l] \in Field
      BY <2>1
    <3>2. <<v, w[l]>> \in B
      BY <3>1
    <3>3. w = h[<<v, w[l]>>]
      BY <2>1, <3>2
    <3> HIDE DEF h, v, B
    <3> QED BY <3>2, <3>3
  <2>5. IsFiniteSet({h[p] : p \in B})
    <3> HIDE DEF B, h
    <3> QED BY <2>3, FiniteImage
  <2>6. W \subseteq {h[p] : p \in B}
    BY <2>4
  <2>7. IsFiniteSet(W)
    <3> HIDE DEF W, B, h
    <3> QED BY <2>5, <2>6, FS_Subset
  <2> QED BY <2>1, <2>7
<1>3. \A m \in Nat : m \in T
  <2> HIDE DEF T
  <2> QED BY <1>1, <1>2, NatInductive
<1> QED BY <1>3

\* Two weights that balance the same sums with different values are the same.
LEMMA UniqueWeight ==
    ASSUME NEW a \in Field, NEW b \in Field, NEW l \in Field, NEW r \in Field, l # r,
           NEW s \in Field, NEW t \in Field,
           Add(Mul(a, l), s) = Add(Mul(a, r), t), Add(Mul(b, l), s) = Add(Mul(b, r), t)
    PROVE  a = b
<1> DEFINE d == Minus(l, r)
<1>1. d \in Field /\ d # 0 /\ l = Add(r, d)
  BY MinusZero, MinusAdd, FieldClosed, FieldCommutes
<1> HIDE DEF d
<1>2. ASSUME NEW x \in Field, Add(Mul(x, l), s) = Add(Mul(x, r), t)
      PROVE  Mul(d, x) \in Field /\ Add(s, Mul(d, x)) = t
  <2> DEFINE xr == Mul(x, r)
             xd == Mul(x, d)
  <2>1. xr \in Field /\ xd \in Field /\ Mul(x, l) = Add(xr, xd) /\ Mul(d, x) = xd
    BY <1>1, FieldClosed, FieldCommutes, Distributes
  <2> HIDE DEF xr, xd
  <2>2. Add(Add(xr, xd), s) = Add(xr, Add(xd, s))
    BY <2>1, AddAssociates
  <2>3. Add(xr, Add(xd, s)) = Add(xr, t)
    BY <1>2, <2>1, <2>2 DEF xr
  <2>4. Add(xd, s) \in Field
    BY <2>1, FieldClosed
  <2>5. Add(xd, s) = t
    BY <2>1, <2>3, <2>4, AddCancels
  <2> QED BY <2>1, <2>5, FieldCommutes
<1>3. Mul(d, a) \in Field /\ Mul(d, b) \in Field
      /\ Add(s, Mul(d, a)) = t /\ Add(s, Mul(d, b)) = t
  BY <1>2
<1>4. Mul(d, a) = Mul(d, b)
  BY <1>3, AddCancels
<1> QED BY <1>1, <1>4, Cancels

\* A sum of n values under weights
Weighted(n, w, f) == Sum([j \in 1 .. n |-> Mul(w[j], f[j])], 1 .. n)

\* The weights under which two lists of values have the same sum
Balancing(n, f, g) == {w \in [1 .. n -> Field] : Weighted(n, w, f) = Weighted(n, w, g)}

\* What it is without the term at k
Remaining(n, w, f, k) == Sum([j \in 1 .. n |-> Mul(w[j], f[j])], 1 .. n \ {k})

\* A weighted sum is the term at k and what remains without it.
LEMMA WeightedTake ==
    ASSUME NEW n \in Nat, NEW w \in [1 .. n -> Field], NEW f \in [1 .. n -> Field], NEW k \in 1 .. n
    PROVE  /\ Remaining(n, w, f, k) \in Field
           /\ Weighted(n, w, f) = Add(Mul(w[k], f[k]), Remaining(n, w, f, k))
<1> DEFINE N == 1 .. n
           t == [j \in N |-> Mul(w[j], f[j])]
           r == N \ {k}
<1>1. IsFiniteSet(N)
  BY FS_Interval
<1>2. IsFiniteSet(r)
  <2> HIDE DEF N
  <2> QED BY <1>1, FS_Subset
<1>3. \A j \in N : t[j] \in Field
  BY FieldClosed
<1>4. t[k] = Mul(w[k], f[k]) /\ k \in N
  OBVIOUS
<1>5. Weighted(n, w, f) = Sum(t, N) /\ Remaining(n, w, f, k) = Sum(t, r)
  BY DEF Weighted, Remaining
<1> HIDE DEF t, N
<1>6. Sum(t, N) = Add(t[k], Sum(t, r))
  BY <1>1, <1>3, <1>4, SumTake
<1>7. Sum(t, r) \in Field
  BY <1>2, <1>3, SumInField
<1> QED BY <1>4, <1>5, <1>6, <1>7

\* Lists of values that differ have the same sum under no more than one in P of the
\* weights: changed at one place where the lists differ, no two of them meet.
LEMMA FewBalance ==
    ASSUME NEW n \in Nat, NEW f \in [1 .. n -> Field], NEW g \in [1 .. n -> Field],
           NEW k \in 1 .. n, f[k] # g[k]
    PROVE  /\ IsFiniteSet(Balancing(n, f, g))
           /\ Cardinality(Balancing(n, f, g)) * P <= Cardinality([1 .. n -> Field])
<1> DEFINE W == [1 .. n -> Field]
           B == Balancing(n, f, g)
           N == 1 .. n
           r == N \ {k}
           h == [p \in B \X Field |-> [j \in N |-> IF j = k THEN Add(p[1][k], p[2]) ELSE p[1][j]]]
<1>1. IsFiniteSet(W) /\ B \subseteq W
  BY ListsFinite DEF Balancing
<1>2. IsFiniteSet(B)
  <2> HIDE DEF W, B
  <2> QED BY <1>1, FS_Subset
<1>3. IsFiniteSet(Field) /\ Cardinality(Field) = P
  <2>1. 0 \in Int /\ P - 1 \in Int /\ ~(0 > P - 1) /\ (P - 1) - 0 + 1 = P
    BY FieldAssumption
  <2> QED BY <2>1, FS_Interval DEF Field
<1>4. ASSUME NEW v \in B, NEW w \in B, \A j \in r : v[j] = w[j] PROVE v[k] = w[k]
  <2> DEFINE s(u, e) == Remaining(n, u, e, k)
  <2>1. v \in W /\ w \in W /\ Weighted(n, v, f) = Weighted(n, v, g)
        /\ Weighted(n, w, f) = Weighted(n, w, g)
    BY DEF Balancing
  <2>2. /\ s(v, f) \in Field /\ Weighted(n, v, f) = Add(Mul(v[k], f[k]), s(v, f))
        /\ s(v, g) \in Field /\ Weighted(n, v, g) = Add(Mul(v[k], g[k]), s(v, g))
        /\ s(w, f) \in Field /\ Weighted(n, w, f) = Add(Mul(w[k], f[k]), s(w, f))
        /\ s(w, g) \in Field /\ Weighted(n, w, g) = Add(Mul(w[k], g[k]), s(w, g))
    BY <2>1, WeightedTake
  <2>3. ASSUME NEW e \in W PROVE s(v, e) = s(w, e)
    <3> DEFINE tv == [j \in N |-> Mul(v[j], e[j])]
               tw == [j \in N |-> Mul(w[j], e[j])]
    <3>1. IsFiniteSet(r)
      BY FS_Interval, FS_Subset
    <3>2. \A j \in r : tv[j] \in Field /\ tv[j] = tw[j]
      BY <1>4, <2>1, FieldClosed
    <3> HIDE DEF tv, tw, r
    <3>3. Sum(tv, r) = Sum(tw, r)
      BY <3>1, <3>2, SumAgree
    <3> QED BY <3>3 DEF tv, tw, r, Remaining
  <2>4. s(v, f) = s(w, f) /\ s(v, g) = s(w, g)
    <3> HIDE DEF s
    <3> QED BY <2>3
  <2>5. v[k] \in Field /\ w[k] \in Field /\ f[k] \in Field /\ g[k] \in Field
    BY <2>1
  <2> HIDE DEF s
  <2>6. /\ Add(Mul(v[k], f[k]), s(v, f)) = Add(Mul(v[k], g[k]), s(v, g))
        /\ Add(Mul(w[k], f[k]), s(v, f)) = Add(Mul(w[k], g[k]), s(v, g))
        /\ s(v, f) \in Field /\ s(v, g) \in Field
    BY <2>1, <2>2, <2>4
  <2> QED BY <2>5, <2>6, UniqueWeight
<1>5. h \in Injection(B \X Field, W)
  <2>0. \A p \in B \X Field :
            /\ h[p] = [j \in N |-> IF j = k THEN Add(p[1][k], p[2]) ELSE p[1][j]]
            /\ \A j \in N : h[p][j] = IF j = k THEN Add(p[1][k], p[2]) ELSE p[1][j]
    <3> HIDE DEF B, N
    <3> QED OBVIOUS
  <2>1. ASSUME NEW p \in B \X Field PROVE h[p] \in W
    <3>1. p[1] \in W /\ p[2] \in Field
      BY <1>1
    <3> DEFINE c == Add(p[1][k], p[2])
    <3>2. c \in Field
      BY <3>1, FieldClosed
    <3>3. h[p] = [j \in N |-> IF j = k THEN c ELSE p[1][j]]
      BY <2>0, Zenon
    <3> HIDE DEF B, h, c
    <3>4. [j \in N |-> IF j = k THEN c ELSE p[1][j]] \in W
      BY <3>1, <3>2
    <3> QED BY <3>3, <3>4
  <2>2. ASSUME NEW p \in B \X Field, NEW q \in B \X Field, h[p] = h[q] PROVE p = q
    <3> DEFINE v == p[1]
               w == q[1]
    <3>1. p = <<v, p[2]>> /\ q = <<w, q[2]>> /\ v \in B /\ w \in B /\ p[2] \in Field /\ q[2] \in Field
      OBVIOUS
    <3>2. v \in W /\ w \in W /\ k \in 1 .. n
      BY <1>1, <3>1
    <3>3. /\ k \in N
          /\ \A j \in N : h[p][j] = IF j = k THEN Add(v[k], p[2]) ELSE v[j]
          /\ \A j \in N : h[q][j] = IF j = k THEN Add(w[k], q[2]) ELSE w[j]
      <4>1. k \in N
        OBVIOUS
      <4> HIDE DEF h, B, N
      <4> QED BY <2>0, <4>1
    <3> HIDE DEF h, B, N
    <3>4. \A j \in r : v[j] = w[j]
      BY <2>2, <3>3 DEF r
    <3>5. Add(v[k], p[2]) = Add(w[k], q[2])
      BY <2>2, <3>3
    <3> HIDE DEF v, w, r
    <3>6. v[k] = w[k]
      BY <1>4, <3>1, <3>4
    <3>7. v[k] \in Field
      BY <3>2
    <3>8. p[2] = q[2]
      BY <3>1, <3>5, <3>6, <3>7, AddCancels
    <3>9. v = w
      <4>1. \A j \in N : v[j] = w[j]
        BY <3>4, <3>6 DEF r
      <4> QED BY <3>2, <4>1 DEF N
    <3> QED BY <3>1, <3>8, <3>9
  <2>3. h \in [B \X Field -> W]
    BY <2>1
  <2> HIDE DEF h, B, W
  <2> QED BY <2>2, <2>3, Zenon DEF Injection, IsInjective
<1>6. Cardinality(B \X Field) <= Cardinality(W)
  <2> HIDE DEF h, B, W
  <2> QED BY <1>1, <1>5, FS_Injection
<1>7. Cardinality(B \X Field) = Cardinality(B) * P
  <2> HIDE DEF B
  <2> QED BY <1>2, <1>3, FS_Product
<1> QED BY <1>2, <1>6, <1>7

\* The sub-shares' values, and what the commitments found for them promise
Values(subshares) == [n \in 1 .. Len(subshares) |-> subshares[n].value]
Promised(player, subshares, commitments) ==
    [n \in 1 .. Len(subshares) |->
        Evaluate(CommitmentFor(subshares[n], n, commitments).coefficients, player)]

\* What the check is given
CommitmentRecords == [dealer : Nat, coefficients : Seq(Field)]
SubShareRecords == [dealer : Nat, player : Nat, value : Field]

\* A batch that the check does not refuse before it adds anything up
Batch(player, subshares, commitments) ==
    /\ player \in Field \ {0}
    /\ commitments \in Seq(CommitmentRecords)
    /\ subshares \in Seq(SubShareRecords)
    /\ Len(subshares) = Len(commitments) /\ subshares # <<>>
    /\ \A n \in DOMAIN subshares : Pairable(player, subshares[n], commitments)

\* The commitment found is the first of the sub-share's dealer.
LEMMA CommitmentFound ==
    ASSUME NEW commitments \in Seq(CommitmentRecords), NEW s, NEW n,
           \E c \in Range(commitments) : c.dealer = s.dealer
    PROVE  \E k \in DOMAIN commitments :
             /\ CommitmentFor(s, n, commitments) = commitments[k]
             /\ commitments[k].dealer = s.dealer
             /\ \A l \in DOMAIN commitments : commitments[l].dealer = s.dealer => k <= l
<1> DEFINE K == {k \in DOMAIN commitments : commitments[k].dealer = s.dealer}
           k == Min(K)
<1>1. K \in SUBSET Nat /\ K # {}
  <2>1. DOMAIN commitments \subseteq Nat
    OBVIOUS
  <2> QED BY <2>1 DEF Range
<1>2. CommitmentFor(s, n, commitments) = commitments[k]
  BY DEF CommitmentFor
<1>3. k \in K /\ \A l \in K : k <= l
  <2> HIDE DEF K
  <2> QED BY <1>1, MinOfNat
<1> HIDE DEF k
<1> QED BY <1>2, <1>3

\* The check passes under the weights that balance the values with the promises.
LEMMA BatchBalances ==
    ASSUME NEW player, NEW subshares, NEW commitments, Batch(player, subshares, commitments)
    PROVE  LET N == Len(subshares) IN
           /\ N \in Nat \ {0} /\ DOMAIN subshares = 1 .. N
           /\ Values(subshares) \in [1 .. N -> Field]
           /\ Promised(player, subshares, commitments) \in [1 .. N -> Field]
           /\ \A w \in [1 .. N -> Field] :
                BatchVerify(player, subshares, commitments, w) <=>
                    w \in Balancing(N, Values(subshares), Promised(player, subshares, commitments))
<1> DEFINE N == Len(subshares)
           f == Values(subshares)
           g == Promised(player, subshares, commitments)
           paired(n) == CommitmentFor(subshares[n], n, commitments).coefficients
<1>1. /\ subshares \in Seq(SubShareRecords) /\ subshares # <<>>
      /\ player \in Field
      /\ commitments \in Seq(CommitmentRecords)
  BY DEF Batch
<1>2. N \in Nat \ {0} /\ DOMAIN subshares = 1 .. N /\ \A n \in 1 .. N : subshares[n].value \in Field
  <2>1. \A n \in 1 .. N : subshares[n] \in SubShareRecords
    BY <1>1
  <2>2. N \in Nat \ {0} /\ DOMAIN subshares = 1 .. N
    BY <1>1
  <2> QED BY <2>1, <2>2 DEF SubShareRecords
<1>3. ASSUME NEW n \in 1 .. N PROVE Evaluate(paired(n), player) \in Field
  <2>1. \E c \in Range(commitments) : c.dealer = subshares[n].dealer
    BY <1>2 DEF Batch, Pairable
  <2> DEFINE s == subshares[n]
  <2>2. PICK k \in DOMAIN commitments : CommitmentFor(s, n, commitments) = commitments[k]
    <3> HIDE DEF s
    <3> QED BY <1>1, <2>1, CommitmentFound DEF s
  <2>3. commitments[k].coefficients \in Seq(Field)
    <3>1. commitments[k] \in CommitmentRecords
      BY <1>1
    <3> QED BY <3>1 DEF CommitmentRecords
  <2>4. paired(n) \in Seq(Field)
    BY <2>2, <2>3
  <2> HIDE DEF paired
  <2> QED BY <1>1, <2>4, EvaluateInField
<1>4. f \in [1 .. N -> Field] /\ \A n \in 1 .. N : f[n] = subshares[n].value
  BY <1>2 DEF Values
<1>5. g \in [1 .. N -> Field] /\ \A n \in 1 .. N : g[n] = Evaluate(paired(n), player)
  BY <1>3 DEF Promised
<1>6. ASSUME NEW w \in [1 .. N -> Field]
      PROVE  BatchVerify(player, subshares, commitments, w) <=> w \in Balancing(N, f, g)
  <2>1. BatchVerify(player, subshares, commitments, w) <=>
          Sum([n \in 1 .. N |-> Mul(w[n], subshares[n].value)], 1 .. N) =
          Sum([n \in 1 .. N |-> Mul(w[n], Evaluate(paired(n), player))], 1 .. N)
    <3> HIDE DEF N
    <3> QED BY <1>2, Zenon DEF BatchVerify, Batch, N
  <2>2. [n \in 1 .. N |-> Mul(w[n], subshares[n].value)] = [n \in 1 .. N |-> Mul(w[n], f[n])]
    <3> HIDE DEF N, f
    <3> QED BY <1>4
  <2>3. [n \in 1 .. N |-> Mul(w[n], Evaluate(paired(n), player))]
          = [n \in 1 .. N |-> Mul(w[n], g[n])]
    <3> HIDE DEF N, g, paired
    <3> QED BY <1>5
  <2> HIDE DEF N, f, g, paired
  <2> QED BY <2>1, <2>2, <2>3 DEF Balancing, Weighted
<1> QED BY <1>2, <1>4, <1>5, <1>6

\* A batch of good sub-shares passes under all weights, whatever the order of the
\* two lists, and one with a bad sub-share under one in P of them at most.
THEOREM BatchChecks ==
    ASSUME NEW player, NEW subshares, NEW commitments, Batch(player, subshares, commitments)
    PROVE  LET N == Len(subshares)
               passing == {w \in [1 .. N -> Field] : BatchVerify(player, subshares, commitments, w)}
           IN /\ (\A n \in 1 .. N : Values(subshares)[n] = Promised(player, subshares, commitments)[n])
                    => passing = [1 .. N -> Field]
              /\ (\E n \in 1 .. N : Values(subshares)[n] # Promised(player, subshares, commitments)[n])
                    => Cardinality(passing) * P <= Cardinality([1 .. N -> Field])
<1> DEFINE N == Len(subshares)
           W == [1 .. N -> Field]
           f == Values(subshares)
           g == Promised(player, subshares, commitments)
           passing == {w \in W : BatchVerify(player, subshares, commitments, w)}
<1>1. /\ N \in Nat \ {0} /\ f \in W /\ g \in W
      /\ \A w \in W : BatchVerify(player, subshares, commitments, w) <=> w \in Balancing(N, f, g)
  BY BatchBalances
<1> HIDE DEF N, f, g
<1>2. passing = Balancing(N, f, g)
  BY <1>1 DEF Balancing
<1>3. ASSUME \A n \in 1 .. N : f[n] = g[n] PROVE passing = W
  <2>1. f = g
    BY <1>1, <1>3
  <2> QED BY <1>2, <2>1 DEF Balancing
<1>4. ASSUME NEW n \in 1 .. N, f[n] # g[n] PROVE Cardinality(passing) * P <= Cardinality(W)
  BY <1>1, <1>2, <1>4, FewBalance
<1> QED BY <1>3, <1>4 DEF N, f, g

\* The run's polynomials are lists of scalars in fields of five and more.
LEMMA BatchPolynomialTyped ==
    ASSUME P > 4
    PROVE  /\ \A k \in 1 .. 3 : BatchPolynomial[k] \in Seq(Field)
           /\ Player \in Field \ {0} /\ Player \in Nat /\ Player + 1 \in Nat /\ Player + 1 # Player
<1>1. \A c \in 0 .. 4 : c \in Field
  BY FieldAssumption DEF Field
<1>2. \A a \in 0 .. 4, b \in 0 .. 4 : <<a, b>> \in Seq(Field)
  BY <1>1
<1>3. /\ BatchPolynomial[1] = <<3, 1>> /\ BatchPolynomial[2] = <<0, 2>>
      /\ BatchPolynomial[3] = <<4, 4>>
  BY DEF BatchPolynomial
<1>4. \A k \in 1 .. 3 : k = 1 \/ k = 2 \/ k = 3
  OBVIOUS
<1>5. \A k \in 1 .. 3 : BatchPolynomial[k] \in Seq(Field)
  <2>1. BatchPolynomial[1] \in Seq(Field) /\ BatchPolynomial[2] \in Seq(Field)
        /\ BatchPolynomial[3] \in Seq(Field)
    <3>1. 3 \in 0 .. 4 /\ 1 \in 0 .. 4 /\ 0 \in 0 .. 4 /\ 2 \in 0 .. 4 /\ 4 \in 0 .. 4
      OBVIOUS
    <3> QED BY <1>2, <1>3, <3>1
  <2> QED BY <1>4, <2>1
<1>6. 2 \in Field
  BY <1>1
<1> QED BY <1>5, <1>6 DEF Player

\* A batch of one to three sub-shares, one for each scalar of a list, passes or is
\* caught as BatchSound says, whichever dealers it is of.
LEMMA SoundBatches ==
    ASSUME P > 4, list \in Seq(Field), Len(list) \in 1 .. 3,
           NEW dealers \in [1 .. Len(list) -> 1 .. Len(list)]
    PROVE  LET n == Len(list)
               weights == [1 .. n -> Field]
               commitments == [k \in 1 .. n |-> [dealer |-> k, coefficients |-> BatchPolynomial[k]]]
               subshares == [k \in 1 .. n |->
                    [dealer |-> dealers[k], player |-> Player, value |-> list[k]]]
               good == \A k \in 1 .. n : list[k] = Evaluate(BatchPolynomial[dealers[k]], Player)
               passing(s) == {w \in weights : BatchVerify(Player, s, commitments, w)}
           IN /\ good => passing(subshares) = weights
              /\ ~good => Cardinality(passing(subshares)) * P <= Cardinality(weights)
              /\ passing([subshares EXCEPT ![n].player = Player + 1]) = {}
              /\ passing([subshares EXCEPT ![n].dealer = n + 1]) = {}
<1> DEFINE n == Len(list)
           weights == [1 .. n -> Field]
           commitments == [k \in 1 .. n |-> [dealer |-> k, coefficients |-> BatchPolynomial[k]]]
           subshares == [k \in 1 .. n |->
                [dealer |-> dealers[k], player |-> Player, value |-> list[k]]]
           good == \A k \in 1 .. n : list[k] = Evaluate(BatchPolynomial[dealers[k]], Player)
           passing(s) == {w \in weights : BatchVerify(Player, s, commitments, w)}
           f == Values(subshares)
           g == Promised(Player, subshares, commitments)
<1>1. /\ n \in 1 .. 3 /\ n \in Nat \ {0} /\ n + 1 \notin 1 .. n /\ n \in 1 .. n
      /\ \A k \in 1 .. n : k \in 1 .. 3 /\ k \in Nat /\ list[k] \in Field
                           /\ dealers[k] \in 1 .. n
  <2>1. n \in 1 .. 3 /\ n \in Nat \ {0}
    OBVIOUS
  <2>3. \A k \in 1 .. n : list[k] \in Field
    OBVIOUS
  <2>2. \A k \in 1 .. n : dealers[k] \in 1 .. n
    OBVIOUS
  <2> HIDE DEF n
  <2> QED BY <2>1, <2>2, <2>3
<1>2. Player \in Field \ {0} /\ Player \in Nat /\ Player + 1 # Player
      /\ \A k \in 1 .. n : BatchPolynomial[k] \in Seq(Field)
  BY <1>1, BatchPolynomialTyped
<1> HIDE DEF n
<1>3. /\ commitments \in Seq(CommitmentRecords) /\ Len(commitments) = n
      /\ DOMAIN commitments = 1 .. n
      /\ \A k \in 1 .. n : /\ commitments[k].dealer = k
                           /\ commitments[k].coefficients = BatchPolynomial[k]
  <2>1. \A k \in 1 .. n : commitments[k] \in CommitmentRecords
    BY <1>1, <1>2 DEF CommitmentRecords
  <2>2. commitments \in [1 .. n -> CommitmentRecords]
    <3> DEFINE c(k) == [dealer |-> k, coefficients |-> BatchPolynomial[k]]
    <3>1. \A k \in 1 .. n : c(k) \in CommitmentRecords
      BY <2>1
    <3> HIDE DEF c
    <3>2. [k \in 1 .. n |-> c(k)] \in [1 .. n -> CommitmentRecords]
      BY <3>1
    <3> QED BY <3>2, Zenon DEF c
  <2>3. \A k \in 1 .. n : /\ commitments[k].dealer = k
                          /\ commitments[k].coefficients = BatchPolynomial[k]
    OBVIOUS
  <2> HIDE DEF commitments
  <2> QED BY <1>1, <2>2, <2>3
<1>4. /\ subshares \in Seq(SubShareRecords) /\ Len(subshares) = n /\ DOMAIN subshares = 1 .. n
      /\ subshares # <<>>
      /\ \A k \in 1 .. n : /\ subshares[k].dealer = dealers[k] /\ subshares[k].player = Player
                           /\ subshares[k].value = list[k]
  <2> DEFINE c(k) == [dealer |-> dealers[k], player |-> Player, value |-> list[k]]
  <2>1. \A k \in 1 .. n : c(k) \in SubShareRecords
    BY <1>1, <1>2 DEF SubShareRecords
  <2>2. subshares \in [1 .. n -> SubShareRecords]
    <3> HIDE DEF c
    <3>1. [k \in 1 .. n |-> c(k)] \in [1 .. n -> SubShareRecords]
      BY <2>1
    <3> QED BY <3>1, Zenon DEF c
  <2>3. \A k \in 1 .. n : /\ subshares[k].dealer = dealers[k] /\ subshares[k].player = Player
                          /\ subshares[k].value = list[k]
    OBVIOUS
  <2> HIDE DEF subshares
  <2>4. subshares \in Seq(SubShareRecords) /\ Len(subshares) = n /\ DOMAIN subshares = 1 .. n
    BY <1>1, <2>2
  <2>5. subshares # <<>>
    BY <1>1, <2>4
  <2> QED BY <2>3, <2>4, <2>5
<1>5. \A d : (\E c \in Range(commitments) : c.dealer = d) <=> d \in 1 .. n
  <2> HIDE DEF commitments
  <2> QED BY <1>3 DEF Range
<1> HIDE DEF commitments, subshares
<1>6. Batch(Player, subshares, commitments)
  BY <1>1, <1>2, <1>3, <1>4, <1>5 DEF Batch, Pairable
<1>7. ASSUME NEW k \in 1 .. n
      PROVE  f[k] = list[k] /\ g[k] = Evaluate(BatchPolynomial[dealers[k]], Player)
  <2> DEFINE s == subshares[k]
  <2>1. s.dealer = dealers[k] /\ \E c \in Range(commitments) : c.dealer = s.dealer
    BY <1>1, <1>4, <1>5
  <2>2. g[k] = Evaluate(CommitmentFor(s, k, commitments).coefficients, Player)
    BY <1>4 DEF Promised
  <2>3. f[k] = list[k]
    BY <1>4 DEF Values
  <2> HIDE DEF s
  <2>4. PICK l \in DOMAIN commitments : /\ CommitmentFor(s, k, commitments) = commitments[l]
                                        /\ commitments[l].dealer = s.dealer
    BY <1>3, <2>1, CommitmentFound
  <2>5. CommitmentFor(s, k, commitments).coefficients = BatchPolynomial[dealers[k]]
    BY <1>3, <2>1, <2>4
  <2> QED BY <2>2, <2>3, <2>5
<1> HIDE DEF f, g
<1>8. /\ (\A k \in 1 .. n : f[k] = g[k]) => passing(subshares) = weights
      /\ (\E k \in 1 .. n : f[k] # g[k]) => Cardinality(passing(subshares)) * P <= Cardinality(weights)
  BY <1>4, <1>6, BatchChecks DEF f, g
<1>9. good <=> \A k \in 1 .. n : f[k] = g[k]
  BY <1>7
<1>10. ASSUME NEW s, \E k \in DOMAIN s : ~Pairable(Player, s[k], commitments)
       PROVE  passing(s) = {}
  BY <1>10 DEF BatchVerify
<1>11. passing([subshares EXCEPT ![n].player = Player + 1]) = {}
  <2> DEFINE s == [subshares EXCEPT ![n].player = Player + 1]
  <2>1. n \in DOMAIN s /\ s[n].player = Player + 1
    <3>1. subshares[n] \in SubShareRecords
      BY <1>1, <1>4
    <3> QED BY <1>1, <1>4, <3>1 DEF SubShareRecords
  <2> HIDE DEF s, passing
  <2>2. ~Pairable(Player, s[n], commitments)
    BY <1>2, <2>1 DEF Pairable
  <2> QED BY <1>10, <2>1, <2>2 DEF s
<1>12. passing([subshares EXCEPT ![n].dealer = n + 1]) = {}
  <2> DEFINE s == [subshares EXCEPT ![n].dealer = n + 1]
  <2>1. n \in DOMAIN s /\ s[n].dealer = n + 1
    <3>1. subshares[n] \in SubShareRecords
      BY <1>1, <1>4
    <3> QED BY <1>1, <1>4, <3>1 DEF SubShareRecords
  <2> HIDE DEF s, passing
  <2>2. ~Pairable(Player, s[n], commitments)
    BY <1>1, <1>5, <2>1 DEF Pairable
  <2> QED BY <1>10, <2>1, <2>2 DEF s
<1> HIDE DEF passing, good, weights
<1>13. /\ good => passing(subshares) = weights
       /\ ~good => Cardinality(passing(subshares)) * P <= Cardinality(weights)
  BY <1>8, <1>9
<1> QED BY <1>11, <1>12, <1>13, Zenon DEF n, weights, commitments, subshares, good, passing

\* A batch passes under all weights when its sub-shares are good, and under one in P at
\* most when one of them is bad, in every field that has the scalars of the run's
\* polynomials (BatchSound draws them up to 4).
THEOREM BatchesSound == ASSUME P > 4 PROVE Spec => []BatchSound
<1>1. BatchSound
  BY SoundBatches, Zenon DEF BatchSound
<1> QED BY <1>1, PTL
=============================================================================
