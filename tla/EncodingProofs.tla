--------------------------- MODULE EncodingProofs ---------------------------
(***************************************************************************)
(* Every encoding of the crate can be undone, for all widths: a decoder    *)
(* gives back what the encoder wrote, accepts besides it at most the same  *)
(* points under k256's compact tag, and two values that are signed or      *)
(* hashed differ in their bytes.                                           *)
(***************************************************************************)
EXTENDS MCAlgebra, LagrangeProofs

-----------------------------------------------------------------------------
(* Sequences *)

\* A function on 1 .. n is a sequence of length n.
LEMMA FunctionIsSeq ==
    ASSUME NEW S, NEW n \in Nat, NEW f \in [1 .. n -> S]
    PROVE  f \in Seq(S) /\ Len(f) = n /\ DOMAIN f = 1 .. n
OBVIOUS

\* A sequence is a function on the numbers up to its length.
LEMMA SeqIsFunction ==
    ASSUME NEW S, NEW s \in Seq(S)
    PROVE  /\ Len(s) \in Nat
           /\ s \in [1 .. Len(s) -> S]
           /\ DOMAIN s = 1 .. Len(s)
OBVIOUS

\* Two sequences with the same elements are equal.
LEMMA SameElements ==
    ASSUME NEW S, NEW s \in Seq(S), NEW t \in Seq(S), Len(s) = Len(t),
           \A i \in 1 .. Len(s) : s[i] = t[i]
    PROVE  s = t
BY SeqIsFunction

\* What a concatenation holds.
LEMMA Joined ==
    ASSUME NEW S, NEW s \in Seq(S), NEW t \in Seq(S)
    PROVE  /\ s \o t \in Seq(S)
           /\ Len(s \o t) = Len(s) + Len(t)
           /\ \A i \in 1 .. Len(s) : (s \o t)[i] = s[i]
           /\ \A i \in 1 .. Len(t) : (s \o t)[Len(s) + i] = t[i]
OBVIOUS

\* An element of the second part.
LEMMA JoinedEnd ==
    ASSUME NEW S, NEW s \in Seq(S), NEW t \in Seq(S), NEW i \in 1 .. Len(t)
    PROVE  (s \o t)[Len(s) + i] = t[i]
BY Joined

\* Where the first parts are of one length, a concatenation can be taken apart.
LEMMA SplitJoined ==
    ASSUME NEW S, NEW s \in Seq(S), NEW t \in Seq(S), NEW u \in Seq(S), NEW v \in Seq(S),
           Len(s) = Len(t), s \o u = t \o v
    PROVE  s = t /\ u = v
<1>1. Len(s) \in Nat /\ Len(u) \in Nat /\ Len(u) = Len(v)
  BY Joined
<1>2. \A i \in 1 .. Len(s) : s[i] = t[i]
  BY Joined
<1>3. \A i \in 1 .. Len(u) : u[i] = v[i]
  <2> TAKE i \in 1 .. Len(u)
  <2>1. (s \o u)[Len(s) + i] = u[i]
    BY JoinedEnd, Zenon
  <2>2. i \in 1 .. Len(v)
    BY <1>1
  <2>3. (t \o v)[Len(t) + i] = v[i]
    BY <2>2, JoinedEnd, Zenon
  <2> QED BY <2>1, <2>3
<1> QED BY <1>1, <1>2, <1>3, SameElements

\* A stretch of a sequence.
LEMMA Stretch ==
    ASSUME NEW S, NEW s \in Seq(S), NEW m \in Nat, NEW n \in Nat, n <= Len(s), 0 < m, m <= n + 1
    PROVE  /\ SubSeq(s, m, n) \in Seq(S)
           /\ Len(SubSeq(s, m, n)) = (n - m) + 1
           /\ \A i \in 1 .. (n - m) + 1 : SubSeq(s, m, n)[i] = s[(m + i) - 1]
OBVIOUS

\* A stretch after the first m elements.
LEMMA StretchAfter ==
    ASSUME NEW S, NEW s \in Seq(S), NEW m \in Nat, NEW n \in Nat, n <= Len(s), m <= n
    PROVE  /\ SubSeq(s, m + 1, n) \in Seq(S)
           /\ Len(SubSeq(s, m + 1, n)) = n - m
           /\ \A i \in 1 .. n - m : SubSeq(s, m + 1, n)[i] = s[m + i]
<1> DEFINE k == m + 1
<1>1. k \in Nat /\ 0 < k /\ k <= n + 1 /\ (n - k) + 1 = n - m
  OBVIOUS
<1>2. \A i \in 1 .. n - m : (k + i) - 1 = m + i
  OBVIOUS
<1> HIDE DEF k
<1>3. /\ SubSeq(s, k, n) \in Seq(S) /\ Len(SubSeq(s, k, n)) = (n - k) + 1
      /\ \A i \in 1 .. (n - k) + 1 : SubSeq(s, k, n)[i] = s[(k + i) - 1]
  BY <1>1, Stretch
<1> QED BY <1>1, <1>2, <1>3 DEF k

\* A sequence is its first k elements and the others.
LEMMA CutAt ==
    ASSUME NEW S, NEW s \in Seq(S), NEW k \in Nat, k <= Len(s)
    PROVE  s = SubSeq(s, 1, k) \o SubSeq(s, k + 1, Len(s))
<1>1. Len(s) \in Nat
  BY SeqIsFunction
<1> DEFINE u == SubSeq(s, 1, k)
           v == SubSeq(s, k + 1, Len(s))
<1>2. u \in Seq(S) /\ Len(u) = k /\ \A i \in 1 .. k : u[i] = s[i]
  BY <1>1, Stretch
<1>3. v \in Seq(S) /\ Len(v) = Len(s) - k /\ \A i \in 1 .. Len(s) - k : v[i] = s[k + i]
  BY <1>1, Stretch
<1> HIDE DEF u, v
<1>4. u \o v \in Seq(S) /\ Len(u \o v) = Len(s)
  <2>1. u \o v \in Seq(S) /\ Len(u \o v) = Len(u) + Len(v)
    BY <1>2, <1>3, Joined
  <2> QED BY <1>1, <1>2, <1>3, <2>1
<1>5. \A i \in 1 .. Len(s) : (u \o v)[i] = s[i]
  <2> TAKE i \in 1 .. Len(s)
  <2>1. CASE i <= k
    <3>1. i \in 1 .. Len(u)
      BY <1>1, <1>2, <2>1
    <3> QED BY <1>2, <1>3, <3>1, Joined
  <2>2. CASE i > k
    <3>1. i - k \in 1 .. Len(v) /\ k + (i - k) = i
      BY <1>1, <1>3, <2>2
    <3>2. (u \o v)[Len(u) + (i - k)] = v[i - k]
      BY <1>2, <1>3, <3>1, Joined
    <3> QED BY <1>2, <1>3, <3>1, <3>2
  <2>3. i <= k \/ i > k
    BY <1>1
  <2> QED BY <2>1, <2>2, <2>3
<1> QED BY <1>4, <1>5, SameElements DEF u, v

\* A sequence reversed twice is the sequence.
LEMMA ReversedTwice ==
    ASSUME NEW S, NEW s \in Seq(S)
    PROVE  /\ Reverse(s) \in Seq(S)
           /\ Len(Reverse(s)) = Len(s)
           /\ \A i \in 1 .. Len(s) : Reverse(s)[i] = s[(Len(s) - i) + 1]
           /\ Reverse(Reverse(s)) = s
<1> DEFINE n == Len(s)
           r == Reverse(s)
<1>1. n \in Nat /\ \A i \in 1 .. n : s[i] \in S
  BY SeqIsFunction
<1>2. r = [i \in 1 .. n |-> s[(n - i) + 1]]
  BY DEF Reverse
<1>3. \A i \in 1 .. n : (n - i) + 1 \in 1 .. n /\ (n - ((n - i) + 1)) + 1 = i
  BY <1>1
<1>4. r \in [1 .. n -> S]
  BY <1>1, <1>2, <1>3
<1>5. r \in Seq(S) /\ Len(r) = n
  BY <1>1, <1>4, FunctionIsSeq
<1>6. Reverse(r) = [i \in 1 .. n |-> r[(n - i) + 1]]
  BY <1>5 DEF Reverse
<1>7. \A i \in 1 .. n : Reverse(r)[i] = s[i]
  BY <1>1, <1>2, <1>3, <1>6
<1>8. Reverse(r) \in [1 .. n -> S]
  BY <1>3, <1>4, <1>6
<1>9. Reverse(r) \in Seq(S) /\ Len(Reverse(r)) = n
  BY <1>1, <1>8, FunctionIsSeq
<1>10. Reverse(r) = s
  BY <1>7, <1>9, SameElements
<1> QED BY <1>2, <1>5, <1>10

-----------------------------------------------------------------------------
(* Recursion over the naturals *)

\* g starts at base and takes one step for each natural.
Steps(g, base, step) == g[0] = base /\ \A n \in Nat : g[n + 1] = step[n][g[n]]

\* A function can be defined by recursion over the naturals.
LEMMA NatRecursion ==
    ASSUME NEW X, NEW base \in X, NEW step \in [Nat -> [X -> X]]
    PROVE  \E g \in [Nat -> X] : Steps(g, base, step)
<1> DEFINE Upto(g, n) == g[0] = base /\ \A k \in 0 .. n - 1 : g[k + 1] = step[k][g[k]]
           T == {n \in Nat : \E g \in [Nat -> X] : Upto(g, n)}
<1>1. 0 \in T
  <2> DEFINE g == [n \in Nat |-> base]
  <2>1. g \in [Nat -> X] /\ Upto(g, 0)
    OBVIOUS
  <2> QED BY <2>1
<1>2. ASSUME NEW n \in Nat, n \in T PROVE n + 1 \in T
  <2>1. PICK g \in [Nat -> X] : Upto(g, n)
    BY <1>2
  <2> DEFINE h == [g EXCEPT ![n + 1] = step[n][g[n]]]
  <2>2. step[n][g[n]] \in X
    OBVIOUS
  <2>3. h \in [Nat -> X]
    BY <2>2
  <2>4. \A k \in 0 .. n : h[k] = g[k] /\ k \in Nat
    OBVIOUS
  <2>5. h[n + 1] = step[n][h[n]]
    BY <2>4
  <2>6. ASSUME NEW k \in 0 .. (n + 1) - 1 PROVE h[k + 1] = step[k][h[k]]
    <3>1. CASE k = n
      BY <2>5, <3>1
    <3>2. CASE k # n
      <4>1. k \in 0 .. n - 1 /\ k \in 0 .. n /\ k + 1 \in 0 .. n
        BY <3>2
      <4>2. g[k + 1] = step[k][g[k]]
        BY <2>1, <4>1
      <4>3. h[k] = g[k] /\ h[k + 1] = g[k + 1]
        BY <2>4, <4>1
      <4> QED BY <4>2, <4>3
    <3> QED BY <3>1, <3>2
  <2>7. h[0] = base
    BY <2>1, <2>4
  <2> HIDE DEF h
  <2>8. Upto(h, n + 1)
    BY <2>6, <2>7
  <2> HIDE DEF Upto
  <2> QED BY <2>3, <2>8
<1>3. \A n \in Nat : n \in T
  <2> HIDE DEF T
  <2> QED BY <1>1, <1>2, NatInductive
<1> DEFINE G(n) == CHOOSE g \in [Nat -> X] : Upto(g, n)
<1>4. \A n \in Nat : G(n) \in [Nat -> X] /\ Upto(G(n), n)
  <2> HIDE DEF Upto
  <2> QED BY <1>3
<1> HIDE DEF G
<1> DEFINE A == {k \in Nat : \A m, n \in Nat : k <= m /\ k <= n => G(m)[k] = G(n)[k]}
<1>5. 0 \in A
  BY <1>4
<1>6. ASSUME NEW k \in Nat, k \in A PROVE k + 1 \in A
  <2> SUFFICES ASSUME NEW m \in Nat, NEW n \in Nat, k + 1 <= m, k + 1 <= n
               PROVE  G(m)[k + 1] = G(n)[k + 1]
    OBVIOUS
  <2>1. G(m)[k] = G(n)[k]
    BY <1>6
  <2>2. k \in 0 .. m - 1 /\ k \in 0 .. n - 1
    OBVIOUS
  <2>3. G(m)[k + 1] = step[k][G(m)[k]] /\ G(n)[k + 1] = step[k][G(n)[k]]
    BY <1>4, <2>2
  <2> QED BY <2>1, <2>3
<1>7. \A k \in Nat : k \in A
  <2> HIDE DEF A
  <2> QED BY <1>5, <1>6, NatInductive
<1> DEFINE f == [n \in Nat |-> G(n)[n]]
<1>8. f \in [Nat -> X] /\ f[0] = base
  BY <1>4
<1>9. ASSUME NEW n \in Nat PROVE f[n + 1] = step[n][f[n]]
  <2>1. n \in 0 .. (n + 1) - 1 /\ n + 1 \in Nat
    OBVIOUS
  <2>2. G(n + 1)[n + 1] = step[n][G(n + 1)[n]]
    BY <1>4, <2>1
  <2>3. G(n + 1)[n] = G(n)[n]
    BY <1>7, <2>1
  <2> QED BY <2>1, <2>2, <2>3
<1> HIDE DEF f
<1>10. Steps(f, base, step)
  BY <1>8, <1>9 DEF Steps
<1> QED BY <1>8, <1>10

-----------------------------------------------------------------------------
(* Numbers of a fixed width *)

\* Size is the power of Base.
LEMMA SizeStep ==
    /\ Size[0] = 1
    /\ \A n \in Nat : Size[n] \in Nat \ {0} /\ Size[n + 1] = Base * Size[n]
<1> DEFINE X == Nat \ {0}
           step == [n \in Nat |-> [v \in X |-> Base * v]]
<1>1. step \in [Nat -> [X -> X]] /\ 1 \in X
  <2>1. Base \in X
    BY EncodingAssumption
  <2>2. \A v \in X : Base * v \in X
    BY <2>1
  <2> QED BY <2>2
<1>2. PICK g \in [Nat -> X] : Steps(g, 1, step)
  <2> HIDE DEF X, step
  <2> QED BY <1>1, NatRecursion, Zenon
<1>3. g[0] = 1 /\ \A n \in Nat : g[n + 1] = Base * g[n]
  BY <1>2 DEF Steps
<1>4. \A n \in Nat : g[n] = IF n = 0 THEN 1 ELSE Base * g[n - 1]
  <2> TAKE n \in Nat
  <2>1. CASE n = 0
    BY <1>3, <2>1
  <2>2. CASE n # 0
    <3>1. n - 1 \in Nat /\ (n - 1) + 1 = n
      BY <2>2
    <3> QED BY <1>3, <2>2, <3>1
  <2> QED BY <2>1, <2>2
<1>5. g = [n \in Nat |-> IF n = 0 THEN 1 ELSE Base * g[n - 1]]
  BY <1>4
<1>6. Size = [n \in Nat |-> IF n = 0 THEN 1 ELSE Base * Size[n - 1]]
  BY <1>5, Zenon DEF Size
<1> HIDE DEF X, step
<1>7. Size[0] = 1
  BY <1>6
<1>8. \A n \in Nat : Size[n] = IF n = 0 THEN 1 ELSE Base * Size[n - 1]
  BY <1>6, Zenon
<1>9. \A n \in Nat : Size[n + 1] = Base * Size[n]
  <2> TAKE n \in Nat
  <2>1. n + 1 \in Nat /\ n + 1 # 0 /\ (n + 1) - 1 = n
    OBVIOUS
  <2>2. Size[n + 1] = Base * Size[(n + 1) - 1]
    BY <1>8, <2>1, Zenon
  <2> QED BY <2>1, <2>2, Zenon
<1> DEFINE T == {n \in Nat : Size[n] \in Nat \ {0}}
<1>10. \A n \in Nat : n \in T
  <2>1. 0 \in T
    BY <1>7
  <2>2. ASSUME NEW n \in Nat, n \in T PROVE n + 1 \in T
    <3>1. Size[n] \in X /\ Size[n + 1] = Base * Size[n]
      BY <1>9, <2>2 DEF X
    <3>0. Base \in X
      BY EncodingAssumption DEF X
    <3>2. \A u, v \in X : u * v \in X
      BY DEF X
    <3>3. Size[n + 1] \in X
      BY <3>0, <3>1, <3>2
    <3> QED BY <3>3 DEF X
  <2> HIDE DEF T
  <2> QED BY <2>1, <2>2, NatInductive
<1> QED BY <1>7, <1>9, <1>10

\* Quotient and remainder.
LEMMA Quotient ==
    ASSUME NEW v \in Nat, NEW m \in Nat \ {0}
    PROVE  /\ v \div m \in Nat
           /\ v % m \in 0 .. m - 1
           /\ v = m * (v \div m) + (v % m)
OBVIOUS

\* There is only one of each.
LEMMA QuotientUnique ==
    ASSUME NEW m \in Nat \ {0}, NEW q \in Nat, NEW r \in 0 .. m - 1
    PROVE  (m * q + r) \div m = q /\ (m * q + r) % m = r
OBVIOUS

\* Dividing twice is dividing by the product.
LEMMA DividedTwice ==
    ASSUME NEW v \in Nat, NEW m \in Nat \ {0}, NEW n \in Nat \ {0}
    PROVE  v \div (m * n) = (v \div n) \div m
<1> DEFINE q == v \div n
           r == v % n
           d == q \div m
           e == q % m
<1>1. q \in Nat /\ r \in 0 .. n - 1 /\ v = n * q + r
  BY Quotient
<1> HIDE DEF q, r
<1>2. d \in Nat /\ e \in 0 .. m - 1 /\ q = m * d + e
  BY <1>1, Quotient
<1> HIDE DEF d, e
<1>3. v = (m * n) * d + (n * e + r)
  BY <1>1, <1>2
<1>4. n * e + r \in Nat /\ n * e + r < m * n
  <2>1. n * e <= n * (m - 1) /\ n * e \in Nat
    BY <1>2
  <2>2. n * (m - 1) = m * n - n
    OBVIOUS
  <2> QED BY <1>1, <2>1, <2>2
<1>5. m * n \in Nat \ {0}
  OBVIOUS
<1>6. v \div (m * n) = d
  <2> DEFINE p == m * n
             f == n * e + r
  <2>1. p \in Nat \ {0} /\ f \in 0 .. p - 1 /\ v = p * d + f
    BY <1>3, <1>4, <1>5
  <2> HIDE DEF p, f
  <2>2. v \div p = d
    BY <1>2, <2>1, QuotientUnique
  <2> QED BY <2>2 DEF p
<1> QED BY <1>6 DEF d, q

\* The recursive function in the definition of FromLittle, from the last byte
\* down
LittleIter(b) ==
    CHOOSE iter : iter =
        [s \in SUBSET (DOMAIN b) |->
            IF s = {} THEN 0 ELSE iter[s \ {Min(s)}] * Base + b[Min(s)]]

\* The number in the bytes from the k-th on
Rest(b, k) == LittleIter(b)[k .. Len(b)]

\* FromLittle is the value of that function at the whole list.
LEMMA FromLittleIsIter ==
    ASSUME NEW b
    PROVE  FromLittle(b) = LittleIter(b)[DOMAIN b]
BY DEF FromLittle, FoldRight, MapThenFoldSet, LittleIter

\* The function exists, and so it satisfies its equation.
LEMMA LittleStep ==
    ASSUME NEW b \in Seq(Nat), NEW s \in SUBSET (DOMAIN b)
    PROVE  /\ LittleIter(b)[s] =
                 IF s = {} THEN 0 ELSE LittleIter(b)[s \ {Min(s)}] * Base + b[Min(s)]
           /\ LittleIter(b)[s] \in Nat
<1> DEFINE S == DOMAIN b
           step == [t \in SUBSET S |->
                       [v \in Nat |-> IF t = {} THEN 0 ELSE v * Base + b[Min(t)]]]
           ch == [t \in SUBSET S |-> Min(t)]
<1>1. \A t \in SUBSET S : t # {} => Min(t) \in t
  BY MinOfNat
<1>2. \A k \in S : b[k] \in Nat
  OBVIOUS
<1>3. IsFiniteSet(S)
  BY FS_Interval
<1>4. step \in [SUBSET S -> [Nat -> Nat]]
  <2> SUFFICES ASSUME NEW t \in SUBSET S, NEW v \in Nat, t # {}
               PROVE  v * Base + b[Min(t)] \in Nat
    OBVIOUS
  <2>1. b[Min(t)] \in Nat /\ Base \in Nat
    BY <1>1, <1>2, EncodingAssumption
  <2>2. v * Base \in Nat
    BY <2>1
  <2> QED BY <2>1, <2>2
<1> HIDE DEF S
<1>5. PICK g \in [SUBSET S -> Nat] : Recursive(g, S, 0, step, ch)
  <2>1. 0 \in Nat /\ \A t \in SUBSET S : t # {} => ch[t] \in t
    BY <1>1
  <2> HIDE DEF step, ch
  <2> QED BY <1>3, <1>4, <2>1, Recursion, Zenon
<1>6. \A t \in SUBSET S :
        g[t] = IF t = {} THEN 0 ELSE g[t \ {Min(t)}] * Base + b[Min(t)]
  <2> TAKE t \in SUBSET S
  <2>1. t \ {Min(t)} \in SUBSET S /\ ch[t] = Min(t)
    OBVIOUS
  <2>2. g[t \ {Min(t)}] \in Nat
    BY <2>1
  <2>3. t # {} => step[t][g[t \ {ch[t]}]] = g[t \ {Min(t)}] * Base + b[Min(t)]
    BY <2>1, <2>2
  <2>4. g[t] = IF t = {} THEN 0 ELSE step[t][g[t \ {ch[t]}]]
    <3> HIDE DEF step, ch
    <3> QED BY <1>5 DEF Recursive
  <2> HIDE DEF step, ch
  <2> QED BY <2>3, <2>4
<1> DEFINE Equation(f) ==
        f = [t \in SUBSET S |-> IF t = {} THEN 0 ELSE f[t \ {Min(t)}] * Base + b[Min(t)]]
<1>7. Equation(g)
  BY <1>6
<1>8. Equation(LittleIter(b))
  <2> HIDE DEF step, ch
  <2> QED BY <1>7, Zenon DEF LittleIter, S
<1>9. \A t \in SUBSET S :
        LittleIter(b)[t] =
            IF t = {} THEN 0 ELSE LittleIter(b)[t \ {Min(t)}] * Base + b[Min(t)]
  <2> HIDE DEF step, ch
  <2> QED BY <1>8, Zenon
<1> HIDE DEF step, ch, Equation
<1> DEFINE T == {t \in SUBSET S : LittleIter(b)[t] \in Nat}
<1>10. {} \in T
  <2>1. LittleIter(b)[{}] = 0
    BY <1>9, Zenon
  <2> QED BY <2>1
<1>11. \A t \in SUBSET S : t # {} /\ (\A x \in t : t \ {x} \in T) => t \in T
  <2> TAKE t \in SUBSET S
  <2> SUFFICES ASSUME t # {}, \A x \in t : t \ {x} \in T PROVE t \in T
    OBVIOUS
  <2>1. Min(t) \in t /\ b[Min(t)] \in Nat /\ Base \in Nat
    BY <1>1, <1>2, EncodingAssumption
  <2>2. LittleIter(b)[t \ {Min(t)}] \in Nat
    BY <2>1
  <2>3. LittleIter(b)[t] = LittleIter(b)[t \ {Min(t)}] * Base + b[Min(t)]
    BY <1>9
  <2>4. \A x, y, z \in Nat : x * y + z \in Nat
    OBVIOUS
  <2>5. LittleIter(b)[t \ {Min(t)}] * Base + b[Min(t)] \in Nat
    BY <2>1, <2>2, <2>4, Zenon
  <2>6. LittleIter(b)[t] \in Nat
    BY <2>3, <2>5, Zenon
  <2> QED BY <2>6
<1>12. \A t \in SUBSET S : t \in T
  <2> HIDE DEF T
  <2> QED BY <1>3, <1>10, <1>11, SubsetsInductive
<1>13. s \in SUBSET S
  BY DEF S
<1> QED BY <1>9, <1>12, <1>13, Zenon

\* The number in the bytes from the k-th on is that in the bytes after it times
\* Base, and the k-th byte.
LEMMA RestStep ==
    ASSUME NEW b \in Seq(Nat)
    PROVE  /\ Rest(b, Len(b) + 1) = 0
           /\ \A k \in 1 .. Len(b) : Rest(b, k) = Rest(b, k + 1) * Base + b[k]
           /\ \A k \in 1 .. Len(b) + 1 : Rest(b, k) \in Nat
           /\ FromLittle(b) = Rest(b, 1)
<1> DEFINE n == Len(b)
<1>0. n \in Nat /\ DOMAIN b = 1 .. n
  BY SeqIsFunction
<1> HIDE DEF n
<1>1. Rest(b, n + 1) = 0
  <2>1. (n + 1) .. n = {} /\ {} \in SUBSET (DOMAIN b)
    BY <1>0
  <2> QED BY <2>1, LittleStep DEF Rest, n
<1>2. \A k \in 1 .. n + 1 : Rest(b, k) \in Nat
  <2> TAKE k \in 1 .. n + 1
  <2>1. k .. n \in SUBSET (DOMAIN b)
    BY <1>0
  <2> QED BY <2>1, LittleStep DEF Rest, n
<1>3. ASSUME NEW k \in 1 .. n PROVE Rest(b, k) = Rest(b, k + 1) * Base + b[k]
  <2> DEFINE s == k .. n
             r == (k + 1) .. n
  <2>1. s \in SUBSET (DOMAIN b) /\ s \in SUBSET Nat /\ s # {} /\ k \in s /\ s \ {k} = r
    <3>1. s \in SUBSET (DOMAIN b)
      BY <1>0
    <3>2. \A i \in s : i \in Nat
      BY <1>0
    <3>3. k \in s
      BY <1>0
    <3>4. s \ {k} = r
      BY <1>0
    <3> QED BY <3>1, <3>2, <3>3, <3>4
  <2>2. Min(s) = k
    <3>1. Min(s) \in s /\ Min(s) <= k
      BY <2>1, MinOfNat
    <3> QED BY <1>0, <3>1
  <2> HIDE DEF s, r
  <2>3. LittleIter(b)[s] = LittleIter(b)[r] * Base + b[k]
    BY <2>1, <2>2, LittleStep
  <2> QED BY <2>3 DEF s, r, n, Rest
<1>4. FromLittle(b) = Rest(b, 1)
  BY <1>0, FromLittleIsIter DEF Rest, n
<1> QED BY <1>1, <1>2, <1>3, <1>4 DEF n

\* Bytes are numbers.
LEMMA BytesAreNumbers ==
    /\ Byte \subseteq Nat /\ 0 \in Byte /\ Base \in Nat \ {0}
    /\ \A b \in Seq(Byte) : b \in Seq(Nat) /\ \A k \in 1 .. Len(b) : b[k] \in Byte
<1>1. Byte \subseteq Nat /\ 0 \in Byte /\ Base \in Nat \ {0}
  BY EncodingAssumption DEF Byte
<1>2. ASSUME NEW b \in Seq(Byte) PROVE b \in Seq(Nat) /\ \A k \in 1 .. Len(b) : b[k] \in Byte
  <2>1. Len(b) \in Nat /\ b \in [1 .. Len(b) -> Byte]
    BY SeqIsFunction
  <2>2. b \in [1 .. Len(b) -> Nat]
    BY <1>1, <2>1
  <2>3. b \in Seq(Nat)
    BY <2>1, <2>2, FunctionIsSeq
  <2> QED BY <2>1, <2>3
<1> QED BY <1>1, <1>2

\* w bytes are written for a number.
LEMMA LittleTyped ==
    ASSUME NEW v \in Nat, NEW w \in Nat
    PROVE  /\ LittleEndian(v, w) \in Seq(Byte)
           /\ Len(LittleEndian(v, w)) = w
           /\ \A k \in 1 .. w : LittleEndian(v, w)[k] = (v \div Size[k - 1]) % Base
<1> DEFINE b == LittleEndian(v, w)
<1>1. \A k \in 1 .. w : b[k] = (v \div Size[k - 1]) % Base
  BY DEF LittleEndian
<1>2. \A k \in 1 .. w : (v \div Size[k - 1]) % Base \in Byte
  <2> TAKE k \in 1 .. w
  <2>1. k - 1 \in Nat
    OBVIOUS
  <2>2. Size[k - 1] \in Nat \ {0}
    BY <2>1, SizeStep
  <2>3. v \div Size[k - 1] \in Nat
    BY <2>2, Quotient
  <2> QED BY <2>3, BytesAreNumbers, Quotient DEF Byte
<1>3. b = [k \in 1 .. w |-> (v \div Size[k - 1]) % Base]
  BY DEF LittleEndian
<1>4. b \in [1 .. w -> Byte]
  BY <1>2, <1>3
<1> HIDE DEF b
<1>5. b \in Seq(Byte) /\ Len(b) = w
  BY <1>4, FunctionIsSeq
<1> QED BY <1>1, <1>5 DEF b

\* The quotients by the powers of Base, one from the other.
LEMMA QuotientStep ==
    ASSUME NEW v \in Nat, NEW k \in Nat
    PROVE  /\ v \div Size[k] \in Nat
           /\ v \div Size[k + 1] = (v \div Size[k]) \div Base
           /\ v \div Size[k] = (v \div Size[k + 1]) * Base + ((v \div Size[k]) % Base)
<1> DEFINE m == Size[k]
           q == v \div m
<1>1. m \in Nat \ {0} /\ Size[k + 1] = Base * m /\ Base \in Nat \ {0}
  BY SizeStep, BytesAreNumbers
<1> HIDE DEF m
<1>2. q \in Nat
  BY <1>1, Quotient
<1>3. v \div (Base * m) = q \div Base
  BY <1>1, DividedTwice
<1> HIDE DEF q
<1>4. q = Base * (q \div Base) + (q % Base) /\ q \div Base \in Nat
  BY <1>1, <1>2, Quotient
<1>5. Base * (q \div Base) = (q \div Base) * Base
  BY <1>1, <1>4
<1>6. v \div Size[k + 1] = q \div Base
  BY <1>1, <1>3
<1> HIDE DEF m
<1>7. q = (v \div Size[k + 1]) * Base + (q % Base)
  BY <1>4, <1>5, <1>6, Zenon
<1> QED BY <1>2, <1>6, <1>7, Zenon DEF m, q

\* Reading what was written gives the number.
LEMMA ReadsWritten ==
    ASSUME NEW w \in Nat, NEW v \in 0 .. Size[w] - 1
    PROVE  FromLittle(LittleEndian(v, w)) = v
<1> DEFINE b == LittleEndian(v, w)
           T == {m \in Nat : m <= w => Rest(b, (w - m) + 1) = v \div Size[w - m]}
<1>1. v \in Nat /\ Size[w] \in Nat \ {0}
  BY SizeStep
<1>2. b \in Seq(Nat) /\ Len(b) = w /\ \A k \in 1 .. w : b[k] = (v \div Size[k - 1]) % Base
  BY <1>1, LittleTyped, BytesAreNumbers
<1> HIDE DEF b
<1>3. 0 \in T
  <2>1. v \div Size[w] = 0
    BY <1>1
  <2>2. Rest(b, w + 1) = 0
    BY <1>2, RestStep
  <2>3. w - 0 = w
    OBVIOUS
  <2> QED BY <2>1, <2>2, <2>3
<1>4. ASSUME NEW m \in Nat, m \in T PROVE m + 1 \in T
  <2> SUFFICES ASSUME m + 1 <= w
               PROVE  Rest(b, (w - (m + 1)) + 1) = v \div Size[w - (m + 1)]
    OBVIOUS
  <2> DEFINE k == w - m
  <2>1. k \in 1 .. w /\ (w - (m + 1)) + 1 = k /\ w - (m + 1) = k - 1 /\ k - 1 \in Nat
        /\ (k - 1) + 1 = k
    OBVIOUS
  <2>2. Rest(b, k + 1) = v \div Size[k]
    BY <1>4
  <2> HIDE DEF k
  <2>3. Rest(b, k) = Rest(b, k + 1) * Base + b[k]
    BY <1>2, <2>1, RestStep
  <2>4. v \div Size[k - 1] = (v \div Size[k]) * Base + ((v \div Size[k - 1]) % Base)
    <3>1. v \div Size[k - 1] =
            (v \div Size[(k - 1) + 1]) * Base + ((v \div Size[k - 1]) % Base)
      BY <1>1, <2>1, QuotientStep
    <3> QED BY <2>1, <3>1, Zenon
  <2>5. b[k] = (v \div Size[k - 1]) % Base
    BY <1>2, <2>1
  <2>6. Rest(b, k) = v \div Size[k - 1]
    BY <2>2, <2>3, <2>4, <2>5, Zenon
  <2> QED BY <2>1, <2>6
<1>5. \A m \in Nat : m \in T
  <2> HIDE DEF T
  <2> QED BY <1>3, <1>4, NatInductive
<1>6. Rest(b, 1) = v \div Size[0]
  <2>1. w \in T /\ w <= w /\ w - w = 0 /\ (w - w) + 1 = 1
    BY <1>5
  <2> QED BY <2>1
<1>7. v \div 1 = v
  BY <1>1
<1>8. FromLittle(b) = Rest(b, 1)
  BY <1>2, RestStep
<1> QED BY <1>6, <1>7, <1>8, SizeStep DEF b

\* Writing what was read gives the bytes.
LEMMA WritesRead ==
    ASSUME NEW b \in Seq(Byte)
    PROVE  /\ FromLittle(b) \in 0 .. Size[Len(b)] - 1
           /\ LittleEndian(FromLittle(b), Len(b)) = b
<1> DEFINE n == Len(b)
           v == FromLittle(b)
<1>1. n \in Nat /\ b \in Seq(Nat) /\ \A k \in 1 .. n : b[k] \in 0 .. Base - 1
  BY BytesAreNumbers, SeqIsFunction DEF Byte
<1>2. /\ Rest(b, n + 1) = 0 /\ v = Rest(b, 1)
      /\ \A k \in 1 .. n : Rest(b, k) = Rest(b, k + 1) * Base + b[k]
      /\ \A k \in 1 .. n + 1 : Rest(b, k) \in Nat
  BY <1>1, RestStep
<1>3. v \in Nat
  BY <1>1, <1>2
<1> HIDE DEF n, v
<1>4. \A k \in 1 .. n : Rest(b, k) \div Base = Rest(b, k + 1) /\ Rest(b, k) % Base = b[k]
  <2> TAKE k \in 1 .. n
  <2> DEFINE q == Rest(b, k + 1)
             r == b[k]
  <2>1. q \in Nat /\ r \in 0 .. Base - 1 /\ Rest(b, k) = q * Base + r /\ Base \in Nat \ {0}
    BY <1>1, <1>2, BytesAreNumbers
  <2> HIDE DEF q, r
  <2>2. Rest(b, k) = Base * q + r
    BY <2>1
  <2>3. Rest(b, k) \div Base = q /\ Rest(b, k) % Base = r
    BY <2>1, <2>2, QuotientUnique
  <2> QED BY <2>3 DEF q, r
<1> DEFINE T == {m \in Nat : m <= n => Rest(b, m + 1) = v \div Size[m]}
<1>5. 0 \in T
  <2>1. 0 + 1 = 1 /\ v \div 1 = v /\ Size[0] = 1
    BY <1>3, SizeStep
  <2> QED BY <1>2, <2>1
<1>6. ASSUME NEW m \in Nat, m \in T PROVE m + 1 \in T
  <2> SUFFICES ASSUME m + 1 <= n PROVE Rest(b, (m + 1) + 1) = v \div Size[m + 1]
    OBVIOUS
  <2>1. Rest(b, m + 1) = v \div Size[m] /\ m + 1 \in 1 .. n
    BY <1>1, <1>6
  <2>2. Rest(b, m + 1) \div Base = Rest(b, (m + 1) + 1)
    BY <1>4, <2>1
  <2>3. v \div Size[m + 1] = (v \div Size[m]) \div Base
    BY <1>3, QuotientStep
  <2> QED BY <2>1, <2>2, <2>3
<1>7. \A m \in Nat : m \in T
  <2> HIDE DEF T
  <2> QED BY <1>5, <1>6, NatInductive
<1>8. v \div Size[n] = 0
  BY <1>1, <1>2, <1>7
<1>9. v < Size[n]
  <2> DEFINE s == Size[n]
  <2>1. s \in Nat \ {0}
    BY <1>1, SizeStep
  <2>2. v \div s = 0
    BY <1>8
  <2> HIDE DEF s
  <2>3. v = s * (v \div s) + (v % s) /\ v % s \in 0 .. s - 1
    BY <1>3, <2>1, Quotient
  <2>4. s * 0 = 0
    BY <2>1
  <2>5. v < s
    BY <1>3, <2>1, <2>2, <2>3, <2>4
  <2> QED BY <2>5 DEF s
<1>10. \A k \in 1 .. n : LittleEndian(v, n)[k] = b[k]
  <2> TAKE k \in 1 .. n
  <2>1. k - 1 \in Nat /\ k - 1 <= n /\ (k - 1) + 1 = k
    BY <1>1
  <2>2. Rest(b, (k - 1) + 1) = v \div Size[k - 1]
    BY <1>7, <2>1
  <2>3. Rest(b, k) = v \div Size[k - 1]
    BY <2>1, <2>2
  <2>4. LittleEndian(v, n)[k] = (v \div Size[k - 1]) % Base
    BY <1>1, <1>3, LittleTyped
  <2> QED BY <1>4, <2>3, <2>4
<1>11. LittleEndian(v, n) \in Seq(Byte) /\ Len(LittleEndian(v, n)) = n
  BY <1>1, <1>3, LittleTyped
<1>12. LittleEndian(v, n) = b
  BY <1>10, <1>11, SameElements DEF n
<1>13. Size[n] \in Nat
  BY <1>1, SizeStep
<1> QED BY <1>3, <1>9, <1>12, <1>13 DEF n, v

\* The same in the other order.
LEMMA BigInverts ==
    /\ \A w \in Nat : \A v \in 0 .. Size[w] - 1 :
            /\ BigEndian(v, w) \in Seq(Byte) /\ Len(BigEndian(v, w)) = w
            /\ FromBig(BigEndian(v, w)) = v
    /\ \A b \in Seq(Byte) :
            FromBig(b) \in 0 .. Size[Len(b)] - 1 /\ BigEndian(FromBig(b), Len(b)) = b
<1>1. ASSUME NEW w \in Nat, NEW v \in 0 .. Size[w] - 1
      PROVE  /\ BigEndian(v, w) \in Seq(Byte) /\ Len(BigEndian(v, w)) = w
             /\ FromBig(BigEndian(v, w)) = v
  <2> DEFINE s == LittleEndian(v, w)
  <2>1. v \in Nat
    BY SizeStep
  <2>2. s \in Seq(Byte) /\ Len(s) = w
    BY <2>1, LittleTyped
  <2>3. FromLittle(s) = v
    BY ReadsWritten
  <2> HIDE DEF s
  <2>4. Reverse(s) \in Seq(Byte) /\ Len(Reverse(s)) = w /\ Reverse(Reverse(s)) = s
    BY <2>2, ReversedTwice
  <2> QED BY <2>3, <2>4 DEF BigEndian, FromBig, s
<1>2. ASSUME NEW b \in Seq(Byte)
      PROVE  FromBig(b) \in 0 .. Size[Len(b)] - 1 /\ BigEndian(FromBig(b), Len(b)) = b
  <2> DEFINE r == Reverse(b)
  <2>1. r \in Seq(Byte) /\ Len(r) = Len(b) /\ Reverse(r) = b
    BY ReversedTwice
  <2> HIDE DEF r
  <2>2. FromLittle(r) \in 0 .. Size[Len(r)] - 1 /\ LittleEndian(FromLittle(r), Len(r)) = r
    BY <2>1, WritesRead
  <2> QED BY <2>1, <2>2, Zenon DEF BigEndian, FromBig, r
<1> QED BY <1>1, <1>2

-----------------------------------------------------------------------------
(* Runs of blocks *)

\* The recursive function in the definition of FlattenSeq
FlatIter(ss) ==
    CHOOSE flatten : flatten =
        [i \in 1 .. Len(ss) |-> IF i = 1 THEN ss[i] ELSE flatten[i - 1] \o ss[i]]

\* FlattenSeq is the value of that function at the last block, if there is one.
LEMMA FlattenIsIter ==
    ASSUME NEW ss
    PROVE  FlattenSeq(ss) = IF Len(ss) = 0 THEN ss ELSE FlatIter(ss)[Len(ss)]
BY DEF FlattenSeq, FlatIter

\* F[k] is the run of the first k of the n blocks.
Accumulates(F, n, ss, S) ==
    /\ n >= 1 => F[1] = ss[1]
    /\ \A k \in 1 .. n : F[k] \in Seq(S)
    /\ \A k \in 1 .. n - 1 : F[k + 1] = F[k] \o ss[k + 1]

\* The function exists, and so it satisfies its equation.
LEMMA FlatStep ==
    ASSUME NEW S, NEW n \in Nat, NEW ss \in [1 .. n -> Seq(S)]
    PROVE  Len(ss) = n /\ Accumulates(FlatIter(ss), n, ss, S)
<1> DEFINE X == Seq(S)
           step == [i \in Nat |-> [v \in X |->
                       IF i = 0 /\ n >= 1 THEN ss[1]
                       ELSE IF i + 1 <= n THEN v \o ss[i + 1] ELSE v]]
<1>1. Len(ss) = n /\ DOMAIN ss = 1 .. n
  BY FunctionIsSeq
<1>2. step \in [Nat -> [X -> X]] /\ <<>> \in X
  <2>1. ASSUME NEW i \in Nat, NEW v \in X, i + 1 <= n PROVE v \o ss[i + 1] \in X
    <3>1. ss[i + 1] \in X
      BY <2>1
    <3> QED BY <3>1, Joined
  <2>2. n >= 1 => ss[1] \in X
    OBVIOUS
  <2> QED BY <2>1, <2>2
<1>3. PICK g \in [Nat -> X] : Steps(g, <<>>, step)
  <2> HIDE DEF X, step
  <2> QED BY <1>2, NatRecursion, Zenon
<1>4. \A i \in Nat : g[i] \in X /\ g[i + 1] = step[i][g[i]]
  <2> HIDE DEF step
  <2> QED BY <1>3 DEF Steps
<1>5. n >= 1 => g[1] = ss[1]
  <2>1. g[0 + 1] = step[0][g[0]] /\ g[0] \in X
    BY <1>4
  <2> QED BY <2>1
<1>6. ASSUME NEW k \in 1 .. n - 1 PROVE g[k + 1] = g[k] \o ss[k + 1]
  <2>1. k \in Nat /\ k # 0 /\ k + 1 <= n
    OBVIOUS
  <2> QED BY <1>4, <2>1
<1> HIDE DEF X, step
<1> DEFINE f == [i \in 1 .. n |-> g[i]]
<1>7. \A i \in 1 .. n : f[i] = IF i = 1 THEN ss[i] ELSE f[i - 1] \o ss[i]
  <2> TAKE i \in 1 .. n
  <2>1. CASE i = 1
    BY <1>5, <2>1
  <2>2. CASE i # 1
    <3>1. i - 1 \in 1 .. n - 1 /\ i - 1 \in 1 .. n /\ (i - 1) + 1 = i
      BY <2>2
    <3>2. g[(i - 1) + 1] = g[i - 1] \o ss[(i - 1) + 1]
      BY <1>6, <3>1
    <3> QED BY <2>2, <3>1, <3>2
  <2> QED BY <2>1, <2>2
<1> DEFINE Equation(h) == h = [i \in 1 .. Len(ss) |-> IF i = 1 THEN ss[i] ELSE h[i - 1] \o ss[i]]
<1>8. Equation(f)
  <2>1. f = [i \in 1 .. n |-> IF i = 1 THEN ss[i] ELSE f[i - 1] \o ss[i]]
    BY <1>7
  <2> QED BY <1>1, <2>1
<1>9. Equation(FlatIter(ss))
  <2> HIDE DEF f
  <2> QED BY <1>8, Zenon DEF FlatIter
<1>10. \A i \in 1 .. n : FlatIter(ss)[i] = IF i = 1 THEN ss[i] ELSE FlatIter(ss)[i - 1] \o ss[i]
  BY <1>1, <1>9, Zenon
<1> HIDE DEF f, Equation
<1>11. n >= 1 => FlatIter(ss)[1] = ss[1]
  <2> SUFFICES ASSUME n >= 1 PROVE FlatIter(ss)[1] = ss[1]
    OBVIOUS
  <2>1. 1 \in 1 .. n
    OBVIOUS
  <2> QED BY <1>10, <2>1, Zenon
<1>12. ASSUME NEW k \in 1 .. n - 1 PROVE FlatIter(ss)[k + 1] = FlatIter(ss)[k] \o ss[k + 1]
  <2>1. k + 1 \in 1 .. n /\ k + 1 # 1 /\ (k + 1) - 1 = k
    OBVIOUS
  <2>2. FlatIter(ss)[k + 1] = FlatIter(ss)[(k + 1) - 1] \o ss[k + 1]
    BY <1>10, <2>1, Zenon
  <2> QED BY <2>1, <2>2, Zenon
<1> DEFINE T == {k \in Nat : k + 1 <= n => FlatIter(ss)[k + 1] \in X}
<1>13. 0 \in T
  <2>1. n >= 1 => ss[1] \in X
    BY DEF X
  <2>2. 0 + 1 = 1
    OBVIOUS
  <2> QED BY <1>11, <2>1, <2>2
<1>14. ASSUME NEW k \in Nat, k \in T PROVE k + 1 \in T
  <2> SUFFICES ASSUME (k + 1) + 1 <= n PROVE FlatIter(ss)[(k + 1) + 1] \in X
    OBVIOUS
  <2>1. k + 1 \in 1 .. n - 1 /\ FlatIter(ss)[k + 1] \in X
    BY <1>14
  <2>2. ss[(k + 1) + 1] \in X
    BY DEF X
  <2>3. FlatIter(ss)[k + 1] \o ss[(k + 1) + 1] \in X
    BY <2>1, <2>2, Joined DEF X
  <2> QED BY <1>12, <2>1, <2>3
<1>15. \A k \in Nat : k \in T
  <2> HIDE DEF T
  <2> QED BY <1>13, <1>14, NatInductive
<1>16. \A k \in 1 .. n : FlatIter(ss)[k] \in X
  <2> TAKE k \in 1 .. n
  <2>1. k - 1 \in Nat /\ (k - 1) + 1 = k /\ (k - 1) + 1 <= n
    OBVIOUS
  <2>2. k - 1 \in T
    BY <1>15, <2>1
  <2> QED BY <2>1, <2>2
<1>17. Accumulates(FlatIter(ss), n, ss, S)
  BY <1>11, <1>12, <1>16 DEF X, Accumulates
<1> QED BY <1>1, <1>17

\* Concatenation is associative.
LEMMA JoinedThrice ==
    ASSUME NEW S, NEW s \in Seq(S), NEW t \in Seq(S), NEW u \in Seq(S)
    PROVE  (s \o t) \o u = s \o (t \o u)
<1> DEFINE x == (s \o t) \o u
           y == s \o (t \o u)
           l == Len(s)
           m == Len(t)
           n == Len(u)
<1>1. l \in Nat /\ m \in Nat /\ n \in Nat
  BY SeqIsFunction
<1>2. s \o t \in Seq(S) /\ Len(s \o t) = l + m /\ t \o u \in Seq(S) /\ Len(t \o u) = m + n
  BY Joined
<1>3. x \in Seq(S) /\ Len(x) = (l + m) + n /\ y \in Seq(S) /\ Len(y) = l + (m + n)
  BY <1>2, Joined
<1>4. ASSUME NEW i \in 1 .. (l + m) + n PROVE x[i] = y[i]
  <2>1. CASE i <= l
    <3>1. i \in 1 .. l /\ i \in 1 .. l + m
      BY <1>1, <2>1
    <3>2. x[i] = (s \o t)[i] /\ (s \o t)[i] = s[i] /\ y[i] = s[i]
      BY <1>2, <3>1, Joined
    <3> QED BY <3>2
  <2>2. CASE l < i /\ i <= l + m
    <3> DEFINE k == i - l
    <3>1. k \in 1 .. m /\ l + k = i /\ i \in 1 .. l + m /\ k \in 1 .. m + n
      BY <1>1, <2>2
    <3>2. x[i] = (s \o t)[i]
      BY <1>2, <3>1, Joined
    <3> HIDE DEF k
    <3>3. (s \o t)[l + k] = t[k] /\ y[l + k] = (t \o u)[k] /\ (t \o u)[k] = t[k]
      BY <1>2, <3>1, Joined
    <3> QED BY <3>1, <3>2, <3>3
  <2>3. CASE i > l + m
    <3> DEFINE k == i - (l + m)
    <3>1. k \in 1 .. n /\ (l + m) + k = i /\ l + (m + k) = i /\ m + k \in 1 .. m + n
      BY <1>1, <2>3
    <3> HIDE DEF k
    <3>2. x[(l + m) + k] = u[k]
      BY <1>2, <3>1, JoinedEnd
    <3>3. y[l + (m + k)] = (t \o u)[m + k]
      BY <1>2, <3>1, JoinedEnd
    <3>4. (t \o u)[m + k] = u[k]
      BY <3>1, JoinedEnd
    <3> QED BY <3>1, <3>2, <3>3, <3>4
  <2>4. i <= l \/ (l < i /\ i <= l + m) \/ i > l + m
    BY <1>1
  <2> QED BY <2>1, <2>2, <2>3, <2>4
<1> HIDE DEF x, y
<1>5. x = y
  <2>1. Len(x) = Len(y) /\ Len(x) = (l + m) + n
    BY <1>1, <1>3
  <2> QED BY <1>3, <1>4, <2>1, SameElements
<1> QED BY <1>5 DEF x, y

\* The empty sequence adds nothing.
LEMMA JoinedEmpty ==
    ASSUME NEW S, NEW s \in Seq(S)
    PROVE  <<>> \in Seq(S) /\ s \o <<>> = s
<1>1. <<>> \in Seq(S) /\ Len(<<>>) = 0
  OBVIOUS
<1>2. s \o <<>> \in Seq(S) /\ Len(s \o <<>>) = Len(s)
  BY <1>1, Joined
<1>3. \A i \in 1 .. Len(s) : (s \o <<>>)[i] = s[i]
  BY <1>1, Joined
<1> QED BY <1>1, <1>2, <1>3, SameElements

\* A beginning is a shorter one and what follows.
LEMMA LongerBeginning ==
    ASSUME NEW S, NEW b \in Seq(S), NEW p \in Nat, NEW q \in Nat, p <= q, q <= Len(b)
    PROVE  SubSeq(b, 1, q) = SubSeq(b, 1, p) \o SubSeq(b, p + 1, q)
<1> DEFINE c == SubSeq(b, 1, q)
<1>1. c \in Seq(S) /\ Len(c) = q /\ \A j \in 1 .. q : c[j] = b[j]
  BY Stretch
<1> HIDE DEF c
<1>2. c = SubSeq(c, 1, p) \o SubSeq(c, p + 1, q)
  BY <1>1, CutAt
<1>3. /\ SubSeq(c, 1, p) \in Seq(S) /\ Len(SubSeq(c, 1, p)) = p
      /\ \A j \in 1 .. p : SubSeq(c, 1, p)[j] = c[j]
  BY <1>1, Stretch
<1>4. /\ SubSeq(b, 1, p) \in Seq(S) /\ Len(SubSeq(b, 1, p)) = p
      /\ \A j \in 1 .. p : SubSeq(b, 1, p)[j] = b[j]
  BY Stretch
<1>5. /\ SubSeq(c, p + 1, q) \in Seq(S) /\ Len(SubSeq(c, p + 1, q)) = q - p
      /\ \A j \in 1 .. q - p : SubSeq(c, p + 1, q)[j] = c[p + j]
  BY <1>1, StretchAfter
<1>6. /\ SubSeq(b, p + 1, q) \in Seq(S) /\ Len(SubSeq(b, p + 1, q)) = q - p
      /\ \A j \in 1 .. q - p : SubSeq(b, p + 1, q)[j] = b[p + j]
  BY StretchAfter
<1>7. SubSeq(c, 1, p) = SubSeq(b, 1, p)
  <2>1. \A j \in 1 .. p : j \in 1 .. q
    OBVIOUS
  <2> QED BY <1>1, <1>3, <1>4, <2>1, SameElements
<1>8. SubSeq(c, p + 1, q) = SubSeq(b, p + 1, q)
  <2>1. \A j \in 1 .. q - p : p + j \in 1 .. q
    OBVIOUS
  <2>2. \A j \in 1 .. q - p : SubSeq(c, p + 1, q)[j] = SubSeq(b, p + 1, q)[j]
    BY <1>1, <1>5, <1>6, <2>1
  <2> QED BY <1>5, <1>6, <2>2, SameElements
<1> QED BY <1>2, <1>7, <1>8 DEF c

\* Two parts can be taken apart, if the first or the last have one length.
Two(x, y) == x \o y
LEMMA SplitTwo ==
    ASSUME NEW S, NEW x \in Seq(S), NEW y \in Seq(S), NEW f \in Seq(S), NEW g \in Seq(S),
           Len(x) = Len(f) \/ Len(y) = Len(g), Two(x, y) = Two(f, g)
    PROVE  x = f /\ y = g
<1>1. ASSUME Len(x) = Len(f) PROVE x = f /\ y = g
  BY <1>1, SplitJoined DEF Two
<1>2. CASE Len(y) = Len(g)
  <2>1. x \o y = f \o g
    BY Zenon DEF Two
  <2>2. Len(x) + Len(y) = Len(f) + Len(g) /\ Len(x) \in Nat /\ Len(f) \in Nat
    BY <2>1, Joined
  <2>3. Len(x) = Len(f)
    BY <1>2, <2>2
  <2> QED BY <1>1, <2>3
<1> QED BY <1>1, <1>2

\* Concatenation is associative.
LEMMA TwoTwice ==
    ASSUME NEW S, NEW x \in Seq(S), NEW y \in Seq(S), NEW z \in Seq(S)
    PROVE  /\ Two(x, y) \in Seq(S) /\ Len(Two(x, y)) = Len(x) + Len(y)
           /\ Two(Two(x, y), z) = Two(x, Two(y, z))
<1>1. (x \o y) \o z = x \o (y \o z)
  BY JoinedThrice
<1>2. x \o y \in Seq(S) /\ Len(x \o y) = Len(x) + Len(y)
  BY Joined
<1> QED BY <1>1, <1>2 DEF Two

\* What the blocks after the k-th add.
Begins(F, n, k, S) == \E u \in Seq(S) : F[n] = F[k] \o u
LEMMA FlatRest ==
    ASSUME NEW S, NEW n \in Nat, NEW ss \in [1 .. n -> Seq(S)], NEW k \in 1 .. n
    PROVE  Begins(FlatIter(ss), n, k, S)
<1> DEFINE F == FlatIter(ss)
           T == {m \in Nat : m < n => Begins(F, n, n - m, S)}
<1>0. Accumulates(F, n, ss, S)
  BY FlatStep
<1> HIDE DEF F
<1>1. /\ \A i \in 1 .. n : F[i] \in Seq(S)
      /\ \A i \in 1 .. n - 1 : F[i + 1] = F[i] \o ss[i + 1]
  BY <1>0 DEF Accumulates
<1>2. 0 \in T
  <2>1. n \in 1 .. n /\ n - 0 = n
    OBVIOUS
  <2>2. <<>> \in Seq(S) /\ F[n] \o <<>> = F[n]
    BY <1>1, <2>1, JoinedEmpty
  <2> QED BY <2>1, <2>2 DEF Begins
<1>3. ASSUME NEW m \in Nat, m \in T PROVE m + 1 \in T
  <2> DEFINE i == n - (m + 1)
  <2> SUFFICES ASSUME m + 1 < n PROVE Begins(F, n, i, S)
    OBVIOUS
  <2>1. PICK u \in Seq(S) : F[n] = F[n - m] \o u
    <3>1. Begins(F, n, n - m, S)
      BY <1>3
    <3> QED BY <3>1, Zenon DEF Begins
  <2>2. i \in 1 .. n - 1 /\ i \in 1 .. n /\ i + 1 = n - m /\ i + 1 \in 1 .. n
    OBVIOUS
  <2> HIDE DEF i
  <2> DEFINE f == F[i]
             x == ss[i + 1]
  <2>3. f \in Seq(S) /\ x \in Seq(S) /\ F[i + 1] = f \o x
    BY <1>1, <2>2
  <2>4. F[n] = (f \o x) \o u
    BY <2>1, <2>2, <2>3, Zenon
  <2> HIDE DEF x, f
  <2>5. (f \o x) \o u = f \o (x \o u) /\ x \o u \in Seq(S)
    <3>1. f \in Seq(S) /\ x \in Seq(S) /\ u \in Seq(S)
      BY <2>3
    <3>2. Two(Two(f, x), u) = Two(f, Two(x, u))
      BY <3>1, TwoTwice
    <3>3. x \o u \in Seq(S)
      BY <3>1
    <3> QED BY <3>2, <3>3, Zenon DEF Two
  <2>6. F[n] = f \o (x \o u) /\ x \o u \in Seq(S)
    BY <2>4, <2>5, Zenon
  <2> QED BY <2>6, Zenon DEF f, Begins
<1>4. \A m \in Nat : m \in T
  <2> HIDE DEF T
  <2> QED BY <1>2, <1>3, NatInductive
<1>5. n - k \in Nat /\ n - k < n /\ n - (n - k) = k
  OBVIOUS
<1>6. Begins(F, n, k, S)
  <2>1. n - k \in T
    BY <1>4, <1>5
  <2> QED BY <1>5, <2>1
<1> QED BY <1>6 DEF F

\* No member of E is the beginning of another one: what follows it can be told
\* from it.
PrefixFree(E, S) ==
    /\ E \subseteq Seq(S)
    /\ \A x, y \in E : \A u, v \in Seq(S) : x \o u = y \o v => x = y /\ u = v

\* Strings of one length are such a set.
LEMMA FixedPrefixFree ==
    ASSUME NEW S, NEW w, NEW E \in SUBSET Seq(S), \A x \in E : Len(x) = w
    PROVE  PrefixFree(E, S)
<1> SUFFICES ASSUME NEW x \in E, NEW y \in E, NEW u \in Seq(S), NEW v \in Seq(S),
                    x \o u = y \o v
             PROVE  x = y /\ u = v
  BY DEF PrefixFree
<1>1. x \in Seq(S) /\ y \in Seq(S) /\ Len(x) = Len(y)
  OBVIOUS
<1> QED BY <1>1, SplitJoined

\* The block that follows the same beginning is the same.
Alike(f, x, u, y, v) == (f \o x) \o u = (f \o y) \o v
LEMMA NextBlock ==
    ASSUME NEW S, NEW E, PrefixFree(E, S), NEW f \in Seq(S), NEW x \in E, NEW y \in E,
           NEW u \in Seq(S), NEW v \in Seq(S), Alike(f, x, u, y, v)
    PROVE  x = y
<1>0. x \in E /\ y \in E /\ x \in Seq(S) /\ y \in Seq(S)
  BY DEF PrefixFree
<1>1. Two(Two(f, x), u) = Two(f, Two(x, u)) /\ Two(Two(f, y), v) = Two(f, Two(y, v))
  BY <1>0, TwoTwice
<1>2. (f \o x) \o u = f \o (x \o u) /\ (f \o y) \o v = f \o (y \o v)
  BY <1>1, Zenon DEF Two
<1>3. x \o u \in Seq(S) /\ y \o v \in Seq(S)
  BY <1>0, Joined
<1>4. f \o (x \o u) = f \o (y \o v)
  BY <1>2, Zenon DEF Alike
<1> DEFINE m == x \o u
           n == y \o v
<1>5. m \in Seq(S) /\ n \in Seq(S) /\ f \o m = f \o n
  BY <1>3, <1>4
<1> HIDE DEF m, n
<1>6. m = n
  BY <1>5, SplitJoined
<1>7. x \o u = y \o v
  BY <1>6 DEF m, n
<1> QED BY <1>0, <1>7, Zenon DEF PrefixFree

\* A run of as many blocks, none of which is the beginning of another one, can
\* be taken apart.
LEMMA FlattenInjective ==
    ASSUME NEW S, NEW E, PrefixFree(E, S), NEW n \in Nat,
           NEW ss \in [1 .. n -> E], NEW tt \in [1 .. n -> E],
           FlattenSeq(ss) = FlattenSeq(tt)
    PROVE  ss = tt
<1>1. ss \in [1 .. n -> Seq(S)] /\ tt \in [1 .. n -> Seq(S)]
  BY DEF PrefixFree
<1>2. Len(ss) = n /\ Len(tt) = n
  BY <1>1, FlatStep
<1>3. CASE n = 0
  BY <1>2, <1>3, FlattenIsIter
<1>4. CASE n # 0
  <2> DEFINE F == FlatIter(ss)
             G == FlatIter(tt)
  <2>1. F[n] = G[n]
    BY <1>2, <1>4, FlattenIsIter
  <2>2. Accumulates(F, n, ss, S) /\ Accumulates(G, n, tt, S)
    BY <1>1, FlatStep
  <2>3. \A k \in 1 .. n : Begins(F, n, k, S)
    BY <1>1, FlatRest
  <2>4. \A k \in 1 .. n : Begins(G, n, k, S)
    BY <1>1, FlatRest
  <2> HIDE DEF F, G
  <2> DEFINE A == {k \in Nat : k + 1 <= n => F[k + 1] = G[k + 1] /\ ss[k + 1] = tt[k + 1]}
  <2>5. 0 \in A
    <3>1. 1 \in 1 .. n /\ 0 + 1 = 1
      BY <1>4
    <3>2. PICK u \in Seq(S) : F[n] = F[1] \o u
      BY <2>3, <3>1 DEF Begins
    <3>3. PICK v \in Seq(S) : G[n] = G[1] \o v
      BY <2>4, <3>1 DEF Begins
    <3>4. F[1] = ss[1] /\ G[1] = tt[1] /\ ss[1] \in E /\ tt[1] \in E
      BY <2>2, <3>1 DEF Accumulates
    <3>5. ss[1] \o u = tt[1] \o v
      BY <2>1, <3>2, <3>3, <3>4, Zenon
    <3>6. ss[1] = tt[1]
      <4> DEFINE x == ss[1]
                 y == tt[1]
      <4>1. x \in E /\ y \in E /\ x \o u = y \o v
        BY <3>4, <3>5
      <4> HIDE DEF x, y
      <4>2. x = y
        BY <4>1, Zenon DEF PrefixFree
      <4> QED BY <4>2 DEF x, y
    <3> QED BY <3>1, <3>4, <3>6
  <2>6. ASSUME NEW k \in Nat, k \in A PROVE k + 1 \in A
    <3> DEFINE i == k + 1
    <3> SUFFICES ASSUME i + 1 <= n PROVE F[i + 1] = G[i + 1] /\ ss[i + 1] = tt[i + 1]
      OBVIOUS
    <3>1. i \in 1 .. n - 1 /\ i \in 1 .. n /\ i + 1 \in 1 .. n /\ F[i] = G[i]
      BY <2>6
    <3> HIDE DEF i
    <3>2. PICK u \in Seq(S) : F[n] = F[i + 1] \o u
      BY <2>3, <3>1 DEF Begins
    <3>3. PICK v \in Seq(S) : G[n] = G[i + 1] \o v
      BY <2>4, <3>1 DEF Begins
    <3> DEFINE f == F[i]
               x == ss[i + 1]
               y == tt[i + 1]
    <3>4. F[i + 1] = f \o x /\ G[i + 1] = f \o y /\ f \in Seq(S)
      BY <2>2, <3>1 DEF Accumulates
    <3>5. x \in E /\ y \in E /\ x \in Seq(S) /\ y \in Seq(S)
      BY <1>1, <3>1
    <3>6. (f \o x) \o u = (f \o y) \o v
      BY <2>1, <3>2, <3>3, <3>4, Zenon
    <3> HIDE DEF f, x, y
    <3>9. f \in Seq(S) /\ Alike(f, x, u, y, v)
      BY <3>4, <3>6, Zenon DEF Alike
    <3>11. x = y
      BY <3>5, <3>9, NextBlock
    <3> QED BY <3>4, <3>11 DEF x, y
  <2>7. \A k \in Nat : k \in A
    <3> HIDE DEF A
    <3> QED BY <2>5, <2>6, NatInductive
  <2>8. \A k \in 1 .. n : ss[k] = tt[k]
    <3> TAKE k \in 1 .. n
    <3>1. k - 1 \in Nat /\ (k - 1) + 1 = k
      OBVIOUS
    <3>2. k - 1 \in A
      BY <2>7, <3>1
    <3> QED BY <3>1, <3>2
  <2> QED BY <2>8
<1> QED BY <1>3, <1>4

\* A run of blocks is a sequence, and w times as long as there are blocks if they
\* are all of length w.
LEMMA FlattenTyped ==
    ASSUME NEW S, NEW n \in Nat, NEW ss \in [1 .. n -> Seq(S)]
    PROVE  /\ FlattenSeq(ss) \in Seq(S)
           /\ \A w \in Nat : (\A k \in 1 .. n : Len(ss[k]) = w) => Len(FlattenSeq(ss)) = w * n
<1>1. Len(ss) = n
  BY FlatStep
<1>2. CASE n = 0
  <2>1. FlattenSeq(ss) = ss
    BY <1>1, <1>2, FlattenIsIter
  <2>2. ss \in [1 .. n -> S]
    BY <1>2
  <2>3. ss \in Seq(S) /\ Len(ss) = 0
    BY <1>2, <2>2, FunctionIsSeq
  <2>4. \A w \in Nat : w * n = 0
    BY <1>2
  <2> QED BY <2>1, <2>3, <2>4
<1>3. CASE n # 0
  <2> DEFINE F == FlatIter(ss)
  <2>1. FlattenSeq(ss) = F[n] /\ n \in 1 .. n
    BY <1>1, <1>3, FlattenIsIter
  <2>0. Accumulates(F, n, ss, S)
    BY FlatStep
  <2> HIDE DEF F
  <2>2. /\ F[1] = ss[1] /\ \A k \in 1 .. n : F[k] \in Seq(S)
        /\ \A k \in 1 .. n - 1 : F[k + 1] = F[k] \o ss[k + 1]
    <3>1. n >= 1
      BY <1>3
    <3> QED BY <2>0, <3>1, Zenon DEF Accumulates
  <2>3. ASSUME NEW w \in Nat, \A k \in 1 .. n : Len(ss[k]) = w
        PROVE  Len(F[n]) = w * n
    <3> DEFINE T == {m \in Nat : m + 1 <= n => Len(F[m + 1]) = w * (m + 1)}
    <3>1. 0 \in T
      <4>1. 1 \in 1 .. n /\ w * 1 = w /\ 0 + 1 = 1
        BY <1>3
      <4> QED BY <2>2, <2>3, <4>1
    <3>2. ASSUME NEW m \in Nat, m \in T PROVE m + 1 \in T
      <4> SUFFICES ASSUME (m + 1) + 1 <= n PROVE Len(F[(m + 1) + 1]) = w * ((m + 1) + 1)
        OBVIOUS
      <4>1. m + 1 \in 1 .. n - 1 /\ m + 1 \in 1 .. n /\ (m + 1) + 1 \in 1 .. n
        OBVIOUS
      <4>2. Len(F[m + 1]) = w * (m + 1) /\ Len(ss[(m + 1) + 1]) = w
        BY <2>3, <3>2, <4>1
      <4>3. F[(m + 1) + 1] = F[m + 1] \o ss[(m + 1) + 1] /\ F[m + 1] \in Seq(S)
            /\ ss[(m + 1) + 1] \in Seq(S)
        BY <2>2, <4>1
      <4>4. Len(F[(m + 1) + 1]) = w * (m + 1) + w
        <5>1. Len(F[m + 1] \o ss[(m + 1) + 1]) = Len(F[m + 1]) + Len(ss[(m + 1) + 1])
          <6> DEFINE x == F[m + 1]
                     y == ss[(m + 1) + 1]
          <6>1. x \in Seq(S) /\ y \in Seq(S)
            BY <4>3
          <6> HIDE DEF x, y
          <6>2. Len(x \o y) = Len(x) + Len(y)
            BY <6>1, Joined
          <6> QED BY <6>2 DEF x, y
        <5> QED BY <4>2, <4>3, <5>1, Zenon
      <4>5. w * ((m + 1) + 1) = w * (m + 1) + w
        OBVIOUS
      <4> QED BY <4>4, <4>5
    <3>3. \A m \in Nat : m \in T
      <4> HIDE DEF T
      <4> QED BY <3>1, <3>2, NatInductive
    <3>4. n - 1 \in Nat /\ (n - 1) + 1 = n
      BY <1>3
    <3>5. n - 1 \in T
      BY <3>3, <3>4
    <3> QED BY <3>4, <3>5
  <2> QED BY <2>1, <2>2, <2>3
<1> QED BY <1>2, <1>3

\* A string is the run of its blocks.
LEMMA FlattenBlocks ==
    ASSUME NEW S, NEW b \in Seq(S), NEW w \in Nat \ {0}, NEW n \in Nat, Len(b) = w * n
    PROVE  /\ [k \in 1 .. n |-> Block(b, w, k)] \in [1 .. n -> Seq(S)]
           /\ \A k \in 1 .. n : Len(Block(b, w, k)) = w
           /\ FlattenSeq([k \in 1 .. n |-> Block(b, w, k)]) = b
<1> DEFINE ss == [k \in 1 .. n |-> Block(b, w, k)]
<1>1. ASSUME NEW k \in 1 .. n
      PROVE  /\ w * (k - 1) \in Nat /\ w * k = w * (k - 1) + w /\ w * k <= Len(b)
             /\ Block(b, w, k) \in Seq(S) /\ Len(Block(b, w, k)) = w
  <2>1. w * (k - 1) \in Nat /\ w * k = w * (k - 1) + w
    OBVIOUS
  <2>2. w * k <= w * n
    OBVIOUS
  <2> DEFINE m == w * (k - 1)
  <2>3. m \in Nat /\ w * k = m + w /\ w * k <= Len(b)
    BY <2>1, <2>2
  <2> HIDE DEF m
  <2>4. SubSeq(b, m + 1, m + w) \in Seq(S) /\ Len(SubSeq(b, m + 1, m + w)) = w
    <3> DEFINE q == m + w
    <3>1. q \in Nat /\ q <= Len(b) /\ m <= q /\ q - m = w
      BY <2>3
    <3> HIDE DEF q
    <3>2. SubSeq(b, m + 1, q) \in Seq(S) /\ Len(SubSeq(b, m + 1, q)) = q - m
      BY <2>3, <3>1, StretchAfter
    <3> QED BY <3>1, <3>2 DEF q
  <2> QED BY <2>1, <2>3, <2>4 DEF Block, m
<1>2. ss \in [1 .. n -> Seq(S)] /\ \A k \in 1 .. n : ss[k] = Block(b, w, k)
  BY <1>1
<1> HIDE DEF ss
<1>3. FlattenSeq(ss) = b
  <2>1. Len(ss) = n
    BY <1>2, FlatStep
  <2>2. CASE n = 0
    <3>1. FlattenSeq(ss) = ss
      BY <2>1, <2>2, FlattenIsIter
    <3>2. ss \in [1 .. 0 -> S] /\ w * 0 = 0
      BY <1>2, <2>2
    <3>3. ss \in Seq(S) /\ Len(ss) = 0 /\ Len(b) = 0
      BY <2>2, <3>2, FunctionIsSeq
    <3>4. ss = b
      BY <3>3, SameElements
    <3> QED BY <3>1, <3>4
  <2>3. CASE n # 0
    <3> DEFINE F == FlatIter(ss)
               T == {m \in Nat : m + 1 <= n => F[m + 1] = SubSeq(b, 1, w * (m + 1))}
    <3>1. FlattenSeq(ss) = F[n]
      BY <2>1, <2>3, FlattenIsIter
    <3>0. Accumulates(F, n, ss, S)
      BY <1>2, FlatStep
    <3> HIDE DEF F
    <3>2. /\ F[1] = ss[1] /\ \A k \in 1 .. n : F[k] \in Seq(S)
          /\ \A k \in 1 .. n - 1 : F[k + 1] = F[k] \o ss[k + 1]
      <4>1. n >= 1
        BY <2>3
      <4> QED BY <3>0, <4>1, Zenon DEF Accumulates
    <3>3. 0 \in T
      <4>1. 1 \in 1 .. n /\ 0 + 1 = 1 /\ 1 - 1 = 0 /\ w * 0 = 0 /\ 0 + 1 = 1
        BY <2>3
      <4>2. ss[1] = SubSeq(b, w * (1 - 1) + 1, w * 1)
        BY <1>2, <4>1 DEF Block
      <4> QED BY <3>2, <4>1, <4>2
    <3>4. ASSUME NEW m \in Nat, m \in T PROVE m + 1 \in T
      <4> DEFINE i == m + 1
      <4> SUFFICES ASSUME i + 1 <= n PROVE F[i + 1] = SubSeq(b, 1, w * (i + 1))
        OBVIOUS
      <4>1. i \in 1 .. n - 1 /\ i + 1 \in 1 .. n /\ (i + 1) - 1 = i
            /\ F[i] = SubSeq(b, 1, w * i)
        BY <3>4
      <4> HIDE DEF i
      <4>2. F[i + 1] = SubSeq(b, 1, w * i) \o SubSeq(b, w * i + 1, w * (i + 1))
        BY <1>2, <3>2, <4>1 DEF Block
      <4>3. w * i \in Nat /\ w * (i + 1) = w * i + w /\ w * (i + 1) <= Len(b)
        <5>1. w * ((i + 1) - 1) \in Nat
              /\ w * (i + 1) = w * ((i + 1) - 1) + w /\ w * (i + 1) <= Len(b)
          BY <1>1, <4>1
        <5> QED BY <4>1, <5>1
      <4> DEFINE p == w * i
                 q == w * (i + 1)
      <4>4. p \in Nat /\ q \in Nat /\ p <= q /\ q <= Len(b)
        BY <4>3
      <4> HIDE DEF p, q
      <4>5. SubSeq(b, 1, q) = SubSeq(b, 1, p) \o SubSeq(b, p + 1, q)
        BY <4>4, LongerBeginning
      <4> QED BY <4>2, <4>5 DEF p, q
    <3>5. \A m \in Nat : m \in T
      <4> HIDE DEF T
      <4> QED BY <3>3, <3>4, NatInductive
    <3>6. n - 1 \in Nat /\ (n - 1) + 1 = n
      BY <2>3
    <3>7. n - 1 \in T
      BY <3>5, <3>6
    <3>8. F[n] = SubSeq(b, 1, Len(b))
      BY <3>6, <3>7
    <3>9. SubSeq(b, 1, Len(b)) = b
      <4>1. Len(b) \in Nat
        BY SeqIsFunction
      <4>2. /\ SubSeq(b, 1, Len(b)) \in Seq(S) /\ Len(SubSeq(b, 1, Len(b))) = Len(b)
            /\ \A i \in 1 .. Len(b) : SubSeq(b, 1, Len(b))[i] = b[i]
        BY <4>1, Stretch
      <4> QED BY <4>2, SameElements
    <3> QED BY <3>1, <3>8, <3>9
  <2> QED BY <2>2, <2>3
<1> QED BY <1>1, <1>2, <1>3 DEF ss

-----------------------------------------------------------------------------
(* Scalars and points *)

\* A scalar fills its width and is read as it was written.
LEMMA ScalarTyped ==
    ASSUME NEW v \in Field
    PROVE  /\ ScalarToBytes(v) \in Seq(Byte) /\ Len(ScalarToBytes(v)) = ScalarBytes
           /\ FromBig(ScalarToBytes(v)) = v
<1>1. ScalarBytes \in Nat /\ P <= Size[ScalarBytes] /\ P \in Nat
  BY EncodingAssumption, FieldAssumption
<1>2. v \in 0 .. Size[ScalarBytes] - 1
  BY <1>1, SizeStep DEF Field
<1> QED BY <1>1, <1>2, BigInverts DEF ScalarToBytes

\* from_canonical_bytes accepts what to_bytes writes, and nothing else: the bytes
\* of a number at or above the order are refused and not reduced.
THEOREM ScalarsDecode ==
    ASSUME NEW b \in Seq(Byte), Len(b) = ScalarBytes
    PROVE  Decodes(b, Field, ScalarToBytes, FromCanonicalBytes(b))
<1>1. BigEndian(FromBig(b), ScalarBytes) = b
  BY BigInverts
<1>2. \A v \in Field : ScalarToBytes(v) = b => v = FromBig(b)
  BY ScalarTyped, Zenon
<1>3. FromCanonicalBytes(b) = {v \in Field : ScalarToBytes(v) = b}
  <2>1. \A v : v \in FromCanonicalBytes(b) <=> (v = FromBig(b) /\ v \in Field)
    BY DEF FromCanonicalBytes
  <2>2. \A v : v = FromBig(b) => ScalarToBytes(v) = b
    BY <1>1, Zenon DEF ScalarToBytes
  <2> QED BY <1>2, <2>1, <2>2
<1>4. \A v, w \in FromCanonicalBytes(b) : v = w
  BY DEF FromCanonicalBytes
<1> QED BY <1>3, <1>4 DEF Decodes

\* The coordinates are below a positive odd number that fits their width.
LEMMA ModulusIsNat ==
    /\ Modulus \in Nat \ {0} /\ CoordinateBytes \in Nat \ {0}
    /\ \A v \in 0 .. Modulus - 1 : v \in 0 .. Size[CoordinateBytes] - 1
<1>1. Modulus \in Nat /\ Modulus % 2 = 1 /\ Modulus <= Size[CoordinateBytes]
  BY CurveAssumption
<1>2. CoordinateBytes \in Nat \ {0}
  BY EncodingAssumption
<1>3. Size[CoordinateBytes] \in Nat
  BY <1>2, SizeStep
<1> QED BY <1>1, <1>2, <1>3

\* A product of two numbers, that is a multiple of the modulus, is not one of two
\* numbers between 1 and the modulus.
LEMMA NotMultiple ==
    ASSUME NEW a \in 1 .. Modulus - 1, NEW c \in 1 .. Modulus - 1, NEW k \in Int
    PROVE  a * c # Modulus * k
<1> SUFFICES ASSUME a * c = Modulus * k PROVE FALSE
  OBVIOUS
<1>1. Modulus \in Nat \ {0}
  BY ModulusIsNat
<1>2. k \in Nat
  <2>1. a * c > 0
    BY <1>1
  <2>2. CASE k < 0
    <3>1. Modulus * k <= 0
      BY <1>1, <2>2
    <3> QED BY <2>1, <3>1
  <2> QED BY <2>2
<1>3. (Modulus * k + 0) % Modulus = 0
  BY <1>1, <1>2, QuotientUnique
<1>4. (a * c) % Modulus = 0
  <2>1. Modulus * k \in Int
    BY <1>1
  <2> QED BY <1>3, <2>1
<1> QED BY <1>4, CurveAssumption

\* Two numbers with the same square are equal or opposite.
LEMMA SquareRoots ==
    ASSUME NEW y \in 0 .. Modulus - 1, NEW z \in 0 .. Modulus - 1, z < y,
           (y * y) % Modulus = (z * z) % Modulus
    PROVE  y + z = Modulus
<1>1. Modulus \in Nat \ {0} /\ y * y \in Nat /\ z * z \in Nat
  BY ModulusIsNat
<1>2. PICK p \in Nat, q \in Nat, r \in Nat :
          y * y = Modulus * p + r /\ z * z = Modulus * q + r
  <2>0. \A w \in Nat : /\ w \div Modulus \in Nat /\ w % Modulus \in Nat
                       /\ w = Modulus * (w \div Modulus) + (w % Modulus)
    BY <1>1, Quotient
  <2>1. /\ (y * y) \div Modulus \in Nat /\ (y * y) % Modulus \in Nat
        /\ y * y = Modulus * ((y * y) \div Modulus) + ((y * y) % Modulus)
    BY <1>1, <2>0, Zenon
  <2>2. /\ (z * z) \div Modulus \in Nat
        /\ z * z = Modulus * ((z * z) \div Modulus) + ((z * z) % Modulus)
    BY <1>1, <2>0, Zenon
  <2> DEFINE p == (y * y) \div Modulus
             q == (z * z) \div Modulus
             r == (y * y) % Modulus
  <2>3. p \in Nat /\ q \in Nat /\ r \in Nat
        /\ y * y = Modulus * p + r /\ z * z = Modulus * q + r
    BY <2>1, <2>2
  <2> HIDE DEF p, q, r
  <2> QED BY <2>3
<1>3. (y - z) * (y + z) = Modulus * (p - q)
  <2>1. (y - z) * (y + z) = y * y - z * z
    OBVIOUS
  <2>2. Modulus * (p - q) = Modulus * p - Modulus * q
    BY <1>1
  <2>3. Modulus * p \in Int /\ Modulus * q \in Int
    BY <1>1
  <2> QED BY <1>1, <1>2, <2>1, <2>2, <2>3
<1>4. y - z \in 1 .. Modulus - 1
  BY <1>1
<1>5. CASE y + z < Modulus
  <2>1. y + z \in 1 .. Modulus - 1 /\ p - q \in Int
    BY <1>1, <1>5
  <2> QED BY <1>3, <1>4, <2>1, NotMultiple
<1>6. CASE y + z > Modulus
  <2> DEFINE s == (y + z) - Modulus
             k == (p - q) - (y - z)
  <2>1. s \in 1 .. Modulus - 1 /\ k \in Int
    BY <1>1, <1>6
  <2>2. (y - z) * s = Modulus * k
    <3>1. (y - z) * s = (y - z) * (y + z) - (y - z) * Modulus
      BY <1>1
    <3>2. Modulus * k = Modulus * (p - q) - Modulus * (y - z)
      BY <1>1
    <3>3. (y - z) * Modulus = Modulus * (y - z)
      BY <1>1
    <3> QED BY <1>3, <3>1, <3>2, <3>3
  <2> HIDE DEF s, k
  <2> QED BY <1>4, <2>1, <2>2, NotMultiple
<1> QED BY <1>1, <1>5, <1>6

\* The parity tells a coordinate from the other one with its square.
LEMMA SameRoot ==
    ASSUME NEW y \in 0 .. Modulus - 1, NEW z \in 0 .. Modulus - 1,
           (y * y) % Modulus = (z * z) % Modulus, y % 2 = z % 2
    PROVE  y = z
<1>1. Modulus % 2 = 1 /\ Modulus \in Nat
  BY CurveAssumption
<1>2. CASE z < y
  <2>1. y + z = Modulus
    BY <1>2, SquareRoots
  <2> QED BY <1>1, <2>1
<1>3. CASE y < z
  <2>1. z + y = Modulus
    BY <1>3, SquareRoots
  <2> QED BY <1>1, <2>1
<1> QED BY <1>2, <1>3

\* A point is the identity or a pair of coordinates on the curve.
LEMMA PointCases ==
    ASSUME NEW pt \in Point
    PROVE  \/ pt = Infinity
           \/ /\ pt # Infinity /\ OnCurve(pt)
              /\ pt.x \in 0 .. Modulus - 1 /\ pt.y \in 0 .. Modulus - 1
              /\ pt = [x |-> pt.x, y |-> pt.y]
<1>1. CASE pt \in {Infinity}
  BY <1>1
<1>2. CASE pt \in [x : 0 .. Modulus - 1, y : 0 .. Modulus - 1] /\ OnCurve(pt)
  <2>1. pt.x \in 0 .. Modulus - 1 /\ pt.y \in 0 .. Modulus - 1 /\ pt = [x |-> pt.x, y |-> pt.y]
    BY <1>2
  <2>2. Infinity.x = -1
    BY DEF Infinity
  <2>3. pt # Infinity
    BY <2>1, <2>2, ModulusIsNat
  <2> QED BY <1>2, <2>1, <2>3
<1>3. pt \in {Infinity} \/ (pt \in [x : 0 .. Modulus - 1, y : 0 .. Modulus - 1] /\ OnCurve(pt))
  BY Zenon DEF Point
<1> QED BY <1>1, <1>2, <1>3

\* A point other than the identity is written as the prefix 2 or 3 and its x.
LEMMA CompressTyped ==
    ASSUME NEW pt \in Point
    PROVE  /\ Compress(pt) \in Seq(Byte) /\ Len(Compress(pt)) = PointBytes
           /\ pt = Infinity => Compress(pt) = ZeroPoint
           /\ pt # Infinity =>
                /\ Compress(pt) = <<2 + (pt.y % 2)>> \o BigEndian(pt.x, CoordinateBytes)
                /\ <<2 + (pt.y % 2)>> \in Seq(Byte)
                /\ BigEndian(pt.x, CoordinateBytes) \in Seq(Byte)
                /\ Len(BigEndian(pt.x, CoordinateBytes)) = CoordinateBytes
                /\ FromBig(BigEndian(pt.x, CoordinateBytes)) = pt.x
                /\ Compress(pt)[1] = 2 + (pt.y % 2)
                /\ pt.y % 2 \in {0, 1}
<1>0. CoordinateBytes \in Nat /\ PointBytes = 1 + CoordinateBytes /\ PointBytes \in Nat
  BY EncodingAssumption DEF PointBytes
<1>1. CASE pt = Infinity
  <2>1. 0 \in Byte
    BY BytesAreNumbers
  <2>2. ZeroPoint \in [1 .. PointBytes -> Byte]
    BY <2>1 DEF ZeroPoint
  <2>3. ZeroPoint \in Seq(Byte) /\ Len(ZeroPoint) = PointBytes
    BY <1>0, <2>2, FunctionIsSeq
  <2>4. Compress(pt) = ZeroPoint
    BY <1>1 DEF Compress
  <2> QED BY <1>1, <2>3, <2>4
<1>2. CASE pt # Infinity
  <2>1. pt.x \in 0 .. Modulus - 1 /\ pt.y \in 0 .. Modulus - 1
    BY <1>2, PointCases
  <2>2. pt.x \in 0 .. Size[CoordinateBytes] - 1
    BY <2>1, ModulusIsNat
  <2> DEFINE h == <<2 + (pt.y % 2)>>
             t == BigEndian(pt.x, CoordinateBytes)
  <2>3. t \in Seq(Byte) /\ Len(t) = CoordinateBytes /\ FromBig(t) = pt.x
    BY <1>0, <2>2, BigInverts
  <2>4. pt.y % 2 \in {0, 1}
    BY <2>1
  <2>5. 2 + (pt.y % 2) \in Byte
    <3>1. Base > 5 /\ Base \in Nat
      BY EncodingAssumption
    <3> QED BY <2>4, <3>1 DEF Byte
  <2>6. h \in Seq(Byte) /\ Len(h) = 1 /\ h[1] = 2 + (pt.y % 2)
    BY <2>5
  <2>7. Compress(pt) = h \o t
    BY <1>2, Zenon DEF Compress
  <2> HIDE DEF h, t
  <2>8. h \o t \in Seq(Byte) /\ Len(h \o t) = 1 + CoordinateBytes /\ (h \o t)[1] = h[1]
    <3>1. 1 \in 1 .. Len(h) /\ h \in Seq(Byte) /\ t \in Seq(Byte)
      BY <2>3, <2>6
    <3>2. /\ h \o t \in Seq(Byte) /\ Len(h \o t) = Len(h) + Len(t)
          /\ \A i \in 1 .. Len(h) : (h \o t)[i] = h[i]
      BY <3>1, Joined
    <3> QED BY <2>3, <2>6, <3>1, <3>2
  <2>9. Compress(pt) \in Seq(Byte) /\ Len(Compress(pt)) = PointBytes /\ Compress(pt)[1] = h[1]
    BY <1>0, <2>7, <2>8
  <2> QED BY <1>2, <2>3, <2>4, <2>6, <2>7, <2>9 DEF h, t
<1> QED BY <1>1, <1>2

\* A string is its first byte and the others.
LEMMA HeadAndTail ==
    ASSUME NEW S, NEW b \in Seq(S), Len(b) > 0
    PROVE  /\ b[1] \in S /\ <<b[1]>> \in Seq(S) /\ Len(<<b[1]>>) = 1
           /\ Tail(b) \in Seq(S) /\ Len(Tail(b)) = Len(b) - 1
           /\ b = <<b[1]>> \o Tail(b)
<1> DEFINE h == <<b[1]>>
           t == Tail(b)
<1>1. b[1] \in S /\ h \in Seq(S) /\ Len(h) = 1 /\ h[1] = b[1]
  OBVIOUS
<1>2. t \in Seq(S) /\ Len(t) = Len(b) - 1 /\ \A i \in 1 .. Len(b) - 1 : t[i] = b[i + 1]
  OBVIOUS
<1>0. Len(b) \in Nat
  BY SeqIsFunction
<1> HIDE DEF h, t
<1>6. h \in Seq(S) /\ t \in Seq(S)
  BY <1>1, <1>2
<1>7. /\ h \o t \in Seq(S) /\ Len(h \o t) = Len(h) + Len(t)
      /\ \A i \in 1 .. Len(h) : (h \o t)[i] = h[i]
      /\ \A i \in 1 .. Len(t) : (h \o t)[Len(h) + i] = t[i]
  BY <1>6, Joined
<1>3. h \o t \in Seq(S) /\ Len(h \o t) = Len(b)
  BY <1>0, <1>1, <1>2, <1>7
<1>4. ASSUME NEW i \in 1 .. Len(b) PROVE b[i] = (h \o t)[i]
  <2>1. CASE i = 1
    BY <1>1, <1>7, <2>1
  <2>2. CASE i # 1
    <3> DEFINE k == i - 1
    <3>1. k \in 1 .. Len(t) /\ k \in 1 .. Len(b) - 1 /\ 1 + k = i /\ k + 1 = i
      BY <1>0, <1>2, <2>2
    <3> HIDE DEF k
    <3>2. (h \o t)[Len(h) + k] = t[k]
      BY <1>7, <3>1
    <3> QED BY <1>1, <1>2, <3>1, <3>2
  <2> QED BY <2>1, <2>2
<1>5. b = h \o t
  BY <1>3, <1>4, SameElements
<1> QED BY <1>1, <1>2, <1>5 DEF h, t

\* The decoder without the compact tag
Strict(b) ==
    IF Len(b) # PointBytes THEN {}
    ELSE IF Zeros(b) THEN {Infinity}
    ELSE {pt \in Point \ {Infinity} :
            b[1] \in {2, 3} /\ pt.x = FromBig(Tail(b)) /\ pt.y % 2 = b[1] - 2}

\* It accepts the bytes of a point and nothing else, and gives that point: x is
\* read as it was written, and of the two square roots the parity picks the one
\* that was meant.
LEMMA StrictDecodes ==
    ASSUME NEW b \in Seq(Byte)
    PROVE  Decodes(b, Point, Compress, Strict(b))
<1>0. CoordinateBytes \in Nat /\ PointBytes = 1 + CoordinateBytes /\ PointBytes \in Nat
  BY EncodingAssumption DEF PointBytes
<1>1. \A pt \in Point : Compress(pt) \in Seq(Byte) /\ Len(Compress(pt)) = PointBytes
  BY CompressTyped
<1>2. CASE Len(b) # PointBytes
  <2>1. Strict(b) = {}
    BY <1>2 DEF Strict
  <2> QED BY <1>1, <1>2, <2>1 DEF Decodes
<1>3. CASE Len(b) = PointBytes /\ Zeros(b)
  <2>1. Strict(b) = {Infinity}
    BY <1>3 DEF Strict
  <2>2. ZeroPoint = b
    <3>1. DOMAIN b = 1 .. PointBytes /\ \A n \in 1 .. PointBytes : b[n] = 0
      BY <1>3, SeqIsFunction DEF Zeros
    <3>2. b = [n \in 1 .. PointBytes |-> b[n]]
      BY <1>3, <3>1, SeqIsFunction
    <3> QED BY <3>1, <3>2 DEF ZeroPoint
  <2>3. Infinity \in Point
    BY DEF Point
  <2>4. Compress(Infinity) = b
    BY <2>2 DEF Compress
  <2>5. ASSUME NEW pt \in Point, Compress(pt) = b PROVE pt = Infinity
    <3> SUFFICES ASSUME pt # Infinity PROVE FALSE
      OBVIOUS
    <3>1. b[1] = 2 + (pt.y % 2) /\ pt.y % 2 \in {0, 1}
      BY <2>5, CompressTyped
    <3>2. 1 \in DOMAIN b
      BY <1>0, <1>3, SeqIsFunction
    <3> QED BY <1>3, <3>1, <3>2 DEF Zeros
  <2> QED BY <2>1, <2>3, <2>4, <2>5 DEF Decodes
<1>4. CASE Len(b) = PointBytes /\ ~Zeros(b)
  <2> DEFINE D == {pt \in Point \ {Infinity} :
                     b[1] \in {2, 3} /\ pt.x = FromBig(Tail(b)) /\ pt.y % 2 = b[1] - 2}
  <2>1. Strict(b) = D
    BY <1>4 DEF Strict
  <2>2. Len(b) > 0
    BY <1>0, <1>4
  <2>3. /\ <<b[1]>> \in Seq(Byte) /\ Len(<<b[1]>>) = 1 /\ b[1] \in Nat
        /\ Tail(b) \in Seq(Byte) /\ Len(Tail(b)) = CoordinateBytes
        /\ b = <<b[1]>> \o Tail(b)
    BY <1>0, <1>4, <2>2, HeadAndTail, BytesAreNumbers
  <2>4. BigEndian(FromBig(Tail(b)), CoordinateBytes) = Tail(b)
    BY <2>3, BigInverts
  <2>5. ASSUME NEW pt \in D PROVE pt \in Point /\ Compress(pt) = b
    <3>1. pt \in Point /\ pt # Infinity /\ b[1] \in {2, 3} /\ pt.x = FromBig(Tail(b))
          /\ pt.y % 2 = b[1] - 2
      OBVIOUS
    <3>2. Compress(pt) = <<2 + (pt.y % 2)>> \o BigEndian(pt.x, CoordinateBytes)
      BY <3>1, CompressTyped
    <3>3. 2 + (pt.y % 2) = b[1]
      BY <2>3, <3>1
    <3> QED BY <2>3, <2>4, <3>1, <3>2, <3>3, Zenon
  <2>6. ASSUME NEW pt \in Point, Compress(pt) = b PROVE pt \in D
    <3>1. pt # Infinity
      <4> SUFFICES ASSUME pt = Infinity PROVE FALSE
        OBVIOUS
      <4>1. b = ZeroPoint
        BY <2>6, CompressTyped
      <4> QED BY <1>4, <4>1 DEF ZeroPoint, Zeros
    <3> DEFINE h == <<2 + (pt.y % 2)>>
               t == BigEndian(pt.x, CoordinateBytes)
    <3>2. /\ b = h \o t /\ h \in Seq(Byte) /\ t \in Seq(Byte) /\ FromBig(t) = pt.x
          /\ b[1] = 2 + (pt.y % 2) /\ pt.y % 2 \in {0, 1} /\ Len(t) = CoordinateBytes
      BY <2>6, <3>1, CompressTyped
    <3> HIDE DEF h, t
    <3>3. t = Tail(b)
      <4> DEFINE g == <<b[1]>>
                 s == Tail(b)
      <4>1. /\ g \in Seq(Byte) /\ s \in Seq(Byte) /\ Len(t) = Len(s) /\ Two(h, t) = Two(g, s)
            /\ h \in Seq(Byte) /\ t \in Seq(Byte)
        BY <2>3, <3>2 DEF Two
      <4> HIDE DEF g, s
      <4>2. t = s
        BY <4>1, SplitTwo
      <4> QED BY <4>2 DEF s
    <3>4. b[1] \in {2, 3} /\ pt.y % 2 = b[1] - 2
      BY <3>2
    <3> QED BY <3>1, <3>2, <3>3, <3>4
  <2>7. ASSUME NEW pt \in D, NEW qt \in D PROVE pt = qt
    <3>1. pt \in Point /\ pt # Infinity /\ qt \in Point /\ qt # Infinity
          /\ pt.x = qt.x /\ pt.y % 2 = qt.y % 2
      OBVIOUS
    <3>2. /\ pt.y \in 0 .. Modulus - 1 /\ pt = [x |-> pt.x, y |-> pt.y] /\ OnCurve(pt)
          /\ qt.y \in 0 .. Modulus - 1 /\ qt = [x |-> qt.x, y |-> qt.y] /\ OnCurve(qt)
      BY <3>1, PointCases
    <3>3. (pt.y * pt.y) % Modulus = (qt.y * qt.y) % Modulus
      BY <3>1, <3>2, Zenon DEF OnCurve
    <3>4. pt.y = qt.y
      BY <3>1, <3>2, <3>3, SameRoot
    <3> QED BY <3>1, <3>2, <3>4, Zenon
  <2>8. D = {pt \in Point : Compress(pt) = b}
    <3> HIDE DEF D
    <3>1. \A pt : pt \in D <=> (pt \in Point /\ Compress(pt) = b)
      BY <2>5, <2>6, Zenon
    <3> QED BY <3>1
  <2> HIDE DEF D
  <2> QED BY <2>1, <2>7, <2>8 DEF Decodes
<1> QED BY <1>2, <1>3, <1>4

\* A string with the even tag in place of the compact one is as long, and is the
\* same where no point begins.
LEMMA UncompactedTyped ==
    ASSUME NEW b \in Seq(Byte), NEW before \in Nat
    PROVE  /\ Uncompacted(b, before) \in Seq(Byte) /\ Len(Uncompacted(b, before)) = Len(b)
           /\ \A n \in 1 .. Len(b) : Uncompacted(b, before)[n] =
                IF n > before /\ (n - before - 1) % PointBytes = 0 /\ b[n] = 5 THEN 2 ELSE b[n]
<1> DEFINE u == Uncompacted(b, before)
<1>1. DOMAIN b = 1 .. Len(b) /\ Len(b) \in Nat /\ \A n \in 1 .. Len(b) : b[n] \in Byte
  BY SeqIsFunction
<1>2. 2 \in Byte
  BY EncodingAssumption DEF Byte
<1>3. u = [n \in 1 .. Len(b) |->
            IF n > before /\ (n - before - 1) % PointBytes = 0 /\ b[n] = 5 THEN 2 ELSE b[n]]
  BY <1>1, Zenon DEF Uncompacted
<1>4. u \in [1 .. Len(b) -> Byte]
  BY <1>1, <1>2, <1>3
<1>5. u \in Seq(Byte) /\ Len(u) = Len(b)
  BY <1>1, <1>4, FunctionIsSeq
<1> HIDE DEF u
<1> QED BY <1>3, <1>5 DEF u

\* In the bytes of one point only the first is a tag.
LEMMA UncompactedPoint ==
    ASSUME NEW b \in Seq(Byte), Len(b) = PointBytes
    PROVE  /\ Uncompacted(b, 0)[1] = IF b[1] = 5 THEN 2 ELSE b[1]
           /\ Tail(Uncompacted(b, 0)) = Tail(b)
<1> DEFINE u == Uncompacted(b, 0)
<1>1. CoordinateBytes \in Nat /\ PointBytes = 1 + CoordinateBytes /\ PointBytes \in Nat \ {0}
  BY EncodingAssumption DEF PointBytes
<1>2. /\ u \in Seq(Byte) /\ Len(u) = PointBytes
      /\ \A n \in 1 .. PointBytes :
            u[n] = IF n > 0 /\ (n - 0 - 1) % PointBytes = 0 /\ b[n] = 5 THEN 2 ELSE b[n]
  BY UncompactedTyped
<1>3. \A n \in 1 .. PointBytes : (n - 0 - 1) % PointBytes = n - 1
  <2> TAKE n \in 1 .. PointBytes
  <2>1. n - 1 \in 0 .. PointBytes - 1 /\ n - 0 - 1 = PointBytes * 0 + (n - 1)
    BY <1>1
  <2>2. (PointBytes * 0 + (n - 1)) % PointBytes = n - 1
    BY <1>1, <2>1, QuotientUnique
  <2> QED BY <2>1, <2>2
<1> HIDE DEF u
<1>4. u[1] = IF b[1] = 5 THEN 2 ELSE b[1]
  <2>1. 1 \in 1 .. PointBytes /\ (1 - 0 - 1) % PointBytes = 0
    BY <1>1, <1>3
  <2> QED BY <1>2, <2>1
<1>5. \A n \in 2 .. PointBytes : u[n] = b[n]
  <2> TAKE n \in 2 .. PointBytes
  <2>1. n \in 1 .. PointBytes /\ (n - 0 - 1) % PointBytes # 0
    BY <1>1, <1>3
  <2> QED BY <1>2, <2>1
<1>6. Tail(u) = Tail(b)
  <2>1. /\ Tail(u) \in Seq(Byte) /\ Len(Tail(u)) = CoordinateBytes
        /\ \A i \in 1 .. CoordinateBytes : Tail(u)[i] = u[i + 1]
    BY <1>1, <1>2
  <2>2. /\ Tail(b) \in Seq(Byte) /\ Len(Tail(b)) = CoordinateBytes
        /\ \A i \in 1 .. CoordinateBytes : Tail(b)[i] = b[i + 1]
    BY <1>1
  <2>3. \A i \in 1 .. CoordinateBytes : Tail(u)[i] = Tail(b)[i]
    BY <1>1, <1>5, <2>1, <2>2
  <2> QED BY <2>1, <2>2, <2>3, SameElements
<1> QED BY <1>4, <1>6 DEF u

\* The compact tag is read as the even one, and the others as they are.
LEMMA CompactIsEven ==
    ASSUME NEW b \in Seq(Byte)
    PROVE  /\ Decompress(b) = Strict(Uncompacted(b, 0))
           /\ Strict(b) \subseteq Decompress(b)
<1> DEFINE u == Uncompacted(b, 0)
<1>1. PointBytes \in Nat \ {0}
  BY EncodingAssumption DEF PointBytes
<1>2. u \in Seq(Byte) /\ Len(u) = Len(b)
  BY UncompactedTyped
<1>3. CASE Len(b) # PointBytes
  BY <1>2, <1>3 DEF Decompress, Strict
<1>4. CASE Len(b) = PointBytes
  <2>1. (u[1] = IF b[1] = 5 THEN 2 ELSE b[1]) /\ Tail(u) = Tail(b)
    BY <1>4, UncompactedPoint
  <2>2. Zeros(u) <=> Zeros(b)
    <3>1. DOMAIN u = 1 .. PointBytes /\ DOMAIN b = 1 .. PointBytes
      BY <1>2, <1>4, SeqIsFunction
    <3>2. \A n \in 1 .. PointBytes : u[n] =
            IF n > 0 /\ (n - 0 - 1) % PointBytes = 0 /\ b[n] = 5 THEN 2 ELSE b[n]
      BY <1>4, UncompactedTyped
    <3> HIDE DEF u
    <3> QED BY <3>1, <3>2 DEF Zeros
  <2>3. b[1] \in Nat
    <3>1. Len(b) > 0
      BY <1>1, <1>4
    <3> QED BY <3>1, HeadAndTail, BytesAreNumbers
  <2> HIDE DEF u
  <2>4. CASE Zeros(b)
    <3>1. Decompress(b) = {Infinity} /\ Strict(b) = {Infinity} /\ Strict(u) = {Infinity}
      BY <1>2, <1>4, <2>2, <2>4 DEF Decompress, Strict
    <3> QED BY <3>1 DEF u
  <2>5. CASE ~Zeros(b)
    <3> DEFINE x == FromBig(Tail(b))
    <3>1. Decompress(b) = {pt \in Point \ {Infinity} :
              b[1] \in {2, 3, 5} /\ pt.x = x /\ pt.y % 2 = Parity(b[1])}
      BY <1>4, <2>5 DEF Decompress
    <3>2. Strict(b) = {pt \in Point \ {Infinity} :
              b[1] \in {2, 3} /\ pt.x = x /\ pt.y % 2 = b[1] - 2}
      BY <1>4, <2>5 DEF Strict
    <3>3. Strict(u) = {pt \in Point \ {Infinity} :
              u[1] \in {2, 3} /\ pt.x = x /\ pt.y % 2 = u[1] - 2}
      BY <1>2, <1>4, <2>1, <2>2, <2>5 DEF Strict
    <3> HIDE DEF x
    <3>4. b[1] \in {2, 3} => Parity(b[1]) = b[1] - 2
      BY DEF Parity
    <3>5. b[1] = 5 => Parity(b[1]) = 0 /\ u[1] = 2
      BY <2>1 DEF Parity
    <3>6. b[1] # 5 => u[1] = b[1]
      BY <2>1
    <3>7. Strict(b) \subseteq Decompress(b)
      BY <3>1, <3>2, <3>4
    <3>8. Decompress(b) = Strict(u)
      <4>1. CASE b[1] = 5
        BY <3>1, <3>3, <3>5, <4>1
      <4>2. CASE b[1] \in {2, 3}
        BY <3>1, <3>3, <3>4, <3>6, <4>2
      <4>3. CASE b[1] \notin {2, 3, 5}
        BY <3>1, <3>3, <3>6, <4>3
      <4> QED BY <4>1, <4>2, <4>3
    <3> QED BY <3>7, <3>8 DEF u
  <2> QED BY <2>4, <2>5
<1> QED BY <1>3, <1>4

\* decompress reads the bytes of a point as that point: x is read as it was
\* written, and of the two square roots the parity picks the one that was meant.
\* What else it reads is the bytes of an even point under the compact tag.
THEOREM PointsDecode ==
    ASSUME NEW b \in Seq(Byte)
    PROVE  DecodesPoints(b, 0, Point, Compress, Decompress(b))
<1> DEFINE u == Uncompacted(b, 0)
<1>1. u \in Seq(Byte)
  BY UncompactedTyped
<1>2. Decompress(b) = Strict(u) /\ Strict(b) \subseteq Decompress(b)
  BY CompactIsEven
<1> HIDE DEF u
<1>3. Strict(u) = {pt \in Point : Compress(pt) = u} /\ \A p, q \in Strict(u) : p = q
  BY <1>1, StrictDecodes DEF Decodes
<1>4. Strict(b) = {pt \in Point : Compress(pt) = b}
  BY StrictDecodes DEF Decodes
<1>5. Decodes(u, Point, Compress, Decompress(b))
  BY <1>2, <1>3 DEF Decodes
<1>6. \A pt \in Point : Compress(pt) = b => Decompress(b) = {pt}
  BY <1>2, <1>3, <1>4
<1> QED BY <1>5, <1>6 DEF DecodesPoints, u

-----------------------------------------------------------------------------
(* What is sent and stored *)

\* A u32, and a u64, fills its width and is read as it was written.
LEMMA WordTyped ==
    /\ \A v \in U32 : /\ LittleEndian(v, Word) \in Seq(Byte) /\ Len(LittleEndian(v, Word)) = Word
                      /\ FromLittle(LittleEndian(v, Word)) = v
    /\ \A b \in Seq(Byte) :
            Len(b) = Word => FromLittle(b) \in U32 /\ LittleEndian(FromLittle(b), Word) = b
    /\ \A v \in U64 : /\ LittleEndian(v, Long) \in Seq(Byte) /\ Len(LittleEndian(v, Long)) = Long
                      /\ FromLittle(LittleEndian(v, Long)) = v
<1>1. Word \in Nat /\ Long \in Nat
  BY EncodingAssumption
<1>2. Size[Word] \in Nat /\ Size[Long] \in Nat
  BY <1>1, SizeStep
<1>3. ASSUME NEW w \in Nat, NEW v \in 0 .. Size[w] - 1
      PROVE  /\ LittleEndian(v, w) \in Seq(Byte) /\ Len(LittleEndian(v, w)) = w
             /\ FromLittle(LittleEndian(v, w)) = v
  <2>1. v \in Nat
    BY SizeStep
  <2> QED BY <2>1, LittleTyped, ReadsWritten
<1>4. \A b \in Seq(Byte) :
          Len(b) = Word => FromLittle(b) \in U32 /\ LittleEndian(FromLittle(b), Word) = b
  BY WritesRead DEF U32
<1> QED BY <1>1, <1>3, <1>4 DEF U32, U64

\* A string of three parts is the three of them.
LEMMA CutTwice ==
    ASSUME NEW S, NEW b \in Seq(S), NEW p \in Nat, NEW q \in Nat, NEW r \in Nat,
           p <= q, q <= r, Len(b) = r
    PROVE  /\ SubSeq(b, 1, p) \in Seq(S) /\ Len(SubSeq(b, 1, p)) = p
           /\ SubSeq(b, p + 1, q) \in Seq(S) /\ Len(SubSeq(b, p + 1, q)) = q - p
           /\ SubSeq(b, q + 1, r) \in Seq(S) /\ Len(SubSeq(b, q + 1, r)) = r - q
           /\ b = (SubSeq(b, 1, p) \o SubSeq(b, p + 1, q)) \o SubSeq(b, q + 1, r)
<1>1. b = SubSeq(b, 1, q) \o SubSeq(b, q + 1, r)
  BY CutAt
<1>2. SubSeq(b, 1, q) = SubSeq(b, 1, p) \o SubSeq(b, p + 1, q)
  BY LongerBeginning
<1>3. SubSeq(b, 1, p) \in Seq(S) /\ Len(SubSeq(b, 1, p)) = p
  BY Stretch
<1>4. SubSeq(b, p + 1, q) \in Seq(S) /\ Len(SubSeq(b, p + 1, q)) = q - p
  BY StretchAfter
<1>5. SubSeq(b, q + 1, r) \in Seq(S) /\ Len(SubSeq(b, q + 1, r)) = r - q
  BY StretchAfter
<1> QED BY <1>1, <1>2, <1>3, <1>4, <1>5, Zenon

\* A string of n bytes, and two strings of one length.
Sized(s, n)   == s \in Seq(Byte) /\ Len(s) = n
Aligned(s, t) == s \in Seq(Byte) /\ t \in Seq(Byte) /\ Len(s) = Len(t)

LEMMA SizedJoin ==
    ASSUME NEW s, NEW m, NEW t, NEW n, Sized(s, m), Sized(t, n)
    PROVE  Sized(Two(s, t), m + n)
<1>1. s \in Seq(Byte) /\ t \in Seq(Byte) /\ Len(s) = m /\ Len(t) = n
  BY DEF Sized
<1>2. Two(s, t) \in Seq(Byte) /\ Len(Two(s, t)) = Len(s) + Len(t)
  BY <1>1, TwoTwice
<1> QED BY <1>1, <1>2 DEF Sized

\* Strings of one length stay so, and what is put together of them can be taken
\* apart.
LEMMA AlignedJoin ==
    ASSUME NEW s, NEW t, NEW x, NEW y, Aligned(s, t), Aligned(x, y)
    PROVE  Aligned(Two(s, x), Two(t, y))
<1>1. s \in Seq(Byte) /\ t \in Seq(Byte) /\ Len(s) = Len(t)
  BY DEF Aligned
<1>2. x \in Seq(Byte) /\ y \in Seq(Byte) /\ Len(x) = Len(y)
  BY DEF Aligned
<1>3. Two(s, x) \in Seq(Byte) /\ Len(Two(s, x)) = Len(s) + Len(x)
  BY <1>1, <1>2, TwoTwice
<1>4. Two(t, y) \in Seq(Byte) /\ Len(Two(t, y)) = Len(t) + Len(y)
  BY <1>1, <1>2, TwoTwice
<1> QED BY <1>1, <1>2, <1>3, <1>4 DEF Aligned

LEMMA AlignedSplit ==
    ASSUME NEW s, NEW t, NEW x \in Seq(Byte), NEW y \in Seq(Byte), Aligned(s, t),
           Two(s, x) = Two(t, y)
    PROVE  s = t /\ x = y
<1>1. s \in Seq(Byte) /\ t \in Seq(Byte) /\ Len(s) = Len(t)
  BY DEF Aligned
<1> QED BY <1>1, SplitTwo

\* The bytes of a sub-share are those of its three fields.
LEMMA SubShareTyped ==
    ASSUME NEW s \in SubShares
    PROVE  /\ LittleEndian(s.dealer, Word) \in Seq(Byte) /\ Len(LittleEndian(s.dealer, Word)) = Word
           /\ LittleEndian(s.player, Word) \in Seq(Byte) /\ Len(LittleEndian(s.player, Word)) = Word
           /\ ScalarToBytes(s.value) \in Seq(Byte) /\ Len(ScalarToBytes(s.value)) = ScalarBytes
           /\ FromLittle(LittleEndian(s.dealer, Word)) = s.dealer
           /\ FromLittle(LittleEndian(s.player, Word)) = s.player
           /\ SubShareBytes(s) \in Seq(Byte) /\ Len(SubShareBytes(s)) = SubShareWidth
           /\ s.dealer # 0 /\ s.player # 0 /\ s.dealer \in U32 /\ s.player \in U32
           /\ s.value \in Field
           /\ s = [dealer |-> s.dealer, player |-> s.player, value |-> s.value]
<1>1. /\ s.dealer \in U32 /\ s.player \in U32 /\ s.value \in Field
      /\ s.dealer # 0 /\ s.player # 0
      /\ s = [dealer |-> s.dealer, player |-> s.player, value |-> s.value]
  BY DEF SubShares
<1> DEFINE x == LittleEndian(s.dealer, Word)
           y == LittleEndian(s.player, Word)
           z == ScalarToBytes(s.value)
<1>2. /\ x \in Seq(Byte) /\ Len(x) = Word /\ FromLittle(x) = s.dealer
      /\ y \in Seq(Byte) /\ Len(y) = Word /\ FromLittle(y) = s.player
      /\ z \in Seq(Byte) /\ Len(z) = ScalarBytes
  BY <1>1, WordTyped, ScalarTyped
<1>3. SubShareBytes(s) = (x \o y) \o z
  BY DEF SubShareBytes
<1>4. Word \in Nat /\ ScalarBytes \in Nat
  BY EncodingAssumption
<1> HIDE DEF x, y, z
<1>5. x \o y \in Seq(Byte) /\ Len(x \o y) = Word + Word
  <2>1. x \in Seq(Byte) /\ y \in Seq(Byte) /\ Len(x) = Word /\ Len(y) = Word
    BY <1>2
  <2>2. x \o y \in Seq(Byte) /\ Len(x \o y) = Len(x) + Len(y)
    BY <2>1
  <2> QED BY <2>1, <2>2
<1>6. (x \o y) \o z \in Seq(Byte) /\ Len((x \o y) \o z) = (Word + Word) + ScalarBytes
  <2> DEFINE t == x \o y
  <2>1. t \in Seq(Byte) /\ Len(t) = Word + Word
    BY <1>5
  <2> HIDE DEF t
  <2>2. t \o z \in Seq(Byte) /\ Len(t \o z) = Len(t) + Len(z)
    BY <1>2, <2>1, Joined
  <2>3. t \o z \in Seq(Byte) /\ Len(t \o z) = (Word + Word) + ScalarBytes
    BY <1>2, <2>1, <2>2
  <2> QED BY <2>3 DEF t
<1>7. SubShareBytes(s) \in Seq(Byte) /\ Len(SubShareBytes(s)) = SubShareWidth
  <2>1. SubShareWidth = (Word + Word) + ScalarBytes
    BY <1>4 DEF SubShareWidth
  <2> QED BY <1>3, <1>6, <2>1
<1> QED BY <1>1, <1>2, <1>7 DEF x, y, z

\* decode_plaintext undoes encode_plaintext, and accepts nothing else of its
\* length: a dealer or player 0 and a value above the order are refused.
THEOREM SubSharesDecode ==
    ASSUME NEW b \in Seq(Byte), Len(b) = SubShareWidth
    PROVE  Decodes(b, SubShares, SubShareBytes, SubShareOf(b))
<1> DEFINE f == SubSeq(b, 1, Word)
           g == SubSeq(b, Word + 1, 2 * Word)
           h == SubSeq(b, 2 * Word + 1, SubShareWidth)
<1>1. Word \in Nat /\ ScalarBytes \in Nat /\ SubShareWidth = 2 * Word + ScalarBytes
  BY EncodingAssumption DEF SubShareWidth
<1>2. /\ f \in Seq(Byte) /\ Len(f) = Word /\ g \in Seq(Byte) /\ Len(g) = Word
      /\ h \in Seq(Byte) /\ Len(h) = ScalarBytes /\ b = (f \o g) \o h
  <2> DEFINE q == 2 * Word
             r == SubShareWidth
  <2>1. q \in Nat /\ r \in Nat /\ Word \in Nat /\ Word <= q /\ q <= r /\ Len(b) = r
        /\ q - Word = Word /\ r - q = ScalarBytes
    BY <1>1
  <2> HIDE DEF q, r
  <2>2. /\ SubSeq(b, 1, Word) \in Seq(Byte) /\ Len(SubSeq(b, 1, Word)) = Word
        /\ SubSeq(b, Word + 1, q) \in Seq(Byte) /\ Len(SubSeq(b, Word + 1, q)) = q - Word
        /\ SubSeq(b, q + 1, r) \in Seq(Byte) /\ Len(SubSeq(b, q + 1, r)) = r - q
        /\ b = (SubSeq(b, 1, Word) \o SubSeq(b, Word + 1, q)) \o SubSeq(b, q + 1, r)
    BY <2>1, CutTwice
  <2> QED BY <2>1, <2>2 DEF q, r
<1>3. /\ FromLittle(f) \in U32 /\ LittleEndian(FromLittle(f), Word) = f
      /\ FromLittle(g) \in U32 /\ LittleEndian(FromLittle(g), Word) = g
  BY <1>2, WordTyped, Zenon
<1>4. FromCanonicalBytes(h) = {v \in Field : ScalarToBytes(v) = h}
      /\ \A v, w \in FromCanonicalBytes(h) : v = w
  BY <1>2, ScalarsDecode DEF Decodes
<1>5. SubShareOf(b) = {[dealer |-> FromLittle(f), player |-> FromLittle(g), value |-> v] :
          v \in IF 0 \in {FromLittle(f), FromLittle(g)} THEN {} ELSE FromCanonicalBytes(h)}
  BY Zenon DEF SubShareOf
<1> HIDE DEF f, g, h
<1>6. ASSUME NEW s \in SubShareOf(b) PROVE s \in SubShares /\ SubShareBytes(s) = b
  <2>1. PICK v \in Field : /\ FromLittle(f) # 0 /\ FromLittle(g) # 0 /\ ScalarToBytes(v) = h
                           /\ s = [dealer |-> FromLittle(f), player |-> FromLittle(g), value |-> v]
    BY <1>4, <1>5
  <2>2. s.dealer = FromLittle(f) /\ s.player = FromLittle(g) /\ s.value = v
    BY <2>1
  <2>3. s \in SubShares
    BY <1>3, <2>1 DEF SubShares
  <2>4. SubShareBytes(s) = (f \o g) \o h
    BY <1>3, <2>1, <2>2, Zenon DEF SubShareBytes
  <2> QED BY <1>2, <2>3, <2>4, Zenon
<1>7. ASSUME NEW s \in SubShares, SubShareBytes(s) = b PROVE s \in SubShareOf(b)
  <2> DEFINE x == LittleEndian(s.dealer, Word)
             y == LittleEndian(s.player, Word)
             z == ScalarToBytes(s.value)
  <2>1. /\ x \in Seq(Byte) /\ Len(x) = Word /\ FromLittle(x) = s.dealer
        /\ y \in Seq(Byte) /\ Len(y) = Word /\ FromLittle(y) = s.player
        /\ z \in Seq(Byte) /\ s.dealer # 0 /\ s.player # 0 /\ s.value \in Field
        /\ s = [dealer |-> s.dealer, player |-> s.player, value |-> s.value]
    BY SubShareTyped
  <2>2. Two(Two(x, y), z) = Two(Two(f, g), h)
    BY <1>2, <1>7, Zenon DEF SubShareBytes, Two
  <2>0. z = ScalarToBytes(s.value)
    OBVIOUS
  <2> HIDE DEF x, y, z
  <2>5. /\ x \in Seq(Byte) /\ y \in Seq(Byte) /\ z \in Seq(Byte)
        /\ f \in Seq(Byte) /\ g \in Seq(Byte) /\ h \in Seq(Byte)
        /\ Len(x) = Len(f) /\ Len(y) = Len(g)
    BY <1>2, <2>1
  <2>3. x = f /\ y = g /\ z = h
    <3>1. Aligned(x, f) /\ Aligned(y, g)
      BY <2>5 DEF Aligned
    <3>2. Two(x, y) = Two(f, g) /\ z = h
      BY <2>2, <2>5, <3>1, AlignedJoin, AlignedSplit
    <3> QED BY <2>5, <3>1, <3>2, AlignedSplit
  <2>4. s.value \in FromCanonicalBytes(h)
    BY <1>4, <2>0, <2>1, <2>3
  <2> QED BY <1>5, <2>1, <2>3, <2>4
<1>8. ASSUME NEW s \in SubShareOf(b), NEW u \in SubShareOf(b) PROVE s = u
  <2>1. PICK v \in FromCanonicalBytes(h) :
            s = [dealer |-> FromLittle(f), player |-> FromLittle(g), value |-> v]
    BY <1>5
  <2>2. PICK w \in FromCanonicalBytes(h) :
            u = [dealer |-> FromLittle(f), player |-> FromLittle(g), value |-> w]
    BY <1>5
  <2> QED BY <1>4, <2>1, <2>2
<1>9. SubShareOf(b) = {s \in SubShares : SubShareBytes(s) = b}
  <2>1. \A s : s \in SubShareOf(b) <=> (s \in SubShares /\ SubShareBytes(s) = b)
    BY <1>6, <1>7, Zenon
  <2> QED BY <2>1
<1> QED BY <1>8, <1>9 DEF Decodes

\* The bytes of a list of points are as many times the width of one.
LEMMA PointsTyped ==
    ASSUME NEW t \in Nat, NEW c \in [1 .. t -> Point]
    PROVE  /\ [n \in 1 .. t |-> Compress(c[n])] \in [1 .. t -> Seq(Byte)]
           /\ \A n \in 1 .. t : Len(Compress(c[n])) = PointBytes
           /\ Points(c) = FlattenSeq([n \in 1 .. t |-> Compress(c[n])])
           /\ Points(c) \in Seq(Byte) /\ Len(Points(c)) = PointBytes * t
<1> DEFINE ss == [n \in 1 .. t |-> Compress(c[n])]
<1>1. \A n \in 1 .. t : Compress(c[n]) \in Seq(Byte) /\ Len(Compress(c[n])) = PointBytes
  BY CompressTyped
<1>2. ss \in [1 .. t -> Seq(Byte)] /\ \A n \in 1 .. t : Len(ss[n]) = PointBytes
  BY <1>1
<1>3. Points(c) = FlattenSeq(ss)
  <2>1. DOMAIN c = 1 .. t
    OBVIOUS
  <2> QED BY <2>1, Zenon DEF Points
<1>4. PointBytes \in Nat
  BY EncodingAssumption
<1> HIDE DEF ss
<1>5. FlattenSeq(ss) \in Seq(Byte) /\ Len(FlattenSeq(ss)) = PointBytes * t
  BY <1>2, <1>4, FlattenTyped
<1> QED BY <1>1, <1>2, <1>3, <1>5 DEF ss

\* The decoder of a list of points, again without the compact tag
StrictAll(b, t) ==
    {c \in [1 .. t -> Point] : \A n \in 1 .. t : c[n] \in Strict(Block(b, PointBytes, n))}

\* It takes the string apart where the encoder put it together: each block is
\* one point, and no other list has these bytes.
LEMMA StrictBlocksDecode ==
    ASSUME NEW t \in Nat, NEW b \in Seq(Byte), Len(b) = PointBytes * t
    PROVE  Decodes(b, [1 .. t -> Point], Points, StrictAll(b, t))
<1> DEFINE E == {x \in Seq(Byte) : Len(x) = PointBytes}
           bb == [n \in 1 .. t |-> Block(b, PointBytes, n)]
<1>1. PointBytes \in Nat \ {0}
  BY EncodingAssumption DEF PointBytes
<1>2. /\ bb \in [1 .. t -> Seq(Byte)]
      /\ \A n \in 1 .. t : Len(Block(b, PointBytes, n)) = PointBytes
      /\ FlattenSeq(bb) = b
  BY <1>1, FlattenBlocks
<1>3. \A n \in 1 .. t : Block(b, PointBytes, n) \in Seq(Byte)
  BY <1>2
<1>4. bb \in [1 .. t -> E]
  BY <1>2, <1>3
<1>5. PrefixFree(E, Byte)
  <2>1. E \in SUBSET Seq(Byte) /\ \A x \in E : Len(x) = PointBytes
    OBVIOUS
  <2> HIDE DEF E
  <2> QED BY <2>1, FixedPrefixFree
<1>6. ASSUME NEW n \in 1 .. t
      PROVE  /\ Strict(Block(b, PointBytes, n)) =
                    {pt \in Point : Compress(pt) = Block(b, PointBytes, n)}
             /\ \A p, q \in Strict(Block(b, PointBytes, n)) : p = q
  <2> DEFINE x == Block(b, PointBytes, n)
  <2>1. x \in Seq(Byte)
    BY <1>3
  <2> HIDE DEF x
  <2>2. Strict(x) = {pt \in Point : Compress(pt) = x} /\ \A p, q \in Strict(x) : p = q
    BY <2>1, StrictDecodes DEF Decodes
  <2> QED BY <2>2 DEF x
<1>7. ASSUME NEW c \in [1 .. t -> Point]
      PROVE  c \in StrictAll(b, t) <=> Points(c) = b
  <2> DEFINE ss == [n \in 1 .. t |-> Compress(c[n])]
  <2>1. c \in StrictAll(b, t) <=> \A n \in 1 .. t : Compress(c[n]) = Block(b, PointBytes, n)
    BY <1>6 DEF StrictAll
  <2>2. (\A n \in 1 .. t : Compress(c[n]) = Block(b, PointBytes, n)) <=> ss = bb
    <3>1. (\A n \in 1 .. t : Compress(c[n]) = Block(b, PointBytes, n)) => ss = bb
      OBVIOUS
    <3>2. ASSUME ss = bb, NEW n \in 1 .. t PROVE Compress(c[n]) = Block(b, PointBytes, n)
      <4>1. ss[n] = bb[n]
        BY <3>2
      <4> QED BY <4>1
    <3> QED BY <3>1, <3>2
  <2>3. ss \in [1 .. t -> Seq(Byte)] /\ (\A n \in 1 .. t : Len(Compress(c[n])) = PointBytes)
        /\ Points(c) = FlattenSeq(ss)
    BY PointsTyped
  <2>4. ss \in [1 .. t -> E]
    <3>1. \A n \in 1 .. t : Compress(c[n]) \in Seq(Byte)
      BY CompressTyped
    <3> QED BY <2>3, <3>1
  <2> HIDE DEF ss, bb, E
  <2>5. FlattenSeq(ss) = FlattenSeq(bb) => ss = bb
    BY <1>4, <1>5, <2>4, FlattenInjective
  <2> QED BY <1>2, <2>1, <2>2, <2>3, <2>5
<1>8. ASSUME NEW c \in StrictAll(b, t), NEW d \in StrictAll(b, t) PROVE c = d
  <2>1. c \in [1 .. t -> Point] /\ d \in [1 .. t -> Point]
        /\ \A n \in 1 .. t : /\ c[n] \in Strict(Block(b, PointBytes, n))
                             /\ d[n] \in Strict(Block(b, PointBytes, n))
    BY DEF StrictAll
  <2>2. \A n \in 1 .. t : c[n] = d[n]
    BY <1>6, <2>1
  <2> QED BY <2>1, <2>2
<1>9. StrictAll(b, t) = {c \in [1 .. t -> Point] : Points(c) = b}
  <2>1. \A c : c \in StrictAll(b, t) => c \in [1 .. t -> Point]
    BY DEF StrictAll
  <2> QED BY <1>7, <2>1
<1> QED BY <1>8, <1>9 DEF Decodes

\* Tags are where the blocks of the points begin.
LEMMA UncompactedBlock ==
    ASSUME NEW t \in Nat, NEW b \in Seq(Byte), Len(b) = PointBytes * t, NEW k \in 1 .. t
    PROVE  Block(Uncompacted(b, 0), PointBytes, k) = Uncompacted(Block(b, PointBytes, k), 0)
<1> DEFINE u == Uncompacted(b, 0)
           x == Block(b, PointBytes, k)
           y == Block(u, PointBytes, k)
           m == PointBytes * (k - 1)
<1>1. PointBytes \in Nat \ {0}
  BY EncodingAssumption DEF PointBytes
<1>2. /\ u \in Seq(Byte) /\ Len(u) = Len(b)
      /\ \A n \in 1 .. Len(b) :
            u[n] = IF n > 0 /\ (n - 0 - 1) % PointBytes = 0 /\ b[n] = 5 THEN 2 ELSE b[n]
  BY UncompactedTyped
<1>3. m \in Nat /\ PointBytes * k = m + PointBytes /\ m + PointBytes <= Len(b)
  <2>1. m \in Nat /\ PointBytes * k = m + PointBytes
    BY <1>1
  <2>2. PointBytes * k <= PointBytes * t
    BY <1>1
  <2> HIDE DEF m
  <2> QED BY <2>1, <2>2
<1>4. \A i \in 1 .. PointBytes : (m + i - 0 - 1) % PointBytes = i - 1
  <2> TAKE i \in 1 .. PointBytes
  <2>1. k - 1 \in Nat /\ i - 1 \in 0 .. PointBytes - 1
    BY <1>1
  <2>2. (m + (i - 1)) % PointBytes = i - 1
    BY <1>1, <2>1, QuotientUnique
  <2>3. m + i - 0 - 1 = m + (i - 1)
    BY <1>3
  <2> HIDE DEF m
  <2> QED BY <2>2, <2>3
<1>5. \A i \in 1 .. PointBytes : (i - 0 - 1) % PointBytes = i - 1
  <2> TAKE i \in 1 .. PointBytes
  <2>1. i - 1 \in 0 .. PointBytes - 1 /\ i - 0 - 1 = PointBytes * 0 + (i - 1)
    BY <1>1
  <2>2. (PointBytes * 0 + (i - 1)) % PointBytes = i - 1
    BY <1>1, <2>1, QuotientUnique
  <2> QED BY <2>1, <2>2
<1>6. ASSUME NEW s \in Seq(Byte), Len(s) = Len(b)
      PROVE  /\ Block(s, PointBytes, k) \in Seq(Byte) /\ Len(Block(s, PointBytes, k)) = PointBytes
             /\ \A i \in 1 .. PointBytes : Block(s, PointBytes, k)[i] = s[m + i]
  <2> HIDE DEF m
  <2>1. Block(s, PointBytes, k) = SubSeq(s, m + 1, m + PointBytes)
    BY <1>3 DEF Block, m
  <2>2. m + PointBytes \in Nat /\ m <= m + PointBytes /\ (m + PointBytes) - m = PointBytes
        /\ m + PointBytes <= Len(s)
    BY <1>1, <1>3, <1>6
  <2> DEFINE e == m + PointBytes
  <2>3. e \in Nat /\ m <= e /\ e - m = PointBytes /\ e <= Len(s) /\ m \in Nat
    BY <1>3, <2>2
  <2> HIDE DEF e
  <2>4. /\ SubSeq(s, m + 1, e) \in Seq(Byte) /\ Len(SubSeq(s, m + 1, e)) = e - m
        /\ \A i \in 1 .. e - m : SubSeq(s, m + 1, e)[i] = s[m + i]
    BY <2>3, StretchAfter
  <2> QED BY <2>1, <2>3, <2>4 DEF e
<1>7. /\ x \in Seq(Byte) /\ Len(x) = PointBytes
      /\ \A i \in 1 .. PointBytes : x[i] = b[m + i]
  BY <1>6
<1>8. /\ y \in Seq(Byte) /\ Len(y) = PointBytes
      /\ \A i \in 1 .. PointBytes : y[i] = u[m + i]
  BY <1>2, <1>6
<1> HIDE DEF x, y, u, m
<1>9. /\ Uncompacted(x, 0) \in Seq(Byte) /\ Len(Uncompacted(x, 0)) = PointBytes
      /\ \A i \in 1 .. PointBytes : Uncompacted(x, 0)[i] =
            IF i > 0 /\ (i - 0 - 1) % PointBytes = 0 /\ x[i] = 5 THEN 2 ELSE x[i]
  BY <1>7, UncompactedTyped
<1>10. \A i \in 1 .. PointBytes : y[i] = Uncompacted(x, 0)[i]
  <2> TAKE i \in 1 .. PointBytes
  <2>1. m + i \in 1 .. Len(b)
    BY <1>1, <1>3
  <2>2. u[m + i] = IF i - 1 = 0 /\ b[m + i] = 5 THEN 2 ELSE b[m + i]
    <3>1. (m + i - 0 - 1) % PointBytes = i - 1
      BY <1>4, Zenon
    <3>2. PICK j \in 1 .. Len(b) : j = m + i
      BY <2>1, Zenon
    <3>3. j - 0 - 1 = m + i - 0 - 1 /\ j > 0
      BY <1>1, <1>3, <3>2
    <3>4. (j - 0 - 1) % PointBytes = i - 1
      BY <3>1, <3>3, Zenon
    <3>5. u[j] = IF j > 0 /\ (j - 0 - 1) % PointBytes = 0 /\ b[j] = 5 THEN 2 ELSE b[j]
      BY <1>2, Zenon
    <3>6. u[j] = IF i - 1 = 0 /\ b[j] = 5 THEN 2 ELSE b[j]
      BY <3>3, <3>4, <3>5
    <3> QED BY <3>2, <3>6, Zenon
  <2>3. Uncompacted(x, 0)[i] = IF i - 1 = 0 /\ x[i] = 5 THEN 2 ELSE x[i]
    BY <1>5, <1>9
  <2> QED BY <1>7, <1>8, <2>2, <2>3
<1> QED BY <1>8, <1>9, <1>10, SameElements DEF x, y, u

\* So a list is read as the one under the even tags.
LEMMA CompactBlocks ==
    ASSUME NEW t \in Nat, NEW b \in Seq(Byte), Len(b) = PointBytes * t
    PROVE  /\ DecompressAll(b, t) = StrictAll(Uncompacted(b, 0), t)
           /\ StrictAll(b, t) \subseteq DecompressAll(b, t)
<1>1. PointBytes \in Nat \ {0}
  BY EncodingAssumption DEF PointBytes
<1>2. ASSUME NEW k \in 1 .. t
      PROVE  /\ Decompress(Block(b, PointBytes, k)) = Strict(Block(Uncompacted(b, 0), PointBytes, k))
             /\ Strict(Block(b, PointBytes, k)) \subseteq Decompress(Block(b, PointBytes, k))
  <2>1. Block(b, PointBytes, k) \in Seq(Byte)
    <3>1. [n \in 1 .. t |-> Block(b, PointBytes, n)] \in [1 .. t -> Seq(Byte)]
      BY <1>1, FlattenBlocks
    <3> QED BY <3>1
  <2>2. Block(Uncompacted(b, 0), PointBytes, k) = Uncompacted(Block(b, PointBytes, k), 0)
    BY UncompactedBlock
  <2> QED BY <2>1, <2>2, CompactIsEven, Zenon
<1> QED BY <1>2 DEF DecompressAll, StrictAll

\* A list of points is read as it was written, and besides it only with compact
\* tags in it.
LEMMA BlocksDecode ==
    ASSUME NEW t \in Nat, NEW b \in Seq(Byte), Len(b) = PointBytes * t
    PROVE  DecodesPoints(b, 0, [1 .. t -> Point], Points, DecompressAll(b, t))
<1> DEFINE u == Uncompacted(b, 0)
           V == [1 .. t -> Point]
<1>1. u \in Seq(Byte) /\ Len(u) = PointBytes * t
  BY UncompactedTyped
<1>2. DecompressAll(b, t) = StrictAll(u, t) /\ StrictAll(b, t) \subseteq DecompressAll(b, t)
  BY CompactBlocks
<1> HIDE DEF u
<1>3. StrictAll(u, t) = {c \in V : Points(c) = u} /\ \A c, d \in StrictAll(u, t) : c = d
  BY <1>1, StrictBlocksDecode DEF Decodes
<1>4. StrictAll(b, t) = {c \in V : Points(c) = b}
  BY StrictBlocksDecode DEF Decodes
<1> HIDE DEF V
<1>5. Decodes(u, V, Points, DecompressAll(b, t))
  BY <1>2, <1>3 DEF Decodes
<1>6. \A c \in V : Points(c) = b => DecompressAll(b, t) = {c}
  BY <1>2, <1>3, <1>4
<1> QED BY <1>5, <1>6 DEF DecodesPoints, u, V

\* SharePolynomial's from_bytes undoes its to_bytes, and besides what this wrote it
\* reads compact tags only.
THEOREM PolynomialsDecode ==
    ASSUME NEW b \in Seq(Byte), NEW t \in Nat
    PROVE  IF Len(b) = PointBytes * t /\ t # 0
           THEN DecodesPoints(b, 0, [1 .. t -> Point], Points, SharePolynomialOf(b, t))
           ELSE SharePolynomialOf(b, t) = {}
<1>1. CASE Len(b) = PointBytes * t /\ t # 0
  <2>1. SharePolynomialOf(b, t) = DecompressAll(b, t)
    BY <1>1 DEF SharePolynomialOf
  <2> QED BY <1>1, <2>1, BlocksDecode
<1>2. CASE ~(Len(b) = PointBytes * t /\ t # 0)
  BY <1>2 DEF SharePolynomialOf
<1> QED BY <1>1, <1>2

\* The bytes of a commitment are those of its dealer and of its points.
LEMMA CommitmentTyped ==
    ASSUME NEW t \in Nat, NEW c \in Commitments(t)
    PROVE  /\ c.dealer \in U32 /\ c.dealer # 0 /\ c.coefficients \in [1 .. t -> Point]
           /\ c = [dealer |-> c.dealer, coefficients |-> c.coefficients]
           /\ LittleEndian(c.dealer, Word) \in Seq(Byte) /\ Len(LittleEndian(c.dealer, Word)) = Word
           /\ FromLittle(LittleEndian(c.dealer, Word)) = c.dealer
           /\ Points(c.coefficients) \in Seq(Byte)
           /\ Len(Points(c.coefficients)) = PointBytes * t
           /\ CommitmentBytes(c) \in Seq(Byte) /\ Len(CommitmentBytes(c)) = Word + PointBytes * t
<1>1. /\ c.dealer \in U32 /\ c.dealer # 0 /\ c.coefficients \in [1 .. t -> Point]
      /\ c = [dealer |-> c.dealer, coefficients |-> c.coefficients]
  BY DEF Commitments
<1> DEFINE x == LittleEndian(c.dealer, Word)
           y == Points(c.coefficients)
<1>2. x \in Seq(Byte) /\ Len(x) = Word /\ FromLittle(x) = c.dealer
  BY <1>1, WordTyped
<1>3. y \in Seq(Byte) /\ Len(y) = PointBytes * t
  BY <1>1, PointsTyped
<1>4. CommitmentBytes(c) = x \o y
  BY DEF CommitmentBytes
<1> HIDE DEF x, y
<1>5. x \o y \in Seq(Byte) /\ Len(x \o y) = Len(x) + Len(y)
  BY <1>2, <1>3, Joined
<1>6. CommitmentBytes(c) \in Seq(Byte) /\ Len(CommitmentBytes(c)) = Word + PointBytes * t
  BY <1>2, <1>3, <1>4, <1>5
<1> QED BY <1>1, <1>2, <1>3, <1>6 DEF x, y

\* The decoder of a commitment without the compact tag
StrictCommitment(b, t) ==
    LET dealer == FromLittle(SubSeq(b, 1, Word))
    IN IF Len(b) # Word + PointBytes * t \/ dealer = 0 THEN {}
       ELSE {[dealer |-> dealer, coefficients |-> c] :
                c \in StrictAll(SubSeq(b, Word + 1, Len(b)), t)}

\* It undoes to_bytes for the threshold it is given, and refuses all other
\* strings, and the dealer 0.
LEMMA StrictCommitmentsDecode ==
    ASSUME NEW b \in Seq(Byte), NEW t \in Nat
    PROVE  IF Len(b) = Word + PointBytes * t
           THEN Decodes(b, Commitments(t), CommitmentBytes, StrictCommitment(b, t))
           ELSE StrictCommitment(b, t) = {}
<1>1. CASE Len(b) # Word + PointBytes * t
  BY <1>1 DEF StrictCommitment
<1>2. CASE Len(b) = Word + PointBytes * t
  <2> DEFINE f == SubSeq(b, 1, Word)
             g == SubSeq(b, Word + 1, Len(b))
             l == PointBytes * t
  <2>1. Word \in Nat /\ l \in Nat
    BY EncodingAssumption DEF PointBytes
  <2>2. /\ f \in Seq(Byte) /\ Len(f) = Word /\ g \in Seq(Byte) /\ Len(g) = l
        /\ Two(f, g) = b
    <3> DEFINE n == Len(b)
    <3>1. n \in Nat /\ n = Word + l /\ Word <= n /\ n - Word = l
      BY <1>2, <2>1
    <3> HIDE DEF n, l
    <3>2. SubSeq(b, 1, Word) \in Seq(Byte) /\ Len(SubSeq(b, 1, Word)) = Word
      BY <2>1, <3>1, Stretch DEF n
    <3>3. SubSeq(b, Word + 1, n) \in Seq(Byte) /\ Len(SubSeq(b, Word + 1, n)) = n - Word
      BY <2>1, <3>1, StretchAfter DEF n
    <3>4. b = SubSeq(b, 1, Word) \o SubSeq(b, Word + 1, Len(b))
      BY <2>1, <3>1, CutAt DEF n
    <3> QED BY <3>1, <3>2, <3>3, <3>4 DEF n, Two
  <2>3. FromLittle(f) \in U32 /\ LittleEndian(FromLittle(f), Word) = f
    BY <2>2, WordTyped, Zenon
  <2>4. /\ StrictAll(g, t) = {c \in [1 .. t -> Point] : Points(c) = g}
        /\ \A c, d \in StrictAll(g, t) : c = d
    BY <2>2, StrictBlocksDecode DEF Decodes
  <2>5. StrictCommitment(b, t) =
            IF FromLittle(f) = 0 THEN {}
            ELSE {[dealer |-> FromLittle(f), coefficients |-> c] : c \in StrictAll(g, t)}
    BY <1>2, Zenon DEF StrictCommitment
  <2> HIDE DEF f, g, l
  <2>6. ASSUME NEW s \in StrictCommitment(b, t) PROVE s \in Commitments(t) /\ CommitmentBytes(s) = b
    <3>1. PICK c \in [1 .. t -> Point] :
              /\ FromLittle(f) # 0 /\ Points(c) = g
              /\ s = [dealer |-> FromLittle(f), coefficients |-> c]
      BY <2>4, <2>5
    <3>2. s.dealer = FromLittle(f) /\ s.coefficients = c
      BY <3>1
    <3>3. s \in Commitments(t)
      BY <2>3, <3>1 DEF Commitments
    <3>4. CommitmentBytes(s) = Two(f, g)
      BY <2>3, <3>1, <3>2, Zenon DEF CommitmentBytes, Two
    <3> QED BY <2>2, <3>3, <3>4, Zenon
  <2>7. ASSUME NEW s \in Commitments(t), CommitmentBytes(s) = b PROVE s \in StrictCommitment(b, t)
    <3> DEFINE x == LittleEndian(s.dealer, Word)
               y == Points(s.coefficients)
    <3>1. /\ x \in Seq(Byte) /\ Len(x) = Word /\ FromLittle(x) = s.dealer
          /\ y \in Seq(Byte) /\ s.dealer # 0 /\ s.coefficients \in [1 .. t -> Point]
          /\ s = [dealer |-> s.dealer, coefficients |-> s.coefficients]
      BY CommitmentTyped
    <3>2. Two(x, y) = Two(f, g)
      BY <2>2, <2>7, Zenon DEF CommitmentBytes, Two
    <3>0. y = Points(s.coefficients)
      OBVIOUS
    <3> HIDE DEF x, y
    <3>3. Len(x) = Len(f)
      BY <2>2, <3>1
    <3>4. x = f /\ y = g
      BY <2>2, <3>1, <3>2, <3>3, SplitTwo
    <3> QED BY <2>4, <2>5, <3>0, <3>1, <3>4
  <2>8. ASSUME NEW s \in StrictCommitment(b, t), NEW u \in StrictCommitment(b, t) PROVE s = u
    <3>1. PICK c \in StrictAll(g, t) : s = [dealer |-> FromLittle(f), coefficients |-> c]
      BY <2>5
    <3>2. PICK d \in StrictAll(g, t) : u = [dealer |-> FromLittle(f), coefficients |-> d]
      BY <2>5
    <3> QED BY <2>4, <3>1, <3>2
  <2>9. StrictCommitment(b, t) = {s \in Commitments(t) : CommitmentBytes(s) = b}
    <3>1. \A s : s \in StrictCommitment(b, t) <=> (s \in Commitments(t) /\ CommitmentBytes(s) = b)
      BY <2>6, <2>7, Zenon
    <3> QED BY <3>1
  <2> QED BY <1>2, <2>8, <2>9 DEF Decodes
<1> QED BY <1>1, <1>2

\* The tags of a commitment are those of its points.
LEMMA UncompactedCommitment ==
    ASSUME NEW t \in Nat, NEW b \in Seq(Byte), Len(b) = Word + PointBytes * t
    PROVE  /\ SubSeq(Uncompacted(b, Word), 1, Word) = SubSeq(b, 1, Word)
           /\ SubSeq(b, Word + 1, Len(b)) \in Seq(Byte)
           /\ Len(SubSeq(b, Word + 1, Len(b))) = PointBytes * t
           /\ SubSeq(Uncompacted(b, Word), Word + 1, Len(b))
                = Uncompacted(SubSeq(b, Word + 1, Len(b)), 0)
<1> DEFINE u == Uncompacted(b, Word)
           l == Len(b)
           m == PointBytes * t
           g == SubSeq(b, Word + 1, l)
           h == SubSeq(u, Word + 1, l)
<1>1. Word \in Nat /\ m \in Nat /\ l = Word + m
  BY EncodingAssumption DEF PointBytes
<1>2. /\ u \in Seq(Byte) /\ Len(u) = l
      /\ \A n \in 1 .. l : u[n] =
            IF n > Word /\ (n - Word - 1) % PointBytes = 0 /\ b[n] = 5 THEN 2 ELSE b[n]
  BY <1>1, UncompactedTyped
<1>3. l \in Nat /\ Word <= l /\ l - Word = m
  BY <1>1
<1>0. l = Len(b)
  OBVIOUS
<1>9. m = PointBytes * t
  OBVIOUS
<1> HIDE DEF u, l, m
<1>4. SubSeq(u, 1, Word) = SubSeq(b, 1, Word)
  <2>1. /\ SubSeq(u, 1, Word) \in Seq(Byte) /\ Len(SubSeq(u, 1, Word)) = Word
        /\ \A i \in 1 .. Word : SubSeq(u, 1, Word)[i] = u[i]
    BY <1>1, <1>2, <1>3, Stretch
  <2>2. /\ SubSeq(b, 1, Word) \in Seq(Byte) /\ Len(SubSeq(b, 1, Word)) = Word
        /\ \A i \in 1 .. Word : SubSeq(b, 1, Word)[i] = b[i]
    BY <1>0, <1>1, <1>3, Stretch
  <2>3. \A i \in 1 .. Word : SubSeq(u, 1, Word)[i] = SubSeq(b, 1, Word)[i]
    BY <1>1, <1>2, <1>3, <2>1, <2>2
  <2> QED BY <2>1, <2>2, <2>3, SameElements
<1>5. g \in Seq(Byte) /\ Len(g) = m /\ \A i \in 1 .. m : g[i] = b[Word + i]
  BY <1>0, <1>1, <1>3, StretchAfter
<1>6. h \in Seq(Byte) /\ Len(h) = m /\ \A i \in 1 .. m : h[i] = u[Word + i]
  BY <1>1, <1>2, <1>3, StretchAfter
<1> HIDE DEF g, h
<1>7. /\ Uncompacted(g, 0) \in Seq(Byte) /\ Len(Uncompacted(g, 0)) = m
      /\ \A i \in 1 .. m : Uncompacted(g, 0)[i] =
            IF i > 0 /\ (i - 0 - 1) % PointBytes = 0 /\ g[i] = 5 THEN 2 ELSE g[i]
  BY <1>5, UncompactedTyped
<1>8. \A i \in 1 .. m : h[i] = Uncompacted(g, 0)[i]
  <2> TAKE i \in 1 .. m
  <2>1. Word + i \in 1 .. l /\ Word + i > Word /\ i > 0
        /\ (Word + i) - Word - 1 = i - 0 - 1
    BY <1>1
  <2>2. u[Word + i] = IF (i - 0 - 1) % PointBytes = 0 /\ b[Word + i] = 5
                      THEN 2 ELSE b[Word + i]
    BY <1>2, <2>1
  <2>3. Uncompacted(g, 0)[i] = IF (i - 0 - 1) % PointBytes = 0 /\ g[i] = 5 THEN 2 ELSE g[i]
    BY <1>7, <2>1
  <2> QED BY <1>5, <1>6, <2>2, <2>3
<1>10. h = Uncompacted(g, 0)
  BY <1>6, <1>7, <1>8, SameElements
<1> QED BY <1>0, <1>4, <1>5, <1>9, <1>10 DEF u, g, h

\* So a commitment is read as the one under the even tags.
LEMMA CompactCommitment ==
    ASSUME NEW t \in Nat, NEW b \in Seq(Byte), Len(b) = Word + PointBytes * t
    PROVE  /\ CommitmentOf(b, t) = StrictCommitment(Uncompacted(b, Word), t)
           /\ StrictCommitment(b, t) \subseteq CommitmentOf(b, t)
<1> DEFINE u == Uncompacted(b, Word)
           g == SubSeq(b, Word + 1, Len(b))
           d == FromLittle(SubSeq(b, 1, Word))
<1>1. Len(u) = Len(b)
  BY EncodingAssumption, UncompactedTyped
<1>2. /\ SubSeq(u, 1, Word) = SubSeq(b, 1, Word)
      /\ g \in Seq(Byte) /\ Len(g) = PointBytes * t
      /\ SubSeq(u, Word + 1, Len(b)) = Uncompacted(g, 0)
  BY UncompactedCommitment
<1>3. CommitmentOf(b, t) =
        IF d = 0 THEN {} ELSE {[dealer |-> d, coefficients |-> c] : c \in DecompressAll(g, t)}
  BY Zenon DEF CommitmentOf
<1>4. StrictCommitment(b, t) =
        IF d = 0 THEN {} ELSE {[dealer |-> d, coefficients |-> c] : c \in StrictAll(g, t)}
  BY Zenon DEF StrictCommitment
<1>5. StrictCommitment(u, t) =
        IF d = 0 THEN {}
        ELSE {[dealer |-> d, coefficients |-> c] : c \in StrictAll(Uncompacted(g, 0), t)}
  BY <1>1, <1>2, Zenon DEF StrictCommitment
<1> HIDE DEF u, g, d
<1>6. DecompressAll(g, t) = StrictAll(Uncompacted(g, 0), t)
      /\ StrictAll(g, t) \subseteq DecompressAll(g, t)
  BY <1>2, CompactBlocks
<1>7. CommitmentOf(b, t) = StrictCommitment(u, t)
  BY <1>3, <1>5, <1>6, Zenon
<1>8. StrictCommitment(b, t) \subseteq CommitmentOf(b, t)
  BY <1>3, <1>4, <1>6
<1> QED BY <1>7, <1>8 DEF u

\* DealerCommitment's from_bytes undoes to_bytes for the threshold it is given;
\* besides what this wrote it reads compact tags only, and never the dealer 0.
THEOREM CommitmentsDecode ==
    ASSUME NEW b \in Seq(Byte), NEW t \in Nat
    PROVE  IF Len(b) = Word + PointBytes * t
           THEN DecodesPoints(b, Word, Commitments(t), CommitmentBytes, CommitmentOf(b, t))
           ELSE CommitmentOf(b, t) = {}
<1>1. CASE Len(b) # Word + PointBytes * t
  BY <1>1 DEF CommitmentOf
<1>2. CASE Len(b) = Word + PointBytes * t
  <2> DEFINE u == Uncompacted(b, Word)
             V == Commitments(t)
  <2>1. u \in Seq(Byte) /\ Len(u) = Word + PointBytes * t
    BY <1>2, EncodingAssumption, UncompactedTyped
  <2>2. /\ CommitmentOf(b, t) = StrictCommitment(u, t)
        /\ StrictCommitment(b, t) \subseteq CommitmentOf(b, t)
    BY <1>2, CompactCommitment
  <2> HIDE DEF u
  <2>3. /\ StrictCommitment(u, t) = {c \in V : CommitmentBytes(c) = u}
        /\ \A c, d \in StrictCommitment(u, t) : c = d
    BY <2>1, StrictCommitmentsDecode DEF Decodes
  <2>4. StrictCommitment(b, t) = {c \in V : CommitmentBytes(c) = b}
    BY <1>2, StrictCommitmentsDecode DEF Decodes
  <2> HIDE DEF V
  <2>5. Decodes(u, V, CommitmentBytes, CommitmentOf(b, t))
    BY <2>2, <2>3 DEF Decodes
  <2>6. \A c \in V : CommitmentBytes(c) = b => CommitmentOf(b, t) = {c}
    BY <2>2, <2>3, <2>4
  <2> QED BY <1>2, <2>5, <2>6 DEF DecodesPoints, u, V
<1> QED BY <1>1, <1>2

-----------------------------------------------------------------------------
(* Identifiers *)

\* A longer string has more values.
LEMMA SizeGrows ==
    ASSUME NEW w \in Nat, NEW k \in Nat, w <= k
    PROVE  Size[w] <= Size[k]
<1> DEFINE T == {m \in Nat : Size[w] <= Size[w + m]}
<1>1. 0 \in T
  <2>1. w + 0 = w /\ Size[w] \in Nat
    BY SizeStep
  <2> QED BY <2>1
<1>2. ASSUME NEW m \in Nat, m \in T PROVE m + 1 \in T
  <2> DEFINE a == Size[w + m]
  <2>1. w + m \in Nat /\ (w + m) + 1 = w + (m + 1)
    OBVIOUS
  <2>2. a \in Nat \ {0} /\ Size[(w + m) + 1] = Base * a /\ Size[w] \in Nat
    BY <2>1, SizeStep
  <2>3. Size[w] <= a
    BY <1>2
  <2>4. Base \in Nat /\ Base >= 1
    BY EncodingAssumption
  <2> HIDE DEF a
  <2>5. Base * a >= a
    BY <2>2, <2>4
  <2>6. Base * a \in Nat
    BY <2>2, <2>4
  <2> QED BY <2>1, <2>2, <2>3, <2>5, <2>6
<1>3. \A m \in Nat : m \in T
  <2> HIDE DEF T
  <2> QED BY <1>1, <1>2, NatInductive
<1>4. k - w \in Nat /\ w + (k - w) = k
  OBVIOUS
<1>5. k - w \in T
  BY <1>3, <1>4
<1> QED BY <1>4, <1>5

\* A number below m, divided by m or more, is 0.
LEMMA DividedAway ==
    ASSUME NEW v \in Nat, NEW m \in Nat, v < m
    PROVE  v \div m = 0
<1>1. m \in Nat \ {0} /\ m * 0 + v = v /\ v \in 0 .. m - 1
  OBVIOUS
<1>2. (m * 0 + v) \div m = 0
  BY <1>1, QuotientUnique
<1> QED BY <1>1, <1>2

\* The digits of 0, and of a number after its own.
LEMMA DigitsAway ==
    ASSUME NEW w \in Nat, NEW v \in 0 .. Size[w] - 1, NEW k \in Nat, w <= k
    PROVE  (v \div Size[k]) % Base = 0
<1>1. Size[w] \in Nat /\ Size[k] \in Nat /\ Size[w] <= Size[k]
  BY SizeStep, SizeGrows
<1>2. v \in Nat /\ v < Size[k]
  BY <1>1
<1>3. v \div Size[k] = 0
  BY <1>1, <1>2, DividedAway
<1>4. Base \in Nat \ {0}
  BY BytesAreNumbers
<1>5. 0 % Base = 0
  BY <1>4
<1> QED BY <1>3, <1>5

\* A number that w bytes hold is written in n bytes as those, then zeros.
LEMMA LittleForm ==
    ASSUME NEW n \in Nat, NEW b \in Seq(Byte), Len(b) = n, NEW w \in Nat, w <= n,
           NEW v \in 0 .. Size[w] - 1
    PROVE  b = LittleEndian(v, n)
              <=> Zeros(SubSeq(b, w + 1, n)) /\ v = FromLittle(SubSeq(b, 1, w))
<1> DEFINE l == SubSeq(b, 1, w)
           r == SubSeq(b, w + 1, n)
           d == LittleEndian(v, n)
           e == LittleEndian(v, w)
<1>1. v \in Nat
  BY SizeStep
<1>2. d \in Seq(Byte) /\ Len(d) = n /\ \A k \in 1 .. n : d[k] = (v \div Size[k - 1]) % Base
  BY <1>1, LittleTyped
<1>3. e \in Seq(Byte) /\ Len(e) = w /\ \A k \in 1 .. w : e[k] = (v \div Size[k - 1]) % Base
  BY <1>1, LittleTyped
<1>4. FromLittle(e) = v
  BY ReadsWritten
<1>5. l \in Seq(Byte) /\ Len(l) = w /\ \A k \in 1 .. w : l[k] = b[k]
  BY Stretch
<1>6. r \in Seq(Byte) /\ Len(r) = n - w /\ (\A k \in 1 .. n - w : r[k] = b[w + k])
      /\ DOMAIN r = 1 .. n - w
  <2>1. r \in Seq(Byte) /\ Len(r) = n - w /\ \A k \in 1 .. n - w : r[k] = b[w + k]
    BY StretchAfter
  <2> HIDE DEF r
  <2> QED BY <2>1, SeqIsFunction
<1>7. \A k \in 1 .. n : k > w => d[k] = 0
  <2> TAKE k \in 1 .. n
  <2> HAVE k > w
  <2>1. k - 1 \in Nat /\ w <= k - 1
    OBVIOUS
  <2>2. (v \div Size[k - 1]) % Base = 0
    BY <2>1, DigitsAway
  <2> QED BY <1>2, <2>2
<1> HIDE DEF l, r, d, e
<1>8. ASSUME b = d PROVE Zeros(r) /\ v = FromLittle(l)
  <2>1. ASSUME NEW k \in DOMAIN r PROVE r[k] = 0
    <3>1. k \in 1 .. n - w /\ w + k \in 1 .. n /\ w + k > w
      BY <1>6
    <3> QED BY <1>6, <1>7, <1>8, <3>1
  <2>2. \A k \in 1 .. w : l[k] = e[k]
    <3> TAKE k \in 1 .. w
    <3>1. k \in 1 .. n
      OBVIOUS
    <3> QED BY <1>2, <1>3, <1>5, <1>8, <3>1, Zenon
  <2>3. l = e
    BY <1>3, <1>5, <2>2, SameElements
  <2> QED BY <1>4, <2>1, <2>3 DEF Zeros
<1>9. ASSUME Zeros(r), v = FromLittle(l) PROVE b = d
  <2>1. e = l
    <3>1. LittleEndian(FromLittle(l), w) = l
      BY <1>5, WritesRead
    <3> QED BY <1>9, <3>1 DEF e
  <2>2. ASSUME NEW k \in 1 .. n PROVE b[k] = d[k]
    <3>1. CASE k <= w
      <4>1. k \in 1 .. w
        BY <3>1
      <4> QED BY <1>2, <1>3, <1>5, <2>1, <4>1
    <3>2. CASE k > w
      <4>1. k - w \in 1 .. n - w /\ w + (k - w) = k
        BY <3>2
      <4>2. r[k - w] = b[k] /\ r[k - w] = 0
        BY <1>6, <1>9, <4>1 DEF Zeros
      <4> QED BY <1>7, <3>2, <4>2
    <3> QED BY <3>1, <3>2
  <2> QED BY <1>2, <2>2, SameElements
<1> QED BY <1>8, <1>9 DEF l, r, d

\* The reverse of a string without its last w bytes, and of those.
LEMMA ReverseStretch ==
    ASSUME NEW S, NEW b \in Seq(S), NEW n \in Nat, Len(b) = n, NEW w \in Nat, w <= n
    PROVE  /\ SubSeq(Reverse(b), w + 1, n) = Reverse(SubSeq(b, 1, n - w))
           /\ SubSeq(Reverse(b), 1, w) = Reverse(SubSeq(b, (n - w) + 1, n))
<1> DEFINE m == n - w
           c == Reverse(b)
           x == SubSeq(b, 1, m)
           y == SubSeq(b, m + 1, n)
           f == SubSeq(c, w + 1, n)
           g == SubSeq(c, 1, w)
<1>0. m \in Nat /\ m <= n /\ n - m = w /\ n - w = m
  OBVIOUS
<1>1. c \in Seq(S) /\ Len(c) = n /\ \A i \in 1 .. n : c[i] = b[(n - i) + 1]
  BY ReversedTwice
<1> HIDE DEF c, m
<1>2. x \in Seq(S) /\ Len(x) = m /\ \A i \in 1 .. m : x[i] = b[i]
  BY <1>0, Stretch
<1>3. y \in Seq(S) /\ Len(y) = w /\ \A i \in 1 .. w : y[i] = b[m + i]
  <2>1. y \in Seq(S) /\ Len(y) = n - m /\ \A i \in 1 .. n - m : y[i] = b[m + i]
    BY <1>0, StretchAfter
  <2> HIDE DEF y
  <2> QED BY <1>0, <2>1
<1>4. f \in Seq(S) /\ Len(f) = m /\ \A i \in 1 .. m : f[i] = c[w + i]
  <2>1. f \in Seq(S) /\ Len(f) = n - w /\ \A i \in 1 .. n - w : f[i] = c[w + i]
    BY <1>1, StretchAfter
  <2> HIDE DEF f
  <2> QED BY <1>0, <2>1
<1>5. g \in Seq(S) /\ Len(g) = w /\ \A i \in 1 .. w : g[i] = c[i]
  BY <1>1, Stretch
<1> HIDE DEF x, y, f, g
<1>6. Reverse(x) \in Seq(S) /\ Len(Reverse(x)) = m
      /\ \A i \in 1 .. m : Reverse(x)[i] = x[(m - i) + 1]
  BY <1>2, ReversedTwice
<1>7. Reverse(y) \in Seq(S) /\ Len(Reverse(y)) = w
      /\ \A i \in 1 .. w : Reverse(y)[i] = y[(w - i) + 1]
  BY <1>3, ReversedTwice
<1>8. \A i \in 1 .. m : f[i] = Reverse(x)[i]
  <2> TAKE i \in 1 .. m
  <2>1. w + i \in 1 .. n /\ (m - i) + 1 \in 1 .. m /\ (n - (w + i)) + 1 = (m - i) + 1
    BY <1>0
  <2>2. f[i] = b[(n - (w + i)) + 1] /\ Reverse(x)[i] = b[(m - i) + 1]
    BY <1>1, <1>2, <1>4, <1>6, <2>1, Zenon
  <2> QED BY <2>1, <2>2
<1>9. \A i \in 1 .. w : g[i] = Reverse(y)[i]
  <2> TAKE i \in 1 .. w
  <2>1. i \in 1 .. n /\ (w - i) + 1 \in 1 .. w /\ m + ((w - i) + 1) = (n - i) + 1
    BY <1>0
  <2>2. g[i] = b[(n - i) + 1] /\ Reverse(y)[i] = b[m + ((w - i) + 1)]
    BY <1>1, <1>3, <1>5, <1>7, <2>1, Zenon
  <2> QED BY <2>1, <2>2
<1>10. f = Reverse(x)
  <2> DEFINE z == Reverse(x)
  <2>1. z \in Seq(S) /\ Len(f) = Len(z) /\ \A i \in 1 .. Len(f) : f[i] = z[i]
    BY <1>4, <1>6, <1>8
  <2> HIDE DEF z
  <2>2. f = z
    BY <1>4, <2>1, SameElements
  <2> QED BY <2>2 DEF z
<1>11. g = Reverse(y)
  <2> DEFINE z == Reverse(y)
  <2>1. z \in Seq(S) /\ Len(g) = Len(z) /\ \A i \in 1 .. Len(g) : g[i] = z[i]
    BY <1>5, <1>7, <1>9
  <2> HIDE DEF z
  <2>2. g = z
    BY <1>5, <2>1, SameElements
  <2> QED BY <2>2 DEF z
<1> QED BY <1>10, <1>11 DEF c, m, x, y, f, g

\* Zeros in one order are zeros in the other, and stand for 0.
LEMMA ZerosAreZero ==
    ASSUME NEW b \in Seq(Byte)
    PROVE  /\ Zeros(Reverse(b)) <=> Zeros(b)
           /\ Zeros(b) => FromLittle(b) = 0 /\ FromBig(b) = 0
<1> DEFINE n == Len(b)
           c == Reverse(b)
<1>1. n \in Nat /\ DOMAIN b = 1 .. n
  BY SeqIsFunction
<1>2. c \in Seq(Byte) /\ Len(c) = n /\ \A i \in 1 .. n : c[i] = b[(n - i) + 1]
  BY ReversedTwice
<1> HIDE DEF n, c
<1>3. DOMAIN c = 1 .. n
  BY <1>2, SeqIsFunction
<1>4. ASSUME NEW z \in Seq(Byte), Len(z) = n, Zeros(z) PROVE FromLittle(z) = 0
  <2> DEFINE d == LittleEndian(0, n)
  <2>1. 0 \in 0 .. Size[0] - 1
    BY SizeStep
  <2>2. d \in Seq(Byte) /\ Len(d) = n /\ \A k \in 1 .. n : d[k] = (0 \div Size[k - 1]) % Base
    BY <1>1, LittleTyped
  <2>3. \A k \in 1 .. n : d[k] = 0
    <3> TAKE k \in 1 .. n
    <3>1. k - 1 \in Nat /\ 0 <= k - 1
      BY <1>1
    <3>2. (0 \div Size[k - 1]) % Base = 0
      BY <2>1, <3>1, DigitsAway
    <3> QED BY <2>2, <3>2
  <2>4. \A k \in 1 .. n : z[k] = 0
    BY <1>4, SeqIsFunction DEF Zeros
  <2>5. 0 \in 0 .. Size[n] - 1
    <3>1. Size[n] \in Nat \ {0}
      BY <1>1, SizeStep, Zenon
    <3> QED BY <3>1
  <2>6. FromLittle(d) = 0
    BY <1>1, <2>5, ReadsWritten
  <2> HIDE DEF d
  <2>7. z = d
    BY <1>4, <2>2, <2>3, <2>4, SameElements
  <2> QED BY <2>6, <2>7
<1>5. ASSUME Zeros(b) PROVE Zeros(c)
  <2>1. ASSUME NEW i \in 1 .. n PROVE c[i] = 0
    <3>1. (n - i) + 1 \in 1 .. n
      BY <1>1
    <3> QED BY <1>1, <1>2, <1>5, <3>1 DEF Zeros
  <2> QED BY <1>3, <2>1 DEF Zeros
<1>6. ASSUME Zeros(c) PROVE Zeros(b)
  <2>1. ASSUME NEW i \in 1 .. n PROVE b[i] = 0
    <3> DEFINE k == (n - i) + 1
    <3>1. k \in 1 .. n /\ (n - k) + 1 = i
      BY <1>1
    <3> HIDE DEF k
    <3>2. c[k] = b[(n - k) + 1] /\ c[k] = 0
      BY <1>2, <1>3, <1>6, <3>1 DEF Zeros
    <3> QED BY <3>1, <3>2
  <2> QED BY <1>1, <2>1 DEF Zeros
<1>7. Zeros(b) => FromLittle(b) = 0 /\ FromBig(b) = 0
  <2> SUFFICES ASSUME Zeros(b) PROVE FromLittle(b) = 0 /\ FromLittle(c) = 0
    BY DEF FromBig, c
  <2>1. Len(b) = n
    BY DEF n
  <2> QED BY <1>2, <1>4, <1>5, <2>1
<1> QED BY <1>5, <1>6, <1>7 DEF c

\* The same in the other order.
LEMMA BigForm ==
    ASSUME NEW n \in Nat, NEW b \in Seq(Byte), Len(b) = n, NEW w \in Nat, w <= n,
           NEW v \in 0 .. Size[w] - 1
    PROVE  b = BigEndian(v, n)
              <=> Zeros(SubSeq(b, 1, n - w)) /\ v = FromBig(SubSeq(b, (n - w) + 1, n))
<1> DEFINE c == Reverse(b)
           d == LittleEndian(v, n)
           x == SubSeq(b, 1, n - w)
           y == SubSeq(b, (n - w) + 1, n)
<1>1. c \in Seq(Byte) /\ Len(c) = n /\ Reverse(c) = b
  BY ReversedTwice
<1>2. d \in Seq(Byte) /\ Reverse(Reverse(d)) = d
  <2>1. v \in Nat
    BY SizeStep
  <2>2. d \in Seq(Byte)
    BY <2>1, LittleTyped
  <2> HIDE DEF d
  <2> QED BY <2>2, ReversedTwice
<1>3. c = d <=> Zeros(SubSeq(c, w + 1, n)) /\ v = FromLittle(SubSeq(c, 1, w))
  <2> HIDE DEF c
  <2> QED BY <1>1, LittleForm DEF d
<1>4. SubSeq(c, w + 1, n) = Reverse(x) /\ SubSeq(c, 1, w) = Reverse(y)
  BY ReverseStretch
<1>5. x \in Seq(Byte)
  <2> DEFINE m == n - w
  <2>1. m \in Nat /\ m <= n
    OBVIOUS
  <2> HIDE DEF m
  <2>2. SubSeq(b, 1, m) \in Seq(Byte)
    BY <2>1, Stretch
  <2> QED BY <2>2 DEF m
<1> HIDE DEF x, y
<1>6. Zeros(Reverse(x)) <=> Zeros(x)
  BY <1>5, ZerosAreZero
<1>7. b = Reverse(d) <=> c = d
  <2>1. ASSUME b = Reverse(d) PROVE c = d
    BY <1>2, <2>1, Zenon
  <2>2. ASSUME c = d PROVE b = Reverse(d)
    <3> HIDE DEF c, d
    <3> QED BY <1>1, <2>2, Zenon
  <2> QED BY <2>1, <2>2
<1> HIDE DEF c
<1> QED BY <1>3, <1>4, <1>6, <1>7, Zenon DEF BigEndian, FromBig, x, y, d

\* identifier_to_index reads an index in either byte order, refuses the bytes
\* that stand for none, and never takes the two orders for one another: bytes
\* that both orders would accept stand for 0.
THEOREM IdentifiersDecode ==
    ASSUME NEW b \in Seq(Byte), NEW w \in Nat \ {0}, 2 * w <= Len(b)
    PROVE  IdentifierToIndex(b, w) =
               {v \in 1 .. Size[w] - 1 : b \in {LittleEndian(v, Len(b)), BigEndian(v, Len(b))}}
<1> DEFINE n == Len(b)
           l == SubSeq(b, 1, w)
           r == SubSeq(b, w + 1, n)
           x == SubSeq(b, 1, n - w)
           y == SubSeq(b, (n - w) + 1, n)
           A == {v \in 1 .. Size[w] - 1 : b \in {LittleEndian(v, n), BigEndian(v, n)}}
<1>1. n \in Nat /\ w <= n /\ w \in Nat /\ 2 * w <= n
  BY SeqIsFunction
<1>2. Size[w] \in Nat \ {0}
  BY SizeStep
<1>3. \A v \in 0 .. Size[w] - 1 : b = LittleEndian(v, n) <=> Zeros(r) /\ v = FromLittle(l)
  <2> HIDE DEF n
  <2> QED BY <1>1, LittleForm DEF n
<1>4. \A v \in 0 .. Size[w] - 1 : b = BigEndian(v, n) <=> Zeros(x) /\ v = FromBig(y)
  <2> HIDE DEF n
  <2> QED BY <1>1, BigForm DEF n
<1>5. /\ l \in Seq(Byte) /\ Len(l) = w
      /\ r \in Seq(Byte) /\ Len(r) = n - w /\ \A k \in 1 .. n - w : r[k] = b[w + k]
  <2>1. l \in Seq(Byte) /\ Len(l) = w
    BY <1>1, Stretch
  <2>2. r \in Seq(Byte) /\ Len(r) = n - w /\ \A k \in 1 .. n - w : r[k] = b[w + k]
    <3> HIDE DEF n
    <3> QED BY <1>1, StretchAfter DEF n
  <2> QED BY <2>1, <2>2
<1>6. y \in Seq(Byte) /\ Len(y) = w /\ \A k \in 1 .. w : y[k] = b[(n - w) + k]
  <2> DEFINE m == n - w
  <2>1. m \in Nat /\ m <= n /\ n - m = w
    BY <1>1
  <2> HIDE DEF m
  <2>2. SubSeq(b, m + 1, n) \in Seq(Byte) /\ Len(SubSeq(b, m + 1, n)) = n - m
        /\ \A k \in 1 .. n - m : SubSeq(b, m + 1, n)[k] = b[m + k]
    <3> HIDE DEF n
    <3> QED BY <1>1, <2>1, StretchAfter DEF n
  <2>3. SubSeq(b, m + 1, n) \in Seq(Byte) /\ Len(SubSeq(b, m + 1, n)) = w
        /\ \A k \in 1 .. w : SubSeq(b, m + 1, n)[k] = b[m + k]
    BY <2>1, <2>2
  <2> QED BY <2>3 DEF m
<1>7. IdentifierToIndex(b, w) =
        IF n < w THEN {}
        ELSE IF Zeros(r) THEN {FromLittle(l)} \ {0}
        ELSE IF Zeros(x) THEN {FromBig(y)} \ {0}
        ELSE {}
  BY Zenon DEF IdentifierToIndex
<1> HIDE DEF n, l, r, x, y
<1>8. FromLittle(l) \in 0 .. Size[w] - 1
  BY <1>5, WritesRead
<1>9. FromBig(y) \in 0 .. Size[w] - 1
  BY <1>6, BigInverts
<1>10. ASSUME Zeros(r) PROVE FromBig(y) = 0
  <2>1. DOMAIN y = 1 .. w /\ DOMAIN r = 1 .. n - w
    BY <1>5, <1>6, SeqIsFunction
  <2>2. ASSUME NEW k \in 1 .. w PROVE y[k] = 0
    <3> DEFINE i == (n - w) + k
    <3>1. i - w \in 1 .. n - w /\ w + (i - w) = i
      BY <1>1
    <3> HIDE DEF i
    <3>2. r[i - w] = b[i] /\ r[i - w] = 0
      BY <1>5, <1>10, <2>1, <3>1 DEF Zeros
    <3>3. y[k] = b[i]
      BY <1>6 DEF i
    <3> QED BY <3>2, <3>3
  <2>3. Zeros(y)
    BY <2>1, <2>2 DEF Zeros
  <2> QED BY <1>6, <2>3, ZerosAreZero
<1>11. ASSUME NEW v \in 1 .. Size[w] - 1
       PROVE  b \in {LittleEndian(v, n), BigEndian(v, n)}
                 <=> (Zeros(r) /\ v = FromLittle(l)) \/ (Zeros(x) /\ v = FromBig(y))
  <2>1. v \in 0 .. Size[w] - 1
    BY <1>2
  <2> QED BY <1>3, <1>4, <2>1
<1>12. A = {v \in 1 .. Size[w] - 1 :
                (Zeros(r) /\ v = FromLittle(l)) \/ (Zeros(x) /\ v = FromBig(y))}
  BY <1>11
<1>13. ~(n < w)
  BY <1>1
<1> HIDE DEF A
<1>14. IdentifierToIndex(b, w) = A
  <2>1. CASE Zeros(r)
    <3>1. IdentifierToIndex(b, w) = {FromLittle(l)} \ {0}
      BY <1>7, <1>13, <2>1
    <3>2. \A v \in 1 .. Size[w] - 1 : v # FromBig(y)
      BY <1>10, <2>1
    <3> QED BY <1>2, <1>8, <1>12, <2>1, <3>1, <3>2
  <2>2. CASE ~Zeros(r) /\ Zeros(x)
    <3>1. IdentifierToIndex(b, w) = {FromBig(y)} \ {0}
      BY <1>7, <1>13, <2>2
    <3> QED BY <1>2, <1>9, <1>12, <2>2, <3>1
  <2>3. CASE ~Zeros(r) /\ ~Zeros(x)
    <3>1. IdentifierToIndex(b, w) = {}
      BY <1>7, <1>13, <2>3
    <3> QED BY <1>12, <2>3, <3>1
  <2> QED BY <2>1, <2>2, <2>3
<1> QED BY <1>14 DEF A, n

-----------------------------------------------------------------------------
(* What is signed or hashed *)

\* A string whose length fits a u64 can be written with its length in front, and
\* then told from what follows it.
LEMMA PrefixedTyped ==
    ASSUME NEW b \in Seq(Byte), Len(b) \in U64
    PROVE  /\ LittleEndian(Len(b), Long) \in Seq(Byte) /\ Len(LittleEndian(Len(b), Long)) = Long
           /\ FromLittle(LittleEndian(Len(b), Long)) = Len(b)
           /\ Prefixed(b) = Two(LittleEndian(Len(b), Long), b)
           /\ Prefixed(b) \in Seq(Byte) /\ Len(Prefixed(b)) = Long + Len(b)
<1> DEFINE l == LittleEndian(Len(b), Long)
<1>1. l \in Seq(Byte) /\ Len(l) = Long /\ FromLittle(l) = Len(b)
  BY WordTyped
<1>2. Prefixed(b) = l \o b
  BY Zenon DEF Prefixed
<1> HIDE DEF l
<1>3. l \o b \in Seq(Byte) /\ Len(l \o b) = Len(l) + Len(b)
  BY <1>1, Joined
<1>4. Prefixed(b) \in Seq(Byte) /\ Len(Prefixed(b)) = Long + Len(b)
  BY <1>1, <1>2, <1>3
<1>5. Prefixed(b) = Two(l, b)
  BY <1>2, Zenon DEF Two
<1> QED BY <1>1, <1>4, <1>5 DEF l

\* Four parts can be taken apart, if the first three have one length.
Four(a, b, c, d) == Two(Two(Two(a, b), c), d)
LEMMA SplitFour ==
    ASSUME NEW a, NEW b, NEW c, NEW d \in Seq(Byte), NEW e, NEW f, NEW g, NEW h \in Seq(Byte),
           Aligned(a, e), Aligned(b, f), Aligned(c, g), Four(a, b, c, d) = Four(e, f, g, h)
    PROVE  a = e /\ b = f /\ c = g /\ d = h
<1> DEFINE s == Two(a, b)
           t == Two(e, f)
           x == Two(s, c)
           y == Two(t, g)
<1>1. Aligned(s, t)
  BY AlignedJoin
<1>2. Aligned(x, y)
  <2> HIDE DEF s, t
  <2> QED BY <1>1, AlignedJoin
<1>3. Two(x, d) = Two(y, h)
  BY Zenon DEF Four
<1> HIDE DEF x, y
<1>4. x = y /\ d = h
  BY <1>2, <1>3, AlignedSplit
<1>5. Two(s, c) = Two(t, g)
  BY <1>4 DEF x, y
<1>6. /\ a \in Seq(Byte) /\ b \in Seq(Byte) /\ c \in Seq(Byte)
      /\ e \in Seq(Byte) /\ f \in Seq(Byte) /\ g \in Seq(Byte)
  BY Zenon DEF Aligned
<1> HIDE DEF s, t
<1>7. s = t /\ c = g
  BY <1>1, <1>5, <1>6, AlignedSplit
<1>8. Two(a, b) = Two(e, f)
  BY <1>7 DEF s, t
<1>9. a = e /\ b = f
  BY <1>6, <1>8, AlignedSplit
<1> QED BY <1>4, <1>7, <1>9

\* Seven parts can be taken apart, if the first six have one length.
Seven(a, b, c, d, e, f, g) == Four(Four(a, b, c, d), e, f, g)
LEMMA SplitSeven ==
    ASSUME NEW a, NEW b, NEW c, NEW d, NEW e, NEW f, NEW g \in Seq(Byte),
           NEW p, NEW q, NEW r, NEW s, NEW t, NEW u, NEW v \in Seq(Byte),
           Aligned(a, p), Aligned(b, q), Aligned(c, r), Aligned(d, s), Aligned(e, t),
           Aligned(f, u), Seven(a, b, c, d, e, f, g) = Seven(p, q, r, s, t, u, v)
    PROVE  a = p /\ b = q /\ c = r /\ d = s /\ e = t /\ f = u /\ g = v
<1> DEFINE k == Two(a, b)
           l == Two(p, q)
           m == Two(k, c)
           n == Two(l, r)
           x == Four(a, b, c, d)
           y == Four(p, q, r, s)
<1>1. Aligned(k, l)
  BY AlignedJoin
<1>2. Aligned(m, n)
  <2> HIDE DEF k, l
  <2> QED BY <1>1, AlignedJoin
<1>3. Aligned(x, y)
  <2>1. x = Two(m, d) /\ y = Two(n, s)
    BY Zenon DEF Four
  <2> HIDE DEF m, n, x, y
  <2>2. Aligned(Two(m, d), Two(n, s))
    BY <1>2, AlignedJoin
  <2> QED BY <2>1, <2>2, Zenon
<1>4. Four(x, e, f, g) = Four(y, t, u, v)
  BY Zenon DEF Seven
<1> HIDE DEF x, y
<1>5. x = y /\ e = t /\ f = u /\ g = v
  BY <1>3, <1>4, SplitFour
<1>6. Four(a, b, c, d) = Four(p, q, r, s)
  BY <1>5 DEF x, y
<1>7. d \in Seq(Byte) /\ s \in Seq(Byte)
  BY Zenon DEF Aligned
<1>8. a = p /\ b = q /\ c = r /\ d = s
  BY <1>6, <1>7, SplitFour
<1> QED BY <1>5, <1>8

\* A string with its length is not the beginning of another one.
LEMMA PrefixedStarts ==
    ASSUME NEW b \in Seq(Byte), NEW c \in Seq(Byte), NEW u \in Seq(Byte), NEW v \in Seq(Byte),
           Len(b) \in U64, Len(c) \in U64, Two(Prefixed(b), u) = Two(Prefixed(c), v)
    PROVE  b = c /\ u = v
<1> DEFINE l == LittleEndian(Len(b), Long)
           m == LittleEndian(Len(c), Long)
<1>1. l \in Seq(Byte) /\ Len(l) = Long /\ FromLittle(l) = Len(b) /\ Prefixed(b) = Two(l, b)
  BY PrefixedTyped
<1>2. m \in Seq(Byte) /\ Len(m) = Long /\ FromLittle(m) = Len(c) /\ Prefixed(c) = Two(m, c)
  BY PrefixedTyped
<1> HIDE DEF l, m
<1>3. Two(Two(l, b), u) = Two(l, Two(b, u)) /\ Two(b, u) \in Seq(Byte)
  BY <1>1, TwoTwice
<1>4. Two(Two(m, c), v) = Two(m, Two(c, v)) /\ Two(c, v) \in Seq(Byte)
  BY <1>2, TwoTwice
<1> DEFINE p == Two(b, u)
           q == Two(c, v)
<1>5. p \in Seq(Byte) /\ q \in Seq(Byte) /\ Two(l, p) = Two(m, q) /\ Len(l) = Len(m)
  BY <1>1, <1>2, <1>3, <1>4
<1> HIDE DEF p, q
<1>6. l = m /\ p = q
  BY <1>1, <1>2, <1>5, SplitTwo
<1>7. Len(b) = Len(c) /\ Two(b, u) = Two(c, v)
  BY <1>1, <1>2, <1>6 DEF p, q
<1> QED BY <1>7, SplitTwo

\* A string with its length has the length of its own.
LEMMA PrefixedInjective ==
    ASSUME NEW b \in Seq(Byte), NEW c \in Seq(Byte), Len(b) \in U64, Len(c) \in U64,
           Prefixed(b) = Prefixed(c)
    PROVE  b = c
<1> DEFINE l == LittleEndian(Len(b), Long)
           m == LittleEndian(Len(c), Long)
<1>1. l \in Seq(Byte) /\ Len(l) = Long /\ Prefixed(b) = Two(l, b)
  BY PrefixedTyped
<1>2. m \in Seq(Byte) /\ Len(m) = Long /\ Prefixed(c) = Two(m, c)
  BY PrefixedTyped
<1> HIDE DEF l, m
<1>3. Len(l) = Len(m) /\ Two(l, b) = Two(m, c)
  BY <1>1, <1>2
<1> QED BY <1>1, <1>2, <1>3, SplitTwo

\* The digests, and the numbers that fill one byte.
Digest == [1 .. DigestBytes -> Byte]
LEMMA DigestTyped ==
    /\ \A d \in Digest : d \in Seq(Byte) /\ Len(d) = DigestBytes
    /\ \A r \in Byte : <<r>> \in Seq(Byte) /\ Len(<<r>>) = 1 /\ <<r>>[1] = r
    /\ DigestBytes \in Nat /\ Long \in Nat /\ Word \in Nat
<1>1. DigestBytes \in Nat /\ Long \in Nat /\ Word \in Nat
  BY EncodingAssumption
<1>2. \A d \in Digest : d \in Seq(Byte) /\ Len(d) = DigestBytes
  BY <1>1, FunctionIsSeq DEF Digest
<1> QED BY <1>1, <1>2

\* A u32, and a u64, is told by its bytes.
LEMMA WordInjective ==
    /\ \A v, w \in U32 : LittleEndian(v, Word) = LittleEndian(w, Word) => v = w
    /\ \A v, w \in U64 : LittleEndian(v, Long) = LittleEndian(w, Long) => v = w
<1>1. \A v \in U32 : FromLittle(LittleEndian(v, Word)) = v
  BY WordTyped, Zenon
<1>2. \A v \in U64 : FromLittle(LittleEndian(v, Long)) = v
  BY WordTyped, Zenon
<1> QED BY <1>1, <1>2, Zenon

\* Every signing context
Contexts == [epoch : U64, manifest : Digest, message : {m \in Seq(Byte) : Len(m) \in U64}]

\* What is signed for a context names its epoch, its manifest and its message:
\* no other context has the same bytes.
THEOREM ContextsDiffer == Differ(Contexts, ContextBytes)
<1> SUFFICES ASSUME NEW c \in Contexts, NEW d \in Contexts, ContextBytes(c) = ContextBytes(d)
             PROVE  c = d
  BY DEF Differ
<1> DEFINE P0 == Prefixed(SigningDomain)
           e == LittleEndian(c.epoch, Long)
           f == LittleEndian(d.epoch, Long)
           p == Prefixed(c.message)
           q == Prefixed(d.message)
<1>1. /\ c.epoch \in U64 /\ c.manifest \in Digest
      /\ c.message \in Seq(Byte) /\ Len(c.message) \in U64
      /\ c = [epoch |-> c.epoch, manifest |-> c.manifest, message |-> c.message]
  BY DEF Contexts
<1>2. /\ d.epoch \in U64 /\ d.manifest \in Digest
      /\ d.message \in Seq(Byte) /\ Len(d.message) \in U64
      /\ d = [epoch |-> d.epoch, manifest |-> d.manifest, message |-> d.message]
  BY DEF Contexts
<1>3. SigningDomain \in Seq(Byte) /\ Len(SigningDomain) \in U64
  BY EncodingAssumption DEF U64
<1>4. P0 \in Seq(Byte)
  BY <1>3, PrefixedTyped
<1>5. /\ e \in Seq(Byte) /\ Len(e) = Long /\ f \in Seq(Byte) /\ Len(f) = Long
      /\ c.manifest \in Seq(Byte) /\ Len(c.manifest) = DigestBytes
      /\ d.manifest \in Seq(Byte) /\ Len(d.manifest) = DigestBytes
  BY <1>1, <1>2, WordTyped, DigestTyped
<1>6. p \in Seq(Byte) /\ q \in Seq(Byte)
  BY <1>1, <1>2, PrefixedTyped
<1> DEFINE g == c.manifest
           h == d.manifest
<1>7. Four(P0, e, g, p) = Four(P0, f, h, q)
  BY Zenon DEF ContextBytes, Four, Two
<1>8. Aligned(P0, P0) /\ Aligned(e, f) /\ Aligned(g, h)
  BY <1>4, <1>5 DEF Aligned
<1> HIDE DEF P0, e, f, g, h, p, q
<1>9. e = f /\ g = h /\ p = q
  BY <1>6, <1>7, <1>8, SplitFour
<1>10. c.epoch = d.epoch
  BY <1>1, <1>2, <1>9, WordInjective DEF e, f
<1>11. c.message = d.message
  BY <1>1, <1>2, <1>9, PrefixedInjective DEF p, q
<1> QED BY <1>1, <1>2, <1>9, <1>10, <1>11 DEF g, h

\* Every evidence that a sub-share is bad, and its bytes.
Evidences ==
    [dealer : U32, recipient : U32, session : Digest, round : Byte,
     subshare : {b \in Seq(Byte) : Len(b) = SubShareWidth}, agreed : Digest, sealed : Digest]

LEMMA EvidenceTyped ==
    ASSUME NEW e \in Evidences
    PROVE  /\ EvidenceBytes(e) =
                 Seven(LittleEndian(e.dealer, Word), LittleEndian(e.recipient, Word), e.session,
                       <<e.round>>, e.subshare, e.agreed, e.sealed)
           /\ e.dealer \in U32 /\ e.recipient \in U32 /\ e.round \in Byte
           /\ LittleEndian(e.dealer, Word) \in Seq(Byte) /\ Len(LittleEndian(e.dealer, Word)) = Word
           /\ LittleEndian(e.recipient, Word) \in Seq(Byte)
           /\ Len(LittleEndian(e.recipient, Word)) = Word
           /\ e.session \in Seq(Byte) /\ Len(e.session) = DigestBytes
           /\ <<e.round>> \in Seq(Byte) /\ Len(<<e.round>>) = 1
           /\ e.subshare \in Seq(Byte) /\ Len(e.subshare) = SubShareWidth
           /\ e.agreed \in Seq(Byte) /\ Len(e.agreed) = DigestBytes
           /\ e.sealed \in Seq(Byte) /\ Len(e.sealed) = DigestBytes
           /\ EvidenceBytes(e) \in Seq(Byte) /\ Len(EvidenceBytes(e)) = EvidenceWidth
           /\ e = [dealer |-> e.dealer, recipient |-> e.recipient, session |-> e.session,
                   round |-> e.round, subshare |-> e.subshare, agreed |-> e.agreed,
                   sealed |-> e.sealed]
<1> DEFINE a == LittleEndian(e.dealer, Word)
           b == LittleEndian(e.recipient, Word)
           c == e.session
           d == <<e.round>>
           x == e.subshare
           y == e.agreed
           z == e.sealed
<1>1. /\ e.dealer \in U32 /\ e.recipient \in U32 /\ e.round \in Byte
      /\ c \in Digest /\ x \in Seq(Byte) /\ Len(x) = SubShareWidth /\ y \in Digest /\ z \in Digest
      /\ e = [dealer |-> e.dealer, recipient |-> e.recipient, session |-> e.session,
              round |-> e.round, subshare |-> e.subshare, agreed |-> e.agreed,
              sealed |-> e.sealed]
  BY DEF Evidences
<1>2. a \in Seq(Byte) /\ Len(a) = Word /\ b \in Seq(Byte) /\ Len(b) = Word
  BY <1>1, WordTyped
<1>3. /\ c \in Seq(Byte) /\ Len(c) = DigestBytes /\ d \in Seq(Byte) /\ Len(d) = 1
      /\ y \in Seq(Byte) /\ Len(y) = DigestBytes /\ z \in Seq(Byte) /\ Len(z) = DigestBytes
      /\ DigestBytes \in Nat /\ Word \in Nat
  BY <1>1, DigestTyped
<1>4. EvidenceBytes(e) = Seven(a, b, c, d, x, y, z)
  BY Zenon DEF EvidenceBytes, Four, Seven, Two
<1>5. EvidenceWidth =
          (((((Word + Word) + DigestBytes) + 1) + SubShareWidth) + DigestBytes) + DigestBytes
  <2>1. ScalarBytes \in Nat
    BY EncodingAssumption
  <2> QED BY <1>3, <2>1 DEF EvidenceWidth, SubShareWidth
<1>6. /\ Sized(a, Word) /\ Sized(b, Word) /\ Sized(c, DigestBytes) /\ Sized(d, 1)
      /\ Sized(x, SubShareWidth) /\ Sized(y, DigestBytes) /\ Sized(z, DigestBytes)
  BY <1>1, <1>2, <1>3 DEF Sized
<1> HIDE DEF a, b, c, d, x, y, z
<1>7. Sized(Seven(a, b, c, d, x, y, z), EvidenceWidth)
  <2>1. Sized(Two(a, b), Word + Word)
    BY <1>6, SizedJoin, Zenon
  <2>2. Sized(Two(Two(a, b), c), (Word + Word) + DigestBytes)
    BY <1>6, <2>1, SizedJoin, Zenon
  <2>3. Sized(Two(Two(Two(a, b), c), d), ((Word + Word) + DigestBytes) + 1)
    BY <1>6, <2>2, SizedJoin, Zenon
  <2> DEFINE k == Two(Two(Two(a, b), c), d)
             w == ((Word + Word) + DigestBytes) + 1
  <2>4. Sized(Two(k, x), w + SubShareWidth)
    BY <1>6, <2>3, SizedJoin, Zenon
  <2>5. Sized(Two(Two(k, x), y), (w + SubShareWidth) + DigestBytes)
    BY <1>6, <2>4, SizedJoin, Zenon
  <2>6. Sized(Two(Two(Two(k, x), y), z), ((w + SubShareWidth) + DigestBytes) + DigestBytes)
    BY <1>6, <2>5, SizedJoin, Zenon
  <2> QED BY <1>5, <2>6, Zenon DEF Four, Seven
<1>9. EvidenceBytes(e) \in Seq(Byte) /\ Len(EvidenceBytes(e)) = EvidenceWidth
  BY <1>4, <1>7 DEF Sized
<1> QED BY <1>1, <1>2, <1>3, <1>4, <1>9 DEF a, b, c, d, x, y, z

\* Two different evidences have different bytes.
THEOREM EvidencesDiffer == Differ(Evidences, EvidenceBytes)
<1> SUFFICES ASSUME NEW e \in Evidences, NEW f \in Evidences, EvidenceBytes(e) = EvidenceBytes(f)
             PROVE  e = f
  BY DEF Differ
<1> DEFINE a == LittleEndian(e.dealer, Word)
           b == LittleEndian(e.recipient, Word)
           d == <<e.round>>
           p == LittleEndian(f.dealer, Word)
           q == LittleEndian(f.recipient, Word)
           s == <<f.round>>
           E(n) == <<e.session, e.subshare, e.agreed, e.sealed>>[n]
           F(n) == <<f.session, f.subshare, f.agreed, f.sealed>>[n]
<1>1. /\ a \in Seq(Byte) /\ Len(a) = Word /\ b \in Seq(Byte) /\ Len(b) = Word
      /\ d \in Seq(Byte) /\ Len(d) = 1 /\ E(1) \in Seq(Byte) /\ Len(E(1)) = DigestBytes
      /\ E(2) \in Seq(Byte) /\ Len(E(2)) = SubShareWidth
      /\ E(3) \in Seq(Byte) /\ Len(E(3)) = DigestBytes /\ E(4) \in Seq(Byte)
      /\ EvidenceBytes(e) = Seven(a, b, E(1), d, E(2), E(3), E(4))
  BY EvidenceTyped
<1>2. /\ p \in Seq(Byte) /\ Len(p) = Word /\ q \in Seq(Byte) /\ Len(q) = Word
      /\ s \in Seq(Byte) /\ Len(s) = 1 /\ F(1) \in Seq(Byte) /\ Len(F(1)) = DigestBytes
      /\ F(2) \in Seq(Byte) /\ Len(F(2)) = SubShareWidth
      /\ F(3) \in Seq(Byte) /\ Len(F(3)) = DigestBytes /\ F(4) \in Seq(Byte)
      /\ EvidenceBytes(f) = Seven(p, q, F(1), s, F(2), F(3), F(4))
  BY EvidenceTyped
<1>3. /\ e.session = E(1) /\ e.subshare = E(2) /\ e.agreed = E(3) /\ e.sealed = E(4)
      /\ f.session = F(1) /\ f.subshare = F(2) /\ f.agreed = F(3) /\ f.sealed = F(4)
      /\ e.dealer \in U32 /\ e.recipient \in U32 /\ f.dealer \in U32 /\ f.recipient \in U32
  BY EvidenceTyped
<1>4. a = p => e.dealer = f.dealer
  BY <1>3, WordInjective
<1>5. b = q => e.recipient = f.recipient
  BY <1>3, WordInjective
<1>6. d = s => e.round = f.round
  OBVIOUS
<1> HIDE DEF a, b, d, p, q, s, E, F
<1>7. Seven(a, b, E(1), d, E(2), E(3), E(4)) = Seven(p, q, F(1), s, F(2), F(3), F(4))
  BY <1>1, <1>2
<1>8. /\ Aligned(a, p) /\ Aligned(b, q) /\ Aligned(E(1), F(1)) /\ Aligned(d, s)
      /\ Aligned(E(2), F(2)) /\ Aligned(E(3), F(3)) /\ E(4) \in Seq(Byte) /\ F(4) \in Seq(Byte)
  BY <1>1, <1>2 DEF Aligned
<1>9. a = p /\ b = q /\ E(1) = F(1) /\ d = s /\ E(2) = F(2) /\ E(3) = F(3) /\ E(4) = F(4)
  BY <1>7, <1>8, SplitSeven
<1>10. /\ e = [dealer |-> e.dealer, recipient |-> e.recipient, session |-> e.session,
               round |-> e.round, subshare |-> e.subshare, agreed |-> e.agreed,
               sealed |-> e.sealed]
       /\ f = [dealer |-> f.dealer, recipient |-> f.recipient, session |-> f.session,
               round |-> f.round, subshare |-> f.subshare, agreed |-> f.agreed,
               sealed |-> f.sealed]
  BY EvidenceTyped
<1> QED BY <1>3, <1>4, <1>5, <1>6, <1>9, <1>10, Zenon

\* Every commitment whose length fits a u64
AllCommitments ==
    UNION {Commitments(t) : t \in {k \in Nat : Word + PointBytes * k < Size[Long]}}

LEMMA CommitmentsDiffer ==
    /\ \A c \in AllCommitments : CommitmentBytes(c) \in Seq(Byte) /\ Len(CommitmentBytes(c)) \in U64
    /\ \A c, d \in AllCommitments : CommitmentBytes(c) = CommitmentBytes(d) => c = d
<1>1. Word \in Nat /\ PointBytes \in Nat \ {0} /\ Long \in Nat
  BY EncodingAssumption DEF PointBytes
<1>2. Size[Long] \in Nat
  BY <1>1, SizeStep
<1>3. ASSUME NEW c \in AllCommitments
      PROVE  \E t \in Nat : c \in Commitments(t) /\ Word + PointBytes * t < Size[Long]
  BY DEF AllCommitments
<1>4. ASSUME NEW c \in AllCommitments
      PROVE  CommitmentBytes(c) \in Seq(Byte) /\ Len(CommitmentBytes(c)) \in U64
  <2>1. PICK t \in Nat : c \in Commitments(t) /\ Word + PointBytes * t < Size[Long]
    BY <1>3
  <2>2. CommitmentBytes(c) \in Seq(Byte) /\ Len(CommitmentBytes(c)) = Word + PointBytes * t
    BY <2>1, CommitmentTyped
  <2>3. Word + PointBytes * t \in Nat
    BY <1>1
  <2> QED BY <1>2, <2>1, <2>2, <2>3 DEF U64
<1>5. ASSUME NEW c \in AllCommitments, NEW d \in AllCommitments,
             CommitmentBytes(c) = CommitmentBytes(d)
      PROVE  c = d
  <2>1. PICK t \in Nat : c \in Commitments(t)
    BY <1>3
  <2>2. PICK k \in Nat : d \in Commitments(k)
    BY <1>3
  <2> DEFINE b == CommitmentBytes(c)
  <2>3. b \in Seq(Byte) /\ Len(b) = Word + PointBytes * t
    BY <2>1, CommitmentTyped
  <2>4. Len(b) = Word + PointBytes * k /\ b = CommitmentBytes(d)
    BY <1>5, <2>2, CommitmentTyped
  <2> HIDE DEF b
  <2>5. t = k
    <3>1. Word + PointBytes * t = Word + PointBytes * k
      BY <2>3, <2>4
    <3>2. PointBytes * (t - k) = 0
      BY <1>1, <3>1
    <3> QED BY <1>1, <3>2
  <2>6. /\ StrictCommitment(b, t) = {v \in Commitments(t) : CommitmentBytes(v) = b}
        /\ \A v, w \in StrictCommitment(b, t) : v = w
    <3>1. Decodes(b, Commitments(t), CommitmentBytes, StrictCommitment(b, t))
      BY <2>3, StrictCommitmentsDecode
    <3> QED BY <3>1 DEF Decodes
  <2>7. c \in StrictCommitment(b, t) /\ d \in StrictCommitment(b, t)
    BY <2>1, <2>2, <2>4, <2>5, <2>6 DEF b
  <2> QED BY <2>6, <2>7
<1> QED BY <1>4, <1>5

\* Every accusation: a package that was forged, or evidence of a bad sub-share.
Packages == [commitment : AllCommitments, r : Point, z : Field]
AllAccusations ==
    [kind : {"forged"}, package : Packages] \cup [kind : {"bad"}, evidence : Evidences]

\* The first byte tells the two kinds of accusation apart, and the lengths what
\* follows.
LEMMA ForgedTyped ==
    ASSUME NEW a \in [kind : {"forged"}, package : Packages]
    PROVE  /\ AccusationBytes(a) =
                 Four(<<1>>, Prefixed(CommitmentBytes(a.package.commitment)),
                      Prefixed(Compress(a.package.r)), Prefixed(ScalarToBytes(a.package.z)))
           /\ a.package.commitment \in AllCommitments
           /\ a.package.r \in Point /\ a.package.z \in Field
           /\ a = [kind |-> "forged", package |-> a.package]
           /\ a.package = [commitment |-> a.package.commitment, r |-> a.package.r,
                           z |-> a.package.z]
           /\ CommitmentBytes(a.package.commitment) \in Seq(Byte)
           /\ Len(CommitmentBytes(a.package.commitment)) \in U64
           /\ Prefixed(CommitmentBytes(a.package.commitment)) \in Seq(Byte)
           /\ Compress(a.package.r) \in Seq(Byte) /\ Len(Compress(a.package.r)) \in U64
           /\ Sized(Prefixed(Compress(a.package.r)), Long + PointBytes)
           /\ ScalarToBytes(a.package.z) \in Seq(Byte) /\ Len(ScalarToBytes(a.package.z)) \in U64
           /\ Sized(Prefixed(ScalarToBytes(a.package.z)), Long + ScalarBytes)
<1>1. /\ a.kind = "forged" /\ a.package.commitment \in AllCommitments
      /\ a.package.r \in Point /\ a.package.z \in Field
      /\ a = [kind |-> "forged", package |-> a.package]
      /\ a.package = [commitment |-> a.package.commitment, r |-> a.package.r, z |-> a.package.z]
  BY DEF Packages
<1>2. AccusationBytes(a) =
          Four(<<1>>, Prefixed(CommitmentBytes(a.package.commitment)),
               Prefixed(Compress(a.package.r)), Prefixed(ScalarToBytes(a.package.z)))
  BY <1>1, Zenon DEF AccusationBytes, Four, Two
<1> DEFINE x == CommitmentBytes(a.package.commitment)
           y == Compress(a.package.r)
           z == ScalarToBytes(a.package.z)
<1>3. x \in Seq(Byte) /\ Len(x) \in U64
  BY <1>1, CommitmentsDiffer
<1>4. PointBytes \in U64 /\ ScalarBytes \in U64
  BY EncodingAssumption DEF U64
<1>5. y \in Seq(Byte) /\ Len(y) = PointBytes /\ Len(y) \in U64
  BY <1>1, <1>4, CompressTyped
<1>6. z \in Seq(Byte) /\ Len(z) = ScalarBytes /\ Len(z) \in U64
  BY <1>1, <1>4, ScalarTyped
<1> HIDE DEF x, y, z
<1>7. Prefixed(x) \in Seq(Byte)
  BY <1>3, PrefixedTyped
<1>8. Sized(Prefixed(y), Long + PointBytes)
  BY <1>5, PrefixedTyped DEF Sized
<1>9. Sized(Prefixed(z), Long + ScalarBytes)
  BY <1>6, PrefixedTyped DEF Sized
<1> QED BY <1>1, <1>2, <1>3, <1>5, <1>6, <1>7, <1>8, <1>9 DEF x, y, z

LEMMA BadTyped ==
    ASSUME NEW a \in [kind : {"bad"}, evidence : Evidences]
    PROVE  /\ AccusationBytes(a) = Two(<<2>>, Prefixed(EvidenceBytes(a.evidence)))
           /\ a.evidence \in Evidences /\ a = [kind |-> "bad", evidence |-> a.evidence]
           /\ EvidenceBytes(a.evidence) \in Seq(Byte) /\ Len(EvidenceBytes(a.evidence)) \in U64
           /\ Prefixed(EvidenceBytes(a.evidence)) \in Seq(Byte)
<1>1. a.kind = "bad" /\ a.evidence \in Evidences /\ a = [kind |-> "bad", evidence |-> a.evidence]
  OBVIOUS
<1>2. AccusationBytes(a) = Two(<<2>>, Prefixed(EvidenceBytes(a.evidence)))
  <2>1. a.kind # "forged"
    BY <1>1
  <2> QED BY <2>1, Zenon DEF AccusationBytes, Two
<1>3. EvidenceWidth \in U64
  BY EncodingAssumption DEF U64
<1>4. EvidenceBytes(a.evidence) \in Seq(Byte) /\ Len(EvidenceBytes(a.evidence)) \in U64
  BY <1>1, <1>3, EvidenceTyped
<1> DEFINE x == EvidenceBytes(a.evidence)
<1>5. x \in Seq(Byte) /\ Len(x) \in U64
  BY <1>4
<1> HIDE DEF x
<1>6. Prefixed(x) \in Seq(Byte)
  BY <1>5, PrefixedTyped
<1> QED BY <1>1, <1>2, <1>4, <1>6 DEF x

\* A string keeps its first byte when more are added.
LEMMA FirstByte ==
    ASSUME NEW k \in Byte, NEW x \in Seq(Byte)
    PROVE  Two(<<k>>, x) \in Seq(Byte) /\ Two(<<k>>, x)[1] = k
<1> DEFINE h == <<k>>
<1>1. h \in Seq(Byte) /\ Len(h) = 1 /\ h[1] = k /\ 1 \in 1 .. Len(h)
  OBVIOUS
<1> HIDE DEF h
<1>2. (h \o x) \in Seq(Byte) /\ (h \o x)[1] = h[1]
  BY <1>1, Joined
<1> QED BY <1>1, <1>2 DEF h, Two

\* Two different accusations have different bytes.
LEMMA AccusationsDiffer ==
    /\ \A a \in AllAccusations : AccusationBytes(a) \in Seq(Byte)
    /\ \A a, b \in AllAccusations : AccusationBytes(a) = AccusationBytes(b) => a = b
<1> DEFINE A == [kind : {"forged"}, package : Packages]
           B == [kind : {"bad"}, evidence : Evidences]
<1>0. 1 \in Byte /\ 2 \in Byte
  BY EncodingAssumption DEF Byte
<1>1. ASSUME NEW a \in A
      PROVE  AccusationBytes(a) \in Seq(Byte) /\ AccusationBytes(a)[1] = 1
  <2> DEFINE x == Prefixed(CommitmentBytes(a.package.commitment))
             y == Prefixed(Compress(a.package.r))
             z == Prefixed(ScalarToBytes(a.package.z))
  <2>1. x \in Seq(Byte) /\ y \in Seq(Byte) /\ z \in Seq(Byte)
        /\ AccusationBytes(a) = Four(<<1>>, x, y, z)
    BY ForgedTyped DEF Sized
  <2> DEFINE h == <<1>>
  <2>2. h \in Seq(Byte)
    BY <1>0
  <2> HIDE DEF x, y, z, h
  <2>3. /\ Two(h, x) \in Seq(Byte) /\ Two(x, y) \in Seq(Byte)
        /\ Two(Two(h, x), y) = Two(h, Two(x, y))
    BY <2>1, <2>2, TwoTwice
  <2> DEFINE m == Two(x, y)
  <2>4. m \in Seq(Byte) /\ Two(Two(h, x), y) = Two(h, m)
    BY <2>3
  <2> HIDE DEF m
  <2>5. Two(m, z) \in Seq(Byte) /\ Two(Two(h, m), z) = Two(h, Two(m, z))
    BY <2>1, <2>2, <2>4, TwoTwice
  <2>6. AccusationBytes(a) = Two(h, Two(m, z))
    BY <2>1, <2>4, <2>5, Zenon DEF Four, h
  <2>7. Two(<<1>>, Two(m, z)) \in Seq(Byte) /\ Two(<<1>>, Two(m, z))[1] = 1
    BY <1>0, <2>5, FirstByte
  <2> QED BY <2>6, <2>7 DEF h
<1>2. ASSUME NEW a \in B
      PROVE  AccusationBytes(a) \in Seq(Byte) /\ AccusationBytes(a)[1] = 2
  <2>1. /\ AccusationBytes(a) = Two(<<2>>, Prefixed(EvidenceBytes(a.evidence)))
        /\ Prefixed(EvidenceBytes(a.evidence)) \in Seq(Byte)
    BY BadTyped
  <2> QED BY <1>0, <2>1, FirstByte
<1>3. ASSUME NEW a \in A, NEW b \in A, AccusationBytes(a) = AccusationBytes(b) PROVE a = b
  <2> DEFINE h == <<1>>
             x == Prefixed(CommitmentBytes(a.package.commitment))
             y == Prefixed(Compress(a.package.r))
             z == Prefixed(ScalarToBytes(a.package.z))
             p == Prefixed(CommitmentBytes(b.package.commitment))
             q == Prefixed(Compress(b.package.r))
             r == Prefixed(ScalarToBytes(b.package.z))
  <2>0. h \in Seq(Byte)
    BY <1>0
  <2>1. x \in Seq(Byte) /\ Sized(y, Long + PointBytes) /\ Sized(z, Long + ScalarBytes)
        /\ AccusationBytes(a) = Four(h, x, y, z)
    BY ForgedTyped
  <2>2. p \in Seq(Byte) /\ Sized(q, Long + PointBytes) /\ Sized(r, Long + ScalarBytes)
        /\ AccusationBytes(b) = Four(h, p, q, r)
    BY ForgedTyped
  <2> HIDE DEF h, x, y, z, p, q, r
  <2>3. y \in Seq(Byte) /\ z \in Seq(Byte) /\ q \in Seq(Byte) /\ r \in Seq(Byte)
        /\ Len(y) = Len(q) /\ Len(z) = Len(r)
    BY <2>1, <2>2 DEF Sized
  <2>4. Two(h, x) \in Seq(Byte) /\ Two(h, p) \in Seq(Byte)
    BY <2>0, <2>1, <2>2, TwoTwice
  <2> DEFINE k == Two(h, x)
             l == Two(h, p)
  <2>5. k \in Seq(Byte) /\ l \in Seq(Byte)
    BY <2>4
  <2> HIDE DEF k, l
  <2>6. Two(k, y) \in Seq(Byte) /\ Two(l, q) \in Seq(Byte)
    BY <2>3, <2>5, TwoTwice
  <2> DEFINE m == Two(k, y)
             n == Two(l, q)
  <2>7. m \in Seq(Byte) /\ n \in Seq(Byte) /\ Two(m, z) = Two(n, r)
    BY <1>3, <2>1, <2>2, <2>6 DEF Four, k, l
  <2> HIDE DEF m, n
  <2>8. m = n /\ z = r
    BY <2>3, <2>7, SplitTwo
  <2>9. Two(k, y) = Two(l, q)
    BY <2>8 DEF m, n
  <2>10. k = l /\ y = q
    BY <2>3, <2>5, <2>9, SplitTwo
  <2>11. Two(h, x) = Two(h, p)
    BY <2>10 DEF k, l
  <2>12. x = p
    BY <2>0, <2>1, <2>2, <2>11, SplitTwo
  <2>13. /\ a.package.commitment \in AllCommitments /\ b.package.commitment \in AllCommitments
         /\ a.package.r \in Point /\ b.package.r \in Point
         /\ a.package.z \in Field /\ b.package.z \in Field
         /\ a = [kind |-> "forged", package |-> a.package]
         /\ b = [kind |-> "forged", package |-> b.package]
         /\ a.package = [commitment |-> a.package.commitment, r |-> a.package.r,
                         z |-> a.package.z]
         /\ b.package = [commitment |-> b.package.commitment, r |-> b.package.r,
                         z |-> b.package.z]
    BY ForgedTyped
  <2>14. a.package.commitment = b.package.commitment
    <3> DEFINE f == CommitmentBytes(a.package.commitment)
               g == CommitmentBytes(b.package.commitment)
    <3>1. f \in Seq(Byte) /\ g \in Seq(Byte) /\ Len(f) \in U64 /\ Len(g) \in U64
      BY ForgedTyped
    <3>2. Prefixed(f) = Prefixed(g)
      BY <2>12 DEF x, p
    <3> HIDE DEF f, g
    <3>3. f = g
      BY <3>1, <3>2, PrefixedInjective
    <3> QED BY <2>13, <3>3, CommitmentsDiffer DEF f, g
  <2>15. a.package.r = b.package.r
    <3> DEFINE f == Compress(a.package.r)
               g == Compress(b.package.r)
    <3>1. f \in Seq(Byte) /\ g \in Seq(Byte) /\ Len(f) \in U64 /\ Len(g) \in U64
      BY ForgedTyped
    <3>2. Prefixed(f) = Prefixed(g)
      BY <2>10 DEF y, q
    <3>0. f = Compress(a.package.r) /\ g = Compress(b.package.r)
      OBVIOUS
    <3> HIDE DEF f, g
    <3>3. f = g
      BY <3>1, <3>2, PrefixedInjective
    <3>4. Strict(f) = {pt \in Point : Compress(pt) = f} /\ \A v, w \in Strict(f) : v = w
      BY <3>1, StrictDecodes DEF Decodes
    <3>5. a.package.r \in Strict(f) /\ b.package.r \in Strict(f)
      BY <2>13, <3>0, <3>3, <3>4
    <3> QED BY <3>4, <3>5
  <2>16. a.package.z = b.package.z
    <3> DEFINE f == ScalarToBytes(a.package.z)
               g == ScalarToBytes(b.package.z)
    <3>1. f \in Seq(Byte) /\ g \in Seq(Byte) /\ Len(f) \in U64 /\ Len(g) \in U64
      BY ForgedTyped
    <3>2. Prefixed(f) = Prefixed(g)
      BY <2>8 DEF z, r
    <3>3. FromBig(f) = a.package.z /\ FromBig(g) = b.package.z
      BY <2>13, ScalarTyped
    <3> HIDE DEF f, g
    <3>4. f = g
      BY <3>1, <3>2, PrefixedInjective
    <3> QED BY <3>3, <3>4
  <2> QED BY <2>13, <2>14, <2>15, <2>16, Zenon
<1>4. ASSUME NEW a \in B, NEW b \in B, AccusationBytes(a) = AccusationBytes(b) PROVE a = b
  <2> DEFINE h == <<2>>
             f == EvidenceBytes(a.evidence)
             g == EvidenceBytes(b.evidence)
             x == Prefixed(f)
             y == Prefixed(g)
  <2>1. /\ f \in Seq(Byte) /\ Len(f) \in U64 /\ x \in Seq(Byte) /\ AccusationBytes(a) = Two(h, x)
        /\ a.evidence \in Evidences /\ a = [kind |-> "bad", evidence |-> a.evidence]
    BY BadTyped
  <2>2. /\ g \in Seq(Byte) /\ Len(g) \in U64 /\ y \in Seq(Byte) /\ AccusationBytes(b) = Two(h, y)
        /\ b.evidence \in Evidences /\ b = [kind |-> "bad", evidence |-> b.evidence]
    BY BadTyped
  <2>3. h \in Seq(Byte)
    BY <1>0
  <2>4. Two(h, x) = Two(h, y)
    BY <1>4, <2>1, <2>2, Zenon
  <2>5. f = g => a.evidence = b.evidence
    <3> SUFFICES ASSUME f = g PROVE a.evidence = b.evidence
      OBVIOUS
    <3> DEFINE pairs == {<<v, EvidenceBytes(v)>> : v \in Evidences}
               u == <<a.evidence, f>>
               w == <<b.evidence, g>>
    <3>1. u \in pairs /\ w \in pairs
      BY <2>1, <2>2
    <3>2. \A m, n \in pairs : m[2] = n[2] => m[1] = n[1]
      BY EvidencesDiffer, Zenon DEF Differ
    <3>3. u[1] = a.evidence /\ w[1] = b.evidence /\ u[2] = w[2]
      OBVIOUS
    <3> HIDE DEF u, w, pairs
    <3> QED BY <3>1, <3>2, <3>3
  <2> HIDE DEF h, f, g
  <2>6. x = y
    <3> HIDE DEF x, y
    <3> QED BY <2>1, <2>2, <2>3, <2>4, SplitTwo
  <2>7. f = g
    BY <2>1, <2>2, <2>6, PrefixedInjective
  <2> QED BY <2>1, <2>2, <2>5, <2>7, Zenon
<1>5. \A a : a \in AllAccusations <=> (a \in A \/ a \in B)
  BY Zenon DEF AllAccusations
<1> HIDE DEF A, B
<1>6. \A a \in AllAccusations : AccusationBytes(a) \in Seq(Byte)
  BY <1>1, <1>2, <1>5
<1>7. ASSUME NEW a \in AllAccusations, NEW b \in AllAccusations,
             AccusationBytes(a) = AccusationBytes(b)
      PROVE  a = b
  <2>1. CASE a \in A /\ b \in A
    BY <1>3, <1>7, <2>1
  <2>2. CASE a \in B /\ b \in B
    BY <1>4, <1>7, <2>2
  <2>3. ~(a \in A /\ b \in B) /\ ~(a \in B /\ b \in A)
    BY <1>1, <1>2, <1>7
  <2> QED BY <1>5, <2>1, <2>2, <2>3
<1> QED BY <1>6, <1>7

\* Every complaint, and the parts of its body
AllComplaints ==
    [epoch : U64, session : Digest, round : Byte, accuser : U32, accused : U32,
     accusation : AllAccusations]

LEMMA ComplaintTyped ==
    ASSUME NEW c \in AllComplaints
    PROVE  /\ ComplaintBody(c) =
                 Seven(Prefixed(ComplaintDomain), LittleEndian(c.epoch, Long), c.session,
                       <<c.round>>, LittleEndian(c.accuser, Word), LittleEndian(c.accused, Word),
                       AccusationBytes(c.accusation))
           /\ c.epoch \in U64 /\ c.accuser \in U32 /\ c.accused \in U32
           /\ c.accusation \in AllAccusations
           /\ Prefixed(ComplaintDomain) \in Seq(Byte)
           /\ Sized(LittleEndian(c.epoch, Long), Long) /\ Sized(c.session, DigestBytes)
           /\ Sized(<<c.round>>, 1)
           /\ Sized(LittleEndian(c.accuser, Word), Word)
           /\ Sized(LittleEndian(c.accused, Word), Word)
           /\ AccusationBytes(c.accusation) \in Seq(Byte)
           /\ c = [epoch |-> c.epoch, session |-> c.session, round |-> c.round,
                   accuser |-> c.accuser, accused |-> c.accused, accusation |-> c.accusation]
<1>1. /\ c.epoch \in U64 /\ c.session \in Digest /\ c.round \in Byte
      /\ c.accuser \in U32 /\ c.accused \in U32 /\ c.accusation \in AllAccusations
      /\ c = [epoch |-> c.epoch, session |-> c.session, round |-> c.round,
              accuser |-> c.accuser, accused |-> c.accused, accusation |-> c.accusation]
  BY DEF AllComplaints
<1>2. ComplaintDomain \in Seq(Byte) /\ Len(ComplaintDomain) \in U64
  BY EncodingAssumption DEF U64
<1>3. Prefixed(ComplaintDomain) \in Seq(Byte)
  BY <1>2, PrefixedTyped
<1>4. /\ Sized(LittleEndian(c.epoch, Long), Long) /\ Sized(LittleEndian(c.accuser, Word), Word)
      /\ Sized(LittleEndian(c.accused, Word), Word)
  BY <1>1, WordTyped DEF Sized
<1>5. Sized(c.session, DigestBytes) /\ Sized(<<c.round>>, 1)
  BY <1>1, DigestTyped DEF Sized
<1>6. AccusationBytes(c.accusation) \in Seq(Byte)
  BY <1>1, AccusationsDiffer
<1>7. ComplaintBody(c) =
          Seven(Prefixed(ComplaintDomain), LittleEndian(c.epoch, Long), c.session,
                <<c.round>>, LittleEndian(c.accuser, Word), LittleEndian(c.accused, Word),
                AccusationBytes(c.accusation))
  BY Zenon DEF ComplaintBody, Seven, Four, Two
<1> QED BY <1>1, <1>3, <1>4, <1>5, <1>6, <1>7

\* What a complaint signs names its epoch, session and round, the accuser, the
\* accused and the whole of the evidence: no other complaint has the same bytes,
\* and so none carries a signature that was made for another one.
THEOREM ComplaintsDiffer == Differ(AllComplaints, ComplaintBody)
<1> SUFFICES ASSUME NEW c \in AllComplaints, NEW d \in AllComplaints,
                    ComplaintBody(c) = ComplaintBody(d)
             PROVE  c = d
  BY DEF Differ
<1> DEFINE h == Prefixed(ComplaintDomain)
           a == LittleEndian(c.epoch, Long)
           b == c.session
           e == <<c.round>>
           f == LittleEndian(c.accuser, Word)
           g == LittleEndian(c.accused, Word)
           i == AccusationBytes(c.accusation)
           p == LittleEndian(d.epoch, Long)
           q == d.session
           r == <<d.round>>
           s == LittleEndian(d.accuser, Word)
           t == LittleEndian(d.accused, Word)
           u == AccusationBytes(d.accusation)
<1>1. /\ ComplaintBody(c) = Seven(h, a, b, e, f, g, i)
      /\ h \in Seq(Byte) /\ Sized(a, Long) /\ Sized(b, DigestBytes) /\ Sized(e, 1)
      /\ Sized(f, Word) /\ Sized(g, Word) /\ i \in Seq(Byte)
  BY ComplaintTyped, Zenon
<1>2. /\ ComplaintBody(d) = Seven(h, p, q, r, s, t, u)
      /\ Sized(p, Long) /\ Sized(q, DigestBytes) /\ Sized(r, 1)
      /\ Sized(s, Word) /\ Sized(t, Word) /\ u \in Seq(Byte)
  BY ComplaintTyped, Zenon
<1>3. /\ c.epoch \in U64 /\ c.accuser \in U32 /\ c.accused \in U32
      /\ c.accusation \in AllAccusations
      /\ d.epoch \in U64 /\ d.accuser \in U32 /\ d.accused \in U32
      /\ d.accusation \in AllAccusations
  BY ComplaintTyped
<1>4. /\ c = [epoch |-> c.epoch, session |-> c.session, round |-> c.round,
              accuser |-> c.accuser, accused |-> c.accused, accusation |-> c.accusation]
      /\ d = [epoch |-> d.epoch, session |-> d.session, round |-> d.round,
              accuser |-> d.accuser, accused |-> d.accused, accusation |-> d.accusation]
  BY ComplaintTyped
<1>5. (a = p => c.epoch = d.epoch) /\ (f = s => c.accuser = d.accuser)
      /\ (g = t => c.accused = d.accused)
  BY <1>3, WordInjective
<1>6. e = r => c.round = d.round
  OBVIOUS
<1>7. i = u => c.accusation = d.accusation
  BY <1>3, AccusationsDiffer
<1>8. b = q => c.session = d.session
  OBVIOUS
<1> HIDE DEF h, a, b, e, f, g, i, p, q, r, s, t, u
<1>9. /\ Aligned(h, h) /\ Aligned(a, p) /\ Aligned(b, q) /\ Aligned(e, r) /\ Aligned(f, s)
      /\ Aligned(g, t)
  BY <1>1, <1>2 DEF Sized, Aligned
<1>10. Seven(h, a, b, e, f, g, i) = Seven(h, p, q, r, s, t, u)
  BY <1>1, <1>2
<1>11. a = p /\ b = q /\ e = r /\ f = s /\ g = t /\ i = u
  BY <1>1, <1>2, <1>9, <1>10, SplitSeven
<1> QED BY <1>4, <1>5, <1>6, <1>7, <1>8, <1>11, Zenon

-----------------------------------------------------------------------------
(* The round-1 echo *)

\* What a dealer adds to the echo
EchoBlock(c) == Two(LittleEndian(c.dealer, Word), Prefixed(CommitmentBytes(c)))

LEMMA EchoBlockTyped ==
    ASSUME NEW c \in AllCommitments
    PROVE  /\ c.dealer \in U32 /\ Sized(LittleEndian(c.dealer, Word), Word)
           /\ Prefixed(CommitmentBytes(c)) \in Seq(Byte)
           /\ EchoBlock(c) \in Seq(Byte)
<1>1. c.dealer \in U32
  BY CommitmentTyped DEF AllCommitments
<1>2. Sized(LittleEndian(c.dealer, Word), Word)
  BY <1>1, WordTyped DEF Sized
<1> DEFINE b == CommitmentBytes(c)
           d == LittleEndian(c.dealer, Word)
<1>3. b \in Seq(Byte) /\ Len(b) \in U64
  BY CommitmentsDiffer
<1>4. d \in Seq(Byte)
  BY <1>2 DEF Sized
<1> HIDE DEF b, d
<1>5. Prefixed(b) \in Seq(Byte)
  BY <1>3, PrefixedTyped
<1> DEFINE p == Prefixed(b)
<1>6. p \in Seq(Byte)
  BY <1>5
<1> HIDE DEF p
<1>7. Two(d, p) \in Seq(Byte)
  BY <1>4, <1>6, TwoTwice
<1> QED BY <1>1, <1>2, <1>5, <1>7 DEF EchoBlock, b, d, p

\* A block of the echo is not the beginning of another one: its length is in it.
EchoBlocks == {EchoBlock(c) : c \in AllCommitments}
LEMMA EchoBlocksPrefixFree == PrefixFree(EchoBlocks, Byte)
<1>0. EchoBlocks \subseteq Seq(Byte)
  BY EchoBlockTyped DEF EchoBlocks
<1> SUFFICES ASSUME NEW a \in EchoBlocks, NEW b \in EchoBlocks,
                    NEW u \in Seq(Byte), NEW v \in Seq(Byte), Two(a, u) = Two(b, v)
             PROVE  a = b /\ u = v
  BY <1>0, Zenon DEF PrefixFree, Two
<1> PICK c \in AllCommitments : a = EchoBlock(c)
  BY DEF EchoBlocks
<1> PICK d \in AllCommitments : b = EchoBlock(d)
  BY DEF EchoBlocks
<1> DEFINE f == CommitmentBytes(c)
           g == CommitmentBytes(d)
           x == LittleEndian(c.dealer, Word)
           y == LittleEndian(d.dealer, Word)
           p == Prefixed(f)
           q == Prefixed(g)
<1>1. f \in Seq(Byte) /\ g \in Seq(Byte) /\ Len(f) \in U64 /\ Len(g) \in U64
  BY CommitmentsDiffer
<1>2. Sized(x, Word) /\ Sized(y, Word) /\ p \in Seq(Byte) /\ q \in Seq(Byte)
  BY EchoBlockTyped
<1>3. EchoBlock(c) = Two(x, p) /\ EchoBlock(d) = Two(y, q)
  BY DEF EchoBlock
<1>4. Two(Two(x, p), u) = Two(Two(y, q), v)
  BY <1>3, Zenon DEF Two
<1> HIDE DEF f, g, x, y
<1>5. x \in Seq(Byte) /\ y \in Seq(Byte) /\ Aligned(x, y)
  BY <1>2 DEF Sized, Aligned
<1>6. Two(Two(x, p), u) = Two(x, Two(p, u)) /\ Two(p, u) \in Seq(Byte)
  <2> HIDE DEF p
  <2> QED BY <1>2, <1>5, TwoTwice
<1>7. Two(Two(y, q), v) = Two(y, Two(q, v)) /\ Two(q, v) \in Seq(Byte)
  <2> HIDE DEF q
  <2> QED BY <1>2, <1>5, TwoTwice
<1> DEFINE m == Two(p, u)
           n == Two(q, v)
<1>8. m \in Seq(Byte) /\ n \in Seq(Byte) /\ Two(x, m) = Two(y, n)
  BY <1>4, <1>6, <1>7
<1>9. x = y /\ m = n
  <2> HIDE DEF m, n
  <2> QED BY <1>5, <1>8, AlignedSplit
<1>10. Two(Prefixed(f), u) = Two(Prefixed(g), v)
  BY <1>9
<1>11. f = g /\ u = v
  BY <1>1, <1>10, PrefixedStarts
<1> QED BY <1>3, <1>9, <1>11

\* The commitments of different dealers, as many as a u32 counts
Rounds ==
    {R \in SUBSET AllCommitments :
        /\ IsFiniteSet(R) /\ Cardinality(R) \in U32
        /\ \A c, d \in R : c.dealer = d.dealer => c = d}

\* They can be sorted by their dealers, and all of them are in what is sorted.
LEMMA ByDealerSorts ==
    ASSUME NEW R \in Rounds
    PROVE  /\ ByDealer(R) \in [1 .. Cardinality(R) -> R]
           /\ {ByDealer(R)[i] : i \in 1 .. Cardinality(R)} = R
<1> DEFINE n == Cardinality(R)
           D == {c.dealer : c \in R}
           Sorted(s) == \A i, j \in DOMAIN s : i < j => s[i].dealer < s[j].dealer
<1>1. IsFiniteSet(R) /\ R \subseteq AllCommitments /\ \A c, d \in R : c.dealer = d.dealer => c = d
  BY DEF Rounds
<1>2. n \in Nat
  BY <1>1, FS_CardinalityType
<1>3. \A c \in R : c.dealer \in Nat
  <2>1. \A c \in AllCommitments : c.dealer \in U32
    BY EchoBlockTyped
  <2>2. \A v \in U32 : v \in Nat
    BY DEF U32
  <2> QED BY <1>1, <2>1, <2>2
<1>4. IsFiniteSet(D) /\ Cardinality(D) = n
  <2> DEFINE f == [c \in R |-> c.dealer]
  <2>1. f \in Bijection(R, D)
    BY <1>1 DEF Bijection, Injection, Surjection, IsInjective
  <2>2. ExistsBijection(R, D)
    BY <2>1, Zenon DEF ExistsBijection
  <2> QED BY <1>1, <2>2, FS_Bijection
<1>5. PICK q \in [1 .. n -> D] : \A i, j \in DOMAIN q : i < j => q[i] < q[j]
  <2>1. D \in SUBSET Nat
    BY <1>3
  <2> HIDE DEF D
  <2> QED BY <1>4, <2>1, AscendingExists
<1> DEFINE s0 == [i \in 1 .. n |-> CHOOSE c \in R : c.dealer = q[i]]
<1>6. \A i \in 1 .. n : s0[i] \in R /\ s0[i].dealer = q[i]
  <2> TAKE i \in 1 .. n
  <2>1. \E c \in R : c.dealer = q[i]
    BY <1>5
  <2> QED BY <2>1
<1>7. s0 \in [1 .. n -> R] /\ Sorted(s0)
  BY <1>5, <1>6
<1> DEFINE s == ByDealer(R)
<1>8. s \in [1 .. n -> R] /\ Sorted(s)
  <2>1. \E z \in [1 .. n -> R] : Sorted(z)
    <3> HIDE DEF s0, Sorted
    <3> QED BY <1>7
  <2>2. s = CHOOSE z \in [1 .. n -> R] : Sorted(z)
    BY Zenon DEF ByDealer
  <2> HIDE DEF s, Sorted
  <2> QED BY <2>1, <2>2
<1> HIDE DEF s
<1>9. \A i, j \in 1 .. n : s[i] = s[j] => i = j
  <2> TAKE i, j \in 1 .. n
  <2>1. s[i].dealer \in Nat /\ s[j].dealer \in Nat
    BY <1>3, <1>8
  <2>2. (i < j => s[i].dealer < s[j].dealer) /\ (j < i => s[j].dealer < s[i].dealer)
    BY <1>8
  <2>3. i < j \/ j < i \/ i = j
    BY <1>2
  <2> QED BY <2>1, <2>2, <2>3
<1>10. {s[i] : i \in 1 .. n} = R
  <2>1. s \in Injection(1 .. n, R)
    BY <1>8, <1>9 DEF Injection, IsInjective
  <2>2. Cardinality(1 .. n) = n
    BY <1>2, FS_Interval
  <2>3. s \in Surjection(1 .. n, R)
    BY <1>1, <2>1, <2>2, FS_Injection
  <2> QED BY <1>8, <2>3 DEF Surjection
<1> QED BY <1>8, <1>10 DEF s

\* A block names its commitment.
LEMMA EchoBlockInjective ==
    ASSUME NEW c \in AllCommitments, NEW d \in AllCommitments, EchoBlock(c) = EchoBlock(d)
    PROVE  c = d
<1> DEFINE f == CommitmentBytes(c)
           g == CommitmentBytes(d)
           x == LittleEndian(c.dealer, Word)
           y == LittleEndian(d.dealer, Word)
           p == Prefixed(f)
           q == Prefixed(g)
<1>1. f \in Seq(Byte) /\ g \in Seq(Byte) /\ Len(f) \in U64 /\ Len(g) \in U64 /\ (f = g => c = d)
  BY CommitmentsDiffer
<1>2. Sized(x, Word) /\ Sized(y, Word) /\ p \in Seq(Byte) /\ q \in Seq(Byte)
  BY EchoBlockTyped
<1>3. Two(x, p) = Two(y, q)
  BY DEF EchoBlock
<1>4. Aligned(x, y)
  BY <1>2 DEF Sized, Aligned
<1> HIDE DEF f, g, x, y
<1>5. p = q
  <2> HIDE DEF p, q
  <2> QED BY <1>2, <1>3, <1>4, AlignedSplit
<1> QED BY <1>1, <1>5, PrefixedInjective

\* The echo of a round is its head and the blocks of its dealers.
InBlocks(e, t, n, R) ==
    \E blocks \in [1 .. Cardinality(R) -> EchoBlocks] :
        /\ EchoBytes(e, t, n, R) =
              Two(Two(Four(EchoDomain, LittleEndian(e, Long), LittleEndian(t, Word),
                           LittleEndian(n, Word)),
                      LittleEndian(Cardinality(R), Word)),
                  FlattenSeq(blocks))
        /\ FlattenSeq(blocks) \in Seq(Byte)
        /\ blocks = [k \in 1 .. Cardinality(R) |-> EchoBlock(ByDealer(R)[k])]
LEMMA EchoTyped ==
    ASSUME NEW e \in U64, NEW t \in U32, NEW n \in U32, NEW R \in Rounds
    PROVE  InBlocks(e, t, n, R)
<1> DEFINE m == Cardinality(R)
           s == ByDealer(R)
           blocks == [k \in 1 .. m |-> EchoBlock(s[k])]
           raw == [k \in DOMAIN s |->
                     LittleEndian(s[k].dealer, Word) \o Prefixed(CommitmentBytes(s[k]))]
<1>1. s \in [1 .. m -> R] /\ m \in Nat /\ R \subseteq AllCommitments
  <2>1. m \in Nat
    BY FS_CardinalityType DEF Rounds
  <2> QED BY <2>1, ByDealerSorts DEF Rounds
<1>2. DOMAIN s = 1 .. m
  BY <1>1
<1>3. Len(s) = m
  <2> HIDE DEF s, m
  <2> QED BY <1>1, FunctionIsSeq
<1>4. raw = blocks
  <2>1. \A k \in 1 .. m : LittleEndian(s[k].dealer, Word) \o Prefixed(CommitmentBytes(s[k]))
                            = EchoBlock(s[k])
    BY Zenon DEF EchoBlock, Two
  <2> HIDE DEF s, m
  <2> QED BY <1>2, <2>1
<1>5. blocks \in [1 .. m -> EchoBlocks]
  <2> HIDE DEF s, m
  <2>1. \A k \in 1 .. m : EchoBlock(s[k]) \in EchoBlocks
    BY <1>1 DEF EchoBlocks
  <2> QED BY <2>1
<1>6. EchoBlocks \subseteq Seq(Byte)
  BY EchoBlockTyped DEF EchoBlocks
<1>7. EchoBytes(e, t, n, R) = EchoHead(e, t, n, m) \o FlattenSeq(raw)
  BY <1>3, Zenon DEF EchoBytes
<1>8. EchoHead(e, t, n, m) =
          Two(Four(EchoDomain, LittleEndian(e, Long), LittleEndian(t, Word), LittleEndian(n, Word)),
              LittleEndian(m, Word))
  BY Zenon DEF EchoHead, Four, Two
<1> HIDE DEF raw, blocks, m, s
<1>9. FlattenSeq(blocks) \in Seq(Byte)
  <2>1. blocks \in [1 .. m -> Seq(Byte)]
    BY <1>5, <1>6
  <2> QED BY <1>1, <2>1, FlattenTyped
<1>10. EchoBytes(e, t, n, R) =
           Two(Two(Four(EchoDomain, LittleEndian(e, Long), LittleEndian(t, Word),
                        LittleEndian(n, Word)),
                   LittleEndian(m, Word)),
               FlattenSeq(blocks))
  BY <1>4, <1>7, <1>8, Zenon DEF Two
<1>11. blocks = [k \in 1 .. m |-> EchoBlock(s[k])]
  BY Zenon DEF blocks
<1> QED BY <1>5, <1>9, <1>10, <1>11, Zenon DEF m, s, InBlocks

\* Two nodes have the same bytes to hash, only if their epoch, threshold, size
\* and the set of commitments they hold are the same, in whatever order they
\* hold them: for distinct dealers, no commitment can be moved into another one.
THEOREM EchoesDiffer ==
    ASSUME NEW e \in U64, NEW t \in U32, NEW n \in U32, NEW R \in Rounds,
           NEW f \in U64, NEW u \in U32, NEW m \in U32, NEW Q \in Rounds,
           EchoBytes(e, t, n, R) = EchoBytes(f, u, m, Q)
    PROVE  e = f /\ t = u /\ n = m /\ R = Q
<1> DEFINE i == Cardinality(R)
           j == Cardinality(Q)
           a == LittleEndian(e, Long)
           b == LittleEndian(t, Word)
           c == LittleEndian(n, Word)
           d == LittleEndian(i, Word)
           p == LittleEndian(f, Long)
           q == LittleEndian(u, Word)
           r == LittleEndian(m, Word)
           s == LittleEndian(j, Word)
<1>1. PICK x \in [1 .. i -> EchoBlocks] :
          /\ EchoBytes(e, t, n, R) = Two(Two(Four(EchoDomain, a, b, c), d), FlattenSeq(x))
          /\ FlattenSeq(x) \in Seq(Byte) /\ x = [k \in 1 .. i |-> EchoBlock(ByDealer(R)[k])]
  <2>1. InBlocks(e, t, n, R)
    BY EchoTyped
  <2> QED BY <2>1, Zenon DEF InBlocks
<1>2. PICK y \in [1 .. j -> EchoBlocks] :
          /\ EchoBytes(f, u, m, Q) = Two(Two(Four(EchoDomain, p, q, r), s), FlattenSeq(y))
          /\ FlattenSeq(y) \in Seq(Byte) /\ y = [k \in 1 .. j |-> EchoBlock(ByDealer(Q)[k])]
  <2>1. InBlocks(f, u, m, Q)
    BY EchoTyped
  <2> QED BY <2>1, Zenon DEF InBlocks
<1>3. i \in U32 /\ j \in U32 /\ i \in Nat
  BY DEF Rounds, U32
<1>4. /\ Aligned(a, p) /\ Aligned(b, q) /\ Aligned(c, r) /\ Aligned(d, s)
      /\ Aligned(EchoDomain, EchoDomain) /\ c \in Seq(Byte) /\ r \in Seq(Byte)
  <2>1. /\ a \in Seq(Byte) /\ Len(a) = Long /\ p \in Seq(Byte) /\ Len(p) = Long
        /\ b \in Seq(Byte) /\ Len(b) = Word /\ q \in Seq(Byte) /\ Len(q) = Word
        /\ c \in Seq(Byte) /\ Len(c) = Word /\ r \in Seq(Byte) /\ Len(r) = Word
        /\ d \in Seq(Byte) /\ Len(d) = Word /\ s \in Seq(Byte) /\ Len(s) = Word
    BY <1>3, WordTyped, Zenon
  <2>2. EchoDomain \in Seq(Byte)
    BY EncodingAssumption
  <2> HIDE DEF a, b, c, d, p, q, r, s
  <2> QED BY <2>1, <2>2 DEF Aligned
<1>5. (a = p => e = f) /\ (b = q => t = u) /\ (c = r => n = m) /\ (d = s => i = j)
  BY <1>3, WordInjective
<1> HIDE DEF a, b, c, d, p, q, r, s
<1> DEFINE k == Two(EchoDomain, a)
           l == Two(EchoDomain, p)
           v == Two(k, b)
           w == Two(l, q)
           g == Four(EchoDomain, a, b, c)
           h == Four(EchoDomain, p, q, r)
<1>6. Aligned(k, l)
  BY <1>4, AlignedJoin
<1>7. Aligned(v, w)
  <2> HIDE DEF k, l
  <2> QED BY <1>4, <1>6, AlignedJoin
<1>8. Aligned(g, h)
  <2>1. g = Two(v, c) /\ h = Two(w, r)
    BY Zenon DEF Four
  <2> HIDE DEF v, w, g, h
  <2>2. Aligned(Two(v, c), Two(w, r))
    BY <1>4, <1>7, AlignedJoin
  <2> QED BY <2>1, <2>2, Zenon
<1> HIDE DEF g, h
<1> DEFINE y0 == FlattenSeq(y)
           x0 == FlattenSeq(x)
           g0 == Two(g, d)
           h0 == Two(h, s)
<1>9. Aligned(g0, h0)
  BY <1>4, <1>8, AlignedJoin
<1>10. Two(g0, x0) = Two(h0, y0) /\ x0 \in Seq(Byte) /\ y0 \in Seq(Byte)
  BY <1>1, <1>2, Zenon DEF g, h
<1>11. g0 = h0 /\ x0 = y0
  <2> HIDE DEF g0, h0, x0, y0
  <2> QED BY <1>9, <1>10, AlignedSplit
<1>12. g = h /\ d = s
  <2>1. Two(g, d) = Two(h, s) /\ d \in Seq(Byte) /\ s \in Seq(Byte)
    BY <1>4, <1>11 DEF Aligned
  <2> QED BY <1>8, <2>1, AlignedSplit
<1>13. Four(EchoDomain, a, b, c) = Four(EchoDomain, p, q, r)
  BY <1>12 DEF g, h
<1>14. a = p /\ b = q /\ c = r
  BY <1>4, <1>13, SplitFour
<1>15. i = j
  BY <1>5, <1>12
<1> HIDE DEF i, j
<1>16. x = y
  <2>1. y \in [1 .. i -> EchoBlocks] /\ FlattenSeq(x) = FlattenSeq(y)
    BY <1>11, <1>15, Zenon
  <2> QED BY <1>3, <2>1, EchoBlocksPrefixFree, FlattenInjective
<1>17. \A z \in 1 .. i : EchoBlock(ByDealer(R)[z]) = EchoBlock(ByDealer(Q)[z])
  <2> TAKE z \in 1 .. i
  <2>1. x[z] = EchoBlock(ByDealer(R)[z])
    BY <1>1
  <2>2. y[z] = EchoBlock(ByDealer(Q)[z])
    BY <1>2, <1>15
  <2> QED BY <1>16, <2>1, <2>2
<1>18. /\ ByDealer(R) \in [1 .. i -> R] /\ {ByDealer(R)[z] : z \in 1 .. i} = R
       /\ ByDealer(Q) \in [1 .. i -> Q] /\ {ByDealer(Q)[z] : z \in 1 .. i} = Q
       /\ R \subseteq AllCommitments /\ Q \subseteq AllCommitments
  <2>1. ByDealer(R) \in [1 .. i -> R] /\ {ByDealer(R)[z] : z \in 1 .. i} = R
    BY ByDealerSorts DEF i
  <2>2. ByDealer(Q) \in [1 .. j -> Q] /\ {ByDealer(Q)[z] : z \in 1 .. j} = Q
    BY ByDealerSorts DEF j
  <2> QED BY <1>15, <2>1, <2>2 DEF Rounds
<1>19. \A z \in 1 .. i : ByDealer(R)[z] = ByDealer(Q)[z]
  <2> TAKE z \in 1 .. i
  <2>1. ByDealer(R)[z] \in AllCommitments /\ ByDealer(Q)[z] \in AllCommitments
    BY <1>18
  <2>2. EchoBlock(ByDealer(R)[z]) = EchoBlock(ByDealer(Q)[z])
    BY <1>17
  <2> DEFINE o == ByDealer(R)[z]
             o2 == ByDealer(Q)[z]
  <2>3. o \in AllCommitments /\ o2 \in AllCommitments /\ EchoBlock(o) = EchoBlock(o2)
    BY <2>1, <2>2
  <2> HIDE DEF o, o2
  <2>4. o = o2
    BY <2>3, EchoBlockInjective
  <2> QED BY <2>4 DEF o, o2
<1>20. R = Q
  BY <1>18, <1>19
<1> QED BY <1>5, <1>14, <1>20

-----------------------------------------------------------------------------
(* The run's samples are such values. *)

\* The small numbers of the samples fit their widths.
LEMMA SmallNumbers ==
    /\ {0, 1, 2} \subseteq Byte /\ {0, 1, 2} \subseteq U32 /\ {0, 1, 2} \subseteq U64
    /\ \A e \in Byte : e \in U64 /\ e + Base \in U64
    /\ {0, 1} \subseteq Field
<1>1. Base \in Nat /\ Base > 3 /\ Word \in Nat \ {0} /\ Long \in Nat /\ Long >= 2
  BY EncodingAssumption
<1>2. Size[0] = 1 /\ Size[1] = Base /\ Size[2] = Base * Base
  <2>1. Size[0] = 1 /\ Size[0 + 1] = Base * Size[0] /\ Size[1 + 1] = Base * Size[1]
    BY SizeStep
  <2>2. 0 + 1 = 1 /\ 1 + 1 = 2 /\ Base * 1 = Base
    BY <1>1
  <2> QED BY <2>1, <2>2
<1>3. Base <= Size[Word] /\ Size[Word] \in Nat
  <2>1. Size[1] <= Size[Word] /\ Size[Word] \in Nat
    BY <1>1, SizeGrows, SizeStep
  <2> QED BY <1>2, <2>1
<1>4. Base * Base <= Size[Long] /\ Size[Long] \in Nat
  <2>1. Size[2] <= Size[Long] /\ Size[Long] \in Nat
    BY <1>1, SizeGrows, SizeStep
  <2> QED BY <1>2, <2>1
<1>5. Base + Base <= Base * Base
  <2>1. 2 * Base <= Base * Base
    BY <1>1
  <2> QED BY <1>1, <2>1
<1>6. {0, 1} \subseteq Field
  BY FieldAssumption DEF Field
<1>7. Base + Base <= Size[Long]
  <2> DEFINE q == Base * Base
  <2>1. q \in Int /\ Base + Base <= q /\ q <= Size[Long]
    BY <1>1, <1>4, <1>5
  <2> HIDE DEF q
  <2> QED BY <1>1, <1>4, <2>1
<1> QED BY <1>1, <1>3, <1>4, <1>6, <1>7 DEF Byte, U32, U64

LEMMA SampleDigests == Digests \subseteq Digest
BY SmallNumbers DEF Digests, Digest

\* The sampled contexts
LEMMA SignedAreContexts == \A e \in Byte : Signed(e) \subseteq Contexts
<1> TAKE e \in Byte
<1>1. {e, e + Base} \subseteq U64
  BY SmallNumbers
<1>2. ASSUME NEW n \in 0 .. 2, NEW m \in [1 .. n -> {0, 1}]
      PROVE  m \in Seq(Byte) /\ Len(m) \in U64
  <2>1. m \in [1 .. n -> Byte] /\ n \in Nat
    BY SmallNumbers
  <2>2. m \in Seq(Byte) /\ Len(m) = n
    BY <2>1, FunctionIsSeq
  <2>3. n \in {0, 1, 2}
    OBVIOUS
  <2> QED BY <2>2, <2>3, SmallNumbers
<1> QED BY <1>1, <1>2, SampleDigests DEF Signed, Contexts

\* The sampled commitments
LEMMA SampleCommitments ==
    ASSUME NEW t \in 1 .. 2, NEW D \in SUBSET {1, 2},
           NEW c \in [dealer : D, coefficients : [1 .. t -> Point]]
    PROVE  c \in AllCommitments
<1>1. c \in Commitments(t)
  <2>1. D \subseteq U32 \ {0}
    BY SmallNumbers
  <2> QED BY <2>1 DEF Commitments
<1>2. Word + PointBytes * t < Size[Long]
  <2>1. Word \in Nat /\ PointBytes \in Nat /\ Long \in Nat
    BY EncodingAssumption DEF PointBytes
  <2>2. Size[Long] \in Nat
    BY <2>1, SizeStep
  <2>3. PointBytes * t <= 2 * PointBytes
    BY <2>1
  <2>4. PointBytes * t \in Nat
    BY <2>1
  <2> QED BY <2>1, <2>2, <2>3, <2>4, SampleAssumption
<1> QED BY <1>1, <1>2 DEF AllCommitments

\* The sampled complaints
LEMMA SampleComplaints == \A e \in Byte : Complaints(e) \subseteq AllComplaints
<1>1. [commitment : UNION {[dealer : {1, 2}, coefficients : [1 .. t -> Point]] : t \in 1 .. 2},
       r : {Infinity}, z : {0, 1}] \subseteq Packages
  <2>1. \A c \in UNION {[dealer : {1, 2}, coefficients : [1 .. t -> Point]] : t \in 1 .. 2} :
            c \in AllCommitments
    BY SampleCommitments
  <2>2. Infinity \in Point
    BY DEF Point
  <2> QED BY <2>1, <2>2, SmallNumbers DEF Packages
<1>2. \A s \in [dealer : {1}, player : {2}, value : {0, 1}] :
          SubShareBytes(s) \in Seq(Byte) /\ Len(SubShareBytes(s)) = SubShareWidth
  <2> TAKE s \in [dealer : {1}, player : {2}, value : {0, 1}]
  <2>1. s \in SubShares
    BY SmallNumbers DEF SubShares
  <2> QED BY <2>1, SubShareTyped
<1>3. [n \in 1 .. DigestBytes |-> 0] \in Digest
  BY SmallNumbers DEF Digest
<1>4. [dealer : {1, 2}, recipient : {1, 2}, session : {[n \in 1 .. DigestBytes |-> 0]},
       round : {1, 2},
       subshare : {SubShareBytes(s) : s \in [dealer : {1}, player : {2}, value : {0, 1}]},
       agreed : Digests, sealed : Digests] \subseteq Evidences
  <2> DEFINE B == {SubShareBytes(s) : s \in [dealer : {1}, player : {2}, value : {0, 1}]}
             z == [n \in 1 .. DigestBytes |-> 0]
  <2>1. B \subseteq {b \in Seq(Byte) : Len(b) = SubShareWidth} /\ z \in Digest
    BY <1>2, <1>3
  <2> HIDE DEF B, z
  <2>2. [dealer : {1, 2}, recipient : {1, 2}, session : {z}, round : {1, 2},
         subshare : B, agreed : Digests, sealed : Digests] \subseteq Evidences
    BY <2>1, SmallNumbers, SampleDigests DEF Evidences
  <2> QED BY <2>2 DEF B, z
<1>5. Accusations \subseteq AllAccusations
  <2> DEFINE K == [commitment : UNION {[dealer : {1, 2}, coefficients : [1 .. t -> Point]]
                                        : t \in 1 .. 2},
                   r : {Infinity}, z : {0, 1}]
             L == [dealer : {1, 2}, recipient : {1, 2},
                   session : {[n \in 1 .. DigestBytes |-> 0]}, round : {1, 2},
                   subshare : {SubShareBytes(s) : s \in [dealer : {1}, player : {2}, value : {0, 1}]},
                   agreed : Digests, sealed : Digests]
  <2>1. K \subseteq Packages /\ L \subseteq Evidences
    BY <1>1, <1>4
  <2>2. Accusations = [kind : {"forged"}, package : K] \cup [kind : {"bad"}, evidence : L]
    BY Zenon DEF Accusations
  <2> HIDE DEF K, L
  <2> QED BY <2>1, <2>2 DEF AllAccusations
<1>6. ASSUME NEW e \in Byte PROVE Complaints(e) \subseteq AllComplaints
  <2>1. {e, e + Base} \subseteq U64 /\ 2 \in Byte /\ 1 \in U32 /\ 2 \in U32
    BY SmallNumbers
  <2> QED BY <1>5, <2>1, SampleDigests DEF Complaints, AllComplaints
<1> QED BY <1>6

\* The sampled rounds
LEMMA SampleRounds == RoundOnes \subseteq Rounds
<1>1. \A D \in SUBSET {1, 2} : \A c \in Committed(D) : c \in AllCommitments /\ c.dealer \in D
  <2> SUFFICES ASSUME NEW D \in SUBSET {1, 2}, NEW c \in Committed(D)
               PROVE  c \in AllCommitments /\ c.dealer \in D
    OBVIOUS
  <2>1. PICK t \in 1 .. 2 : c \in [dealer : D, coefficients : [1 .. t -> Point]]
    BY DEF Committed
  <2> QED BY <2>1, SampleCommitments
<1>2. ASSUME NEW c \in Committed({1, 2}) PROVE {c} \in Rounds
  <2>1. IsFiniteSet({c}) /\ Cardinality({c}) = 1
    BY FS_Singleton
  <2>2. c \in AllCommitments
    BY <1>1
  <2> QED BY <2>1, <2>2, SmallNumbers DEF Rounds
<1>3. ASSUME NEW c \in Committed({1}), NEW d \in Committed({2}) PROVE {c, d} \in Rounds
  <2>1. c \in AllCommitments /\ d \in AllCommitments /\ c.dealer = 1 /\ d.dealer = 2
    BY <1>1
  <2>2. IsFiniteSet({c}) /\ Cardinality({c}) = 1 /\ d \notin {c}
    <3>1. d # c
      BY <2>1
    <3>2. IsFiniteSet({c}) /\ Cardinality({c}) = 1
      BY FS_Singleton
    <3> QED BY <3>1, <3>2
  <2>3. IsFiniteSet({c} \cup {d}) /\ Cardinality({c} \cup {d}) = 2
    <3> DEFINE one == {c}
    <3>1. IsFiniteSet(one) /\ Cardinality(one) = 1 /\ d \notin one
      BY <2>2
    <3> HIDE DEF one
    <3>2. IsFiniteSet(one \cup {d}) /\ Cardinality(one \cup {d}) = 2
      BY <3>1, FS_AddElement
    <3> QED BY <3>2 DEF one
  <2>4. {c} \cup {d} = {c, d}
    OBVIOUS
  <2>5. Cardinality({c, d}) \in U32 /\ IsFiniteSet({c, d})
    BY <2>3, <2>4, SmallNumbers
  <2> QED BY <2>1, <2>5 DEF Rounds
<1> QED BY <1>2, <1>3 DEF RoundOnes

\* Among fewer values no two more are written alike.
LEMMA SampledContextsDiffer == \A e \in Byte : Differ(Signed(e), ContextBytes)
<1>1. \A p, q \in {<<v, ContextBytes(v)>> : v \in Contexts} : p[2] = q[2] => p[1] = q[1]
  BY ContextsDiffer, Zenon DEF Differ
<1>2. ASSUME NEW e \in Byte, NEW p \in {<<v, ContextBytes(v)>> : v \in Signed(e)}
      PROVE  p \in {<<v, ContextBytes(v)>> : v \in Contexts}
  BY SignedAreContexts
<1> QED BY <1>1, <1>2, Zenon DEF Differ

LEMMA SampledComplaintsDiffer == \A e \in Byte : Differ(Complaints(e), ComplaintBody)
<1>1. \A p, q \in {<<v, ComplaintBody(v)>> : v \in AllComplaints} : p[2] = q[2] => p[1] = q[1]
  BY ComplaintsDiffer, Zenon DEF Differ
<1>2. ASSUME NEW e \in Byte, NEW p \in {<<v, ComplaintBody(v)>> : v \in Complaints(e)}
      PROVE  p \in {<<v, ComplaintBody(v)>> : v \in AllComplaints}
  BY SampleComplaints
<1> QED BY <1>1, <1>2, Zenon DEF Differ

LEMMA SampledEchoesDiffer == \A e \in Byte : Differ(RoundOnes, LAMBDA R : EchoBytes(e, 2, 2, R))
<1> SUFFICES ASSUME NEW e \in Byte, NEW R \in RoundOnes, NEW Q \in RoundOnes,
                    EchoBytes(e, 2, 2, R) = EchoBytes(e, 2, 2, Q)
             PROVE  R = Q
  BY DEF Differ
<1>1. R \in Rounds /\ Q \in Rounds /\ e \in U64 /\ 2 \in U32
  BY SampleRounds, SmallNumbers
<1> QED BY <1>1, EchoesDiffer

\* An identifier is read as one index at most.
LEMMA OneIndex ==
    ASSUME NEW b, NEW w
    PROVE  \A v, u \in IdentifierToIndex(b, w) : v = u
<1> DEFINE x == FromLittle(SubSeq(b, 1, w))
           y == FromBig(SubSeq(b, Len(b) - w + 1, Len(b)))
<1>1. IdentifierToIndex(b, w) \in {{}, {x} \ {0}, {y} \ {0}}
  BY Zenon DEF IdentifierToIndex
<1> HIDE DEF x, y
<1> QED BY <1>1

\* So what identifier_to_index reads is the one index that is written so.
LEMMA IndicesRead ==
    ASSUME NEW b \in Seq(Byte), NEW w \in Nat \ {0}, 2 * w <= Len(b)
    PROVE  ReadsIndex(b, w)
<1> DEFINE A == IdentifierToIndex(b, w)
           Written(v) == b \in {LittleEndian(v, Len(b)), BigEndian(v, Len(b))}
           I == 1 .. Size[w] - 1
<1>1. A = {v \in I : Written(v)}
  BY IdentifiersDecode
<1>2. \A v, u \in A : v = u
  BY OneIndex
<1> HIDE DEF A, Written, I
<1>3. \A v \in I : Written(v) => A = {v}
  BY <1>1, <1>2
<1>4. A \subseteq {v \in I : Written(v)}
  BY <1>1
<1> QED BY <1>3, <1>4, Zenon DEF ReadsIndex, A, Written, I

\* Whatever the list, the encodings are faithful.
LEMMA Faithful == EncodingsFaithful
<1> DEFINE b == list
           n == Len(list)
<1> SUFFICES ASSUME b \in Seq(Byte)
             PROVE
    /\ DecodesPoints(b, 0, Point, Compress, Decompress(b))
    /\ n = ScalarBytes => Decodes(b, Field, ScalarToBytes, FromCanonicalBytes(b))
    /\ n = SubShareWidth => Decodes(b, SubShares, SubShareBytes, SubShareOf(b))
    /\ \A t \in 0 .. 2 :
            IF n = Word + PointBytes * t
            THEN DecodesPoints(b, Word, Commitments(t), CommitmentBytes, CommitmentOf(b, t))
            ELSE CommitmentOf(b, t) = {}
    /\ \A t \in 0 .. 2 :
            IF n = PointBytes * t /\ t # 0
            THEN DecodesPoints(b, 0, [1 .. t -> Point], Points, SharePolynomialOf(b, t))
            ELSE SharePolynomialOf(b, t) = {}
    /\ \A w \in 1 .. n : 2 * w <= n => ReadsIndex(b, w)
    /\ n = 1 => Differ(Signed(b[1]), ContextBytes)
    /\ n = 1 => Differ(Complaints(b[1]), ComplaintBody)
    /\ n = 1 => Differ(RoundOnes, LAMBDA R : EchoBytes(b[1], 2, 2, R))
  BY Zenon DEF EncodingsFaithful
<1>1. DecodesPoints(b, 0, Point, Compress, Decompress(b))
  BY PointsDecode
<1>2. n = ScalarBytes => Decodes(b, Field, ScalarToBytes, FromCanonicalBytes(b))
  BY ScalarsDecode
<1>3. n = SubShareWidth => Decodes(b, SubShares, SubShareBytes, SubShareOf(b))
  BY SubSharesDecode
<1>4. ASSUME NEW t \in 0 .. 2
      PROVE  IF n = Word + PointBytes * t
             THEN DecodesPoints(b, Word, Commitments(t), CommitmentBytes, CommitmentOf(b, t))
             ELSE CommitmentOf(b, t) = {}
  <2>1. t \in Nat
    OBVIOUS
  <2> QED BY <2>1, CommitmentsDecode
<1>5. ASSUME NEW t \in 0 .. 2
      PROVE  IF n = PointBytes * t /\ t # 0
             THEN DecodesPoints(b, 0, [1 .. t -> Point], Points, SharePolynomialOf(b, t))
             ELSE SharePolynomialOf(b, t) = {}
  <2>1. t \in Nat
    OBVIOUS
  <2> QED BY <2>1, PolynomialsDecode
<1>6. ASSUME NEW w \in 1 .. n, 2 * w <= n PROVE ReadsIndex(b, w)
  <2>1. w \in Nat \ {0}
    BY SeqIsFunction
  <2> QED BY <1>6, <2>1, IndicesRead
<1>7. ASSUME n = 1 PROVE b[1] \in Byte
  <2>1. 1 \in 1 .. Len(b)
    BY <1>7
  <2> QED BY <2>1, SeqIsFunction
<1>8. n = 1 => /\ Differ(Signed(b[1]), ContextBytes) /\ Differ(Complaints(b[1]), ComplaintBody)
               /\ Differ(RoundOnes, LAMBDA R : EchoBytes(b[1], 2, 2, R))
  BY <1>7, SampledContextsDiffer, SampledComplaintsDiffer, SampledEchoesDiffer, Zenon
<1> QED BY <1>1, <1>2, <1>3, <1>4, <1>5, <1>6, <1>8, Zenon

\* Each decoder gives back what was written and never another value, points have
\* no second encoding but the compact one and everything else has none, and what
\* is signed or hashed differs in its bytes if it differs: in every state of the
\* run and for all widths, curves and domains.
THEOREM EncodingsAlwaysFaithful == Spec => []EncodingsFaithful
BY Faithful, PTL

=============================================================================
