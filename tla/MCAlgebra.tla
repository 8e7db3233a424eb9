----------------------------- MODULE MCAlgebra -----------------------------
(***************************************************************************)
(* The algebra of the crate, side by side in one run.  A list of numbers   *)
(* is grown one at a time, and read as a string of bytes and, where they   *)
(* are scalars, as a list of indices and as the values of a batch of       *)
(* sub-shares; or a nested position's key is generated, by three inner     *)
(* holders and two flat participants, one of which splits whatever it      *)
(* likes.                                                                  *)
(***************************************************************************)
EXTENDS NestedKey, BatchVerify, Encoding

CONSTANT MaxList

VARIABLE list

Init == list = <<>> /\ KeyInit

Extend(i) ==
    /\ coefficients = None /\ split = [f \in Flat |-> None]
    /\ Len(list) < MaxList
    /\ list' = Append(list, i)
    /\ UNCHANGED keyVars

KeyStep == list = <<>> /\ KeyNext /\ UNCHANGED list

Next == KeyStep \/ \E i \in Field \cup Byte : Extend(i)

Spec == Init /\ [][Next]_<<list, keyVars>>

-----------------------------------------------------------------------------

\* Holders 1 to 3 draw lines for the two coefficients of the position's line.
MCOuter == <<<<2, 3>>, <<4, 4>>>>
MCDraws == {
    <<<<<<1, 2>>, <<0, 4>>, <<3, 1>>>>, <<<<2, 2>>, <<1, 0>>, <<4, 3>>>>>>,
    <<<<<<0, 0>>, <<2, 1>>, <<3, 3>>>>, <<<<1, 4>>, <<1, 1>>, <<2, 0>>>>>>}
MCTails == {<<a>> : a \in {0, 1, 3}}

-----------------------------------------------------------------------------
(* The list as indices *)

\* An answer is given for distinct nonzero indices only: for all others the
\* coefficients of compute_lagrange_coefficients would divide by zero.
AnswersWhereDefined ==
    list \in Seq(Field) =>
        (~Refused(list) <=> After(Denominators(list))[0] # 0 /\ list # <<>>)

\* Reconstruction, which all of the crate rests on: k values of a polynomial
\* with k coefficients, weighted with the coefficients that the one-inversion
\* algorithm gives for their indices, in any order, sum to its constant term.
\* No other weights do, so that these are the Lagrange coefficients.
RecoversConstant ==
    list \in Seq(Field) /\ ~Refused(list) =>
        \A a \in [1 .. Len(list) -> Field] :
            Sum([i \in DOMAIN list |-> Mul(Coefficients(list)[i], Evaluate(a, list[i]))],
                DOMAIN list) = a[1]

-----------------------------------------------------------------------------
(* The list as the values of a batch of sub-shares *)

Player == 2
BatchPolynomial == <<<<3, 1>>, <<0, 2>>, <<4, 4>>>>

\* A batch in which each sub-share is good, in whatever order and with a dealer
\* twice, passes under all weights.  One with a bad sub-share in it passes under
\* no more of them than one draw out of P, and one for another player or of an
\* unknown dealer under none.
BatchSound ==
    LET n == Len(list)
        weights == [1 .. n -> Field]
        commitments == [k \in 1 .. n |-> [dealer |-> k, coefficients |-> BatchPolynomial[k]]]
    IN n \in 1 .. 3 /\ list \in Seq(Field) =>
        \A dealers \in [1 .. n -> 1 .. n] :
            LET subshares == [k \in 1 .. n |->
                    [dealer |-> dealers[k], player |-> Player, value |-> list[k]]]
                good == \A k \in 1 .. n :
                    list[k] = Evaluate(BatchPolynomial[dealers[k]], Player)
                passing(s) == {w \in weights : BatchVerify(Player, s, commitments, w)}
            IN /\ good => passing(subshares) = weights
               /\ ~good => Cardinality(passing(subshares)) * P <= Cardinality(weights)
               /\ passing([subshares EXCEPT ![n].player = Player + 1]) = {}
               /\ passing([subshares EXCEPT ![n].dealer = n + 1]) = {}

-----------------------------------------------------------------------------
(* The list as bytes *)

MCSigningDomain == <<4>>
MCComplaintDomain == <<3>>
MCEchoDomain == <<2>>

\* The answer of a decoder to b is what b encodes, among the values V, and no
\* two values are encoded alike.
Decodes(b, V, encode(_), answer) ==
    /\ answer = {v \in V : encode(v) = b}
    /\ \A v, w \in answer : v = w

\* With k256 a point of even y has the compact tag as well, which no encoder
\* writes: the string with the even tag in its place, where the first point
\* begins after so many bytes.
Uncompacted(b, before) ==
    [n \in DOMAIN b |->
        IF n > before /\ (n - before - 1) % PointBytes = 0 /\ b[n] = 5 THEN 2 ELSE b[n]]

\* What a value is written as is read as that value, and whatever else is read
\* is this value's bytes but for compact tags.
DecodesPoints(b, before, V, encode(_), answer) ==
    /\ \A v \in V : encode(v) = b => answer = {v}
    /\ Decodes(Uncompacted(b, before), V, encode, answer)

\* Values that differ have different bytes.
Differ(V, encode(_)) ==
    LET pairs == {<<v, encode(v)>> : v \in V}
    IN \A p, q \in pairs : p[2] = q[2] => p[1] = q[1]

\* The commitments below have at most two coefficients.
ASSUME SampleAssumption == Word + 2 * PointBytes < Size[Long]

Digests == [1 .. DigestBytes -> {0, 1}]

\* What is signed in epoch e, and in another one that shares a byte with it
Signed(e) == [epoch : {e, e + Base}, manifest : Digests,
              message : UNION {[1 .. n -> {0, 1}] : n \in 0 .. 2}]

Accusations ==
    [kind : {"forged"},
     package : [commitment : UNION {[dealer : {1, 2}, coefficients : [1 .. t -> Point]] : t \in 1 .. 2},
                r : {Infinity}, z : {0, 1}]] \cup
    [kind : {"bad"},
     evidence : [dealer : {1, 2}, recipient : {1, 2}, session : {[n \in 1 .. DigestBytes |-> 0]},
                 round : {1, 2},
                 subshare : {SubShareBytes(s) : s \in [dealer : {1}, player : {2}, value : {0, 1}]},
                 agreed : Digests, sealed : Digests]]

Complaints(e) ==
    [epoch : {e, e + Base}, session : Digests, round : {2}, accuser : {1, 2}, accused : {1},
     accusation : Accusations]

Committed(dealers) ==
    UNION {[dealer : dealers, coefficients : [1 .. t -> Point]] : t \in 1 .. 2}
RoundOnes == {{c, d} : c \in Committed({1}), d \in Committed({2})} \cup {{c} : c \in Committed({1, 2})}

\* The bytes of an index are read as that index, in the order they were written
\* in, and no others are.
ReadsIndex(b, w) ==
    LET indices == 1 .. Size[w] - 1
        written(v) == {LittleEndian(v, Len(b)), BigEndian(v, Len(b))}
    IN /\ \A v \in indices : b \in written(v) => IdentifierToIndex(b, w) = {v}
       /\ IdentifierToIndex(b, w) \subseteq {v \in indices : b \in written(v)}

\* Each decoder gives back the value that was written, and never another one.
\* Scalars and sub-shares have no second encoding; a point has one if its y is
\* even, the compact tag, and commitments and polynomials have those of their
\* points, but no others.  An identifier that the suite serializes in either
\* byte order is read as the index it stands for and as no other, and refused if
\* it stands for none.  What is signed or hashed differs in its bytes if it differs.
EncodingsFaithful ==
    LET b == list
        n == Len(list)
    IN list \in Seq(Byte) =>
    /\ DecodesPoints(b, 0, Point, Compress, Decompress(b))
    /\ n = ScalarBytes => Decodes(b, Field, ScalarToBytes, FromCanonicalBytes(b))
    /\ n = SubShareWidth => Decodes(b, SubShares, SubShareBytes, SubShareOf(b))
    /\ \A t \in 0 .. 2 :
            IF n = Word + PointBytes * t
            THEN DecodesPoints(b, Word, Commitments(t), CommitmentBytes, CommitmentOf(b, t))
            ELSE CommitmentOf(b, t) = {}
    /\ \A t \in 0 .. 2 :
            IF n = PointBytes * t /\ t # 0
            THEN DecodesPoints(b, 0, [1 .. t -> Point], Points, SharePolynomialOf(b, t))
            ELSE SharePolynomialOf(b, t) = {}
    /\ \A w \in 1 .. n : 2 * w <= n => ReadsIndex(b, w)
    /\ n = 1 => Differ(Signed(b[1]), ContextBytes)
    /\ n = 1 => Differ(Complaints(b[1]), ComplaintBody)
    /\ n = 1 => Differ(RoundOnes, LAMBDA R : EchoBytes(b[1], 2, 2, R))
=============================================================================
