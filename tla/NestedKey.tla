----------------------------- MODULE NestedKey -----------------------------
(***************************************************************************)
(* Key generation for a nested position (src/nested.rs): the position's    *)
(* outer polynomial is born shared among the inner holders, one inner DKG  *)
(* per coefficient; every flat participant splits its evaluation at the    *)
(* position among the holders; and each holder adds up what it has.        *)
(*                                                                         *)
(* A group element g^x is written as x, and so a commitment as the         *)
(* polynomial it commits to.                                               *)
(***************************************************************************)
EXTENDS Lagrange, FiniteSets

CONSTANTS
    Holder,     \* inner holders, 1 .. inner_n
    InnerT,     \* inner_t
    Position,   \* the nested position's index in the outer group
    Flat,       \* the other participants of the outer group
    FaultyFlat, \* those of them that may split anything and send anything
    Outer,      \* Outer[i]: the outer polynomial of the flat participant i
    Draws,      \* draws of one interleaved DKG: [coefficient][holder] polynomials
    Tails,      \* random coefficients of a split: lists of InnerT - 1 scalars
    None

ASSUME NestedKeyAssumption ==
    /\ Holder \subseteq 1 .. P - 1 /\ Flat \cup {Position} \subseteq 1 .. P - 1
    /\ Position \notin Flat /\ FaultyFlat \subseteq Flat
    /\ InnerT \in 1 .. Cardinality(Holder)
    /\ Tails \subseteq [1 .. InnerT - 1 -> Field]

\* One inner DKG for each coefficient of the outer polynomials, which all have
\* the outer threshold's length
ASSUME DrawsAssumption ==
    /\ \A draw \in Draws : draw # <<>> /\ draw \in Seq([Holder -> [1 .. InnerT -> Field]])
    /\ \A i \in Flat : /\ Outer[i] \in Seq(Field)
                      /\ \A draw \in Draws : Len(Outer[i]) = Len(draw)

VARIABLES
    coefficients, \* the published g^{a_j} of the position's outer polynomial
    inner,        \* inner[k]: holder k's InnerShare
    split,        \* split[i]: the published commitment of i's split
    pieces,       \* pieces[k]: verified pieces by flat participant
    sigma         \* sigma[k]: holder k's combined share

keyVars == <<coefficients, inner, split, pieces, sigma>>

-----------------------------------------------------------------------------

\* Mutant: the power is raised before it is used.
PowersFromOne(a, x) ==
    FoldLeft(LAMBDA acc, c : [power |-> Mul(acc.power, x),
                              sum   |-> Add(acc.sum, Mul(c, Mul(acc.power, x)))],
             [power |-> 1, sum |-> 0], a).sum

\* InnerShare::eval_at, and the evaluation in split_evaluation_for_inner:
\* powers from the first coefficient up
EvalAt(a, x) ==
    FoldLeft(LAMBDA acc, c : [power |-> Mul(acc.power, x),
                              sum   |-> Add(acc.sum, Mul(c, acc.power))],
             [power |-> 1, sum |-> 0], a).sum

\* Each coefficient's commitment is the sum of its dealers' constant terms.
CoefficientCommitments(draw) ==
    [j \in DOMAIN draw |-> Sum([d \in Holder |-> draw[j][d][1]], Holder)]

ASSUME NoneAssumption == None \notin {CoefficientCommitments(draw) : draw \in Draws}

\* Dealer::generate_subshare, of the dealer of polynomial a to player k
GenerateSubshare(a, k) == Evaluate(a, k)

\* Mutant: a holder's own contribution is left out.
OthersShares(draw, k) ==
    [j \in DOMAIN draw |->
        Sum([d \in Holder |-> GenerateSubshare(draw[j][d], k)], Holder \ {k})]

\* Holder k's share of each coefficient: the sum of all dealers' sub-shares
InnerShares(draw, k) ==
    [j \in DOMAIN draw |-> Sum([d \in Holder |-> GenerateSubshare(draw[j][d], k)], Holder)]

\* split_evaluation_for_inner's polynomial
SplitPolynomial(evaluation, tail) == <<evaluation>> \o tail

\* Mutant: any piece passes.
AnyPiece(c, k, v) == k # 0

\* verify_split_piece
VerifySplitPiece(c, k, v) == k # 0 /\ v = Evaluate(c, k)

\* Mutant: the position's own polynomial is evaluated at the holder's index.
CombinedAtHolder(k) ==
    Add(EvalAt(inner[k], k), Sum(pieces[k], DOMAIN pieces[k]))

\* combine_shares
Combined(k) ==
    Add(EvalAt(inner[k], Position), Sum(pieces[k], DOMAIN pieces[k]))

-----------------------------------------------------------------------------

KeyInit ==
    /\ coefficients = None
    /\ inner  = [k \in Holder |-> None]
    /\ split  = [i \in Flat |-> None]
    /\ pieces = [k \in Holder |-> <<>>]
    /\ sigma  = [k \in Holder |-> None]

\* interleaved_dkg, which runs all dealers in one process
InterleavedDkg(draw) ==
    /\ coefficients = None
    /\ coefficients' = CoefficientCommitments(draw)
    /\ inner' = [k \in Holder |-> InnerShares(draw, k)]
    /\ UNCHANGED <<split, pieces, sigma>>

\* A flat participant splits its evaluation and publishes the commitment.
SplitEvaluation(i, evaluation, tail) ==
    /\ split[i] = None
    /\ i \notin FaultyFlat => evaluation = Evaluate(Outer[i], Position)
    /\ split' = [split EXCEPT ![i] = SplitPolynomial(evaluation, tail)]
    /\ UNCHANGED <<coefficients, inner, pieces, sigma>>

\* A piece arrives; one that does not verify is dropped.  That one more of the
\* same participant is dropped too is the caller's part: combine_shares does not
\* read the indices, and sums whatever pieces it is given.
TakePiece(k, i, v) ==
    /\ split[i] # None
    /\ i \notin FaultyFlat => v = EvalAt(split[i], k)
    /\ VerifySplitPiece(split[i], k, v)
    /\ i \notin DOMAIN pieces[k]
    /\ pieces' = [pieces EXCEPT
            ![k] = [f \in DOMAIN @ \cup {i} |-> IF f = i THEN v ELSE @[f]]]
    /\ UNCHANGED <<coefficients, inner, split, sigma>>

\* The holder has a piece of everybody, which is its caller's part as well, and
\* its share of the coefficients.
Combine(k) ==
    /\ inner[k] # None
    /\ DOMAIN pieces[k] = Flat
    /\ sigma[k] = None
    /\ sigma' = [sigma EXCEPT ![k] = Combined(k)]
    /\ UNCHANGED <<coefficients, inner, split, pieces>>

KeyNext ==
    \/ \E draw \in Draws : InterleavedDkg(draw)
    \/ \E i \in Flat, e \in Field, t \in Tails : SplitEvaluation(i, e, t)
    \/ \E k \in Holder, i \in Flat, v \in Field : TakePiece(k, i, v)
    \/ \E k \in Holder : Combine(k)

-----------------------------------------------------------------------------
(* Properties *)

\* What a set of holders reconstructs of what each of them has
Interpolated(Q, share) ==
    LET q == SetToSeq(Q) IN
    Sum([n \in DOMAIN q |-> Mul(Coefficients(q)[n], share[q[n]])], DOMAIN q)

\* A flat participant j is dealt f_p(j) by holders that evaluate their shares of
\* the coefficients at j: every quorum deals it the same value, the one that the
\* published coefficient commitments promise, as a flat dealer's do.
QuorumDealsToFlat ==
    coefficients # None =>
        \A Q \in {S \in SUBSET Holder : Cardinality(S) = InnerT}, j \in Flat :
            Interpolated(Q, [k \in Holder |-> EvalAt(inner[k], j)]) = Evaluate(coefficients, j)

\* Any quorum of holders that have combined holds the position's outer share:
\* what the position's commitments and the split commitments add up to there,
\* which for honest flat participants is their outer polynomials' value.  Pieces
\* came in any order, and a faulty participant sent what it liked.
QuorumHoldsOuterShare ==
    LET done == {k \in Holder : sigma[k] # None} IN
    \A Q \in {S \in SUBSET done : Cardinality(S) = InnerT} :
        Interpolated(Q, sigma) =
            Add(Evaluate(coefficients, Position),
                Sum([i \in Flat |-> IF i \in FaultyFlat THEN split[i][1]
                                    ELSE Evaluate(Outer[i], Position)], Flat))

\* The shares that the outer group ends up with, the position's among them,
\* recover the outer group key from any threshold of participants, whichever
\* quorum Q of holders speaks for the position; if every split commitment starts
\* with the dealer's commitment evaluated there, which is for its reader to check.
GroupKeyRecovered ==
    LET done == {k \in Holder : sigma[k] # None}
        group == Flat \cup {Position}
        polynomial(i) == IF i = Position THEN coefficients ELSE Outer[i]
        share(Q, i) ==
            IF i = Position THEN Interpolated(Q, sigma)
            ELSE Add(Sum([j \in Flat |-> GenerateSubshare(Outer[j], i)], Flat),
                     Interpolated(Q, [k \in Holder |-> EvalAt(inner[k], i)]))
    IN \A Q \in {S \in SUBSET done : Cardinality(S) = InnerT} :
        (\A i \in Flat : split[i][1] = Evaluate(Outer[i], Position)) =>
            \A R \in {S \in SUBSET group : Cardinality(S) = Len(coefficients)} :
                Interpolated(R, [i \in R |-> share(Q, i)]) =
                    Sum([i \in group |-> polynomial(i)[1]], group)

\* The position is one participant of the outer group, whichever quorum of
\* holders speaks for it: it deals what its commitments say, and holds its share.
QuorumsReconstruct == QuorumDealsToFlat /\ QuorumHoldsOuterShare /\ GroupKeyRecovered
=============================================================================
