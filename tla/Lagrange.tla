------------------------------ MODULE Lagrange ------------------------------
(***************************************************************************)
(* Lagrange coefficients at zero by the common-denominator technique       *)
(* (src/lagrange.rs) and polynomial evaluation by Horner's rule, over the  *)
(* integers modulo a prime.                                                *)
(***************************************************************************)
EXTENDS Integers, Sequences, SequencesExt, Functions

CONSTANT P  \* order of the scalar field; larger than every index in use

Field == 0 .. P - 1

\* The nonzero scalars have inverses.
ASSUME FieldAssumption ==
    /\ P \in Nat \ {0, 1}
    /\ \A a \in Field \ {0} : \E b \in Field : (a * b) % P = 1

Add(a, b) == (a + b) % P
Mul(a, b) == (a * b) % P
Minus(a, b) == (a - b + P) % P
Invert(a) == CHOOSE b \in Field : Mul(a, b) = 1

Product(f, S) == FoldFunctionOnSet(Mul, 1, f, S)
Sum(f, S)     == FoldFunctionOnSet(Add, 0, f, S)

-----------------------------------------------------------------------------
(* Polynomials: a[k] is the coefficient of x^(k-1) *)

\* Mutant: the constant term is multiplied too.
HornerShifted(a, x) == FoldRight(LAMBDA c, acc : Mul(Add(acc, c), x), a, 0)

\* Horner's rule, from the last coefficient down
Evaluate(a, x) == FoldRight(LAMBDA c, acc : Add(Mul(acc, x), c), a, 0)

-----------------------------------------------------------------------------
(* compute_lagrange_coefficients *)

\* Mutant: duplicates are looked for without sorting, among neighbours only.
RefusedNeighbours(indices) ==
    \/ indices = <<>>
    \/ 0 \in Range(indices)
    \/ \E i \in 1 .. Len(indices) - 1 : indices[i] = indices[i + 1]

\* EmptyContributions, InvalidIndex and DuplicateIndex
Refused(indices) ==
    \/ indices = <<>>
    \/ 0 \in Range(indices)
    \/ ~IsInjective(indices)

\* d_i, the denominators
Denominators(indices) ==
    [i \in DOMAIN indices |->
        Mul(indices[i], Product([j \in DOMAIN indices |-> Minus(indices[j], indices[i])],
                                DOMAIN indices \ {i}))]

\* The forward pass: products of what comes before each place
Before(d) ==
    LET rho[i \in 1 .. Len(d)] == IF i = 1 THEN 1 ELSE Mul(rho[i - 1], d[i - 1])
    IN rho

\* Mutant: the suffix takes its own factor in before it is used.
FromOn(d) ==
    LET suffix[i \in 0 .. Len(d)] ==
            IF i = Len(d) THEN d[i] ELSE IF i = 0 THEN suffix[1] ELSE Mul(suffix[i + 1], d[i])
    IN suffix

\* The backward pass: the running suffix product when it stands at each place;
\* After(d)[0] is where it ends, the common denominator.
After(d) ==
    LET suffix[i \in 0 .. Len(d)] == IF i = Len(d) THEN 1 ELSE Mul(suffix[i + 1], d[i + 1])
    IN suffix

\* One inversion for all.  For one index it gives 1, the code's special case.
Coefficients(indices) ==
    LET d == Denominators(indices)
        delta == Mul(Product(indices, DOMAIN indices), Invert(After(d)[0]))
    IN [i \in DOMAIN indices |-> Mul(delta, Mul(Before(d)[i], After(d)[i]))]
=============================================================================
