---------------------------- MODULE BatchVerify ----------------------------
(***************************************************************************)
(* batch_verify_subshares (src/reshare.rs): many Feldman checks in one, by *)
(* a random linear combination.  A group element g^x is written as x.      *)
(***************************************************************************)
EXTENDS Lagrange

\* Mutant: sub-shares and commitments are zipped by position.
CommitmentByPlace(s, n, commitments) == commitments[n]

\* The first commitment of the sub-share's dealer, the n-th sub-share being s
CommitmentFor(s, n, commitments) ==
    commitments[Min({k \in DOMAIN commitments : commitments[k].dealer = s.dealer})]

\* What one sub-share needs for its place in the sum
Pairable(player, s, commitments) ==
    /\ s.player = player
    /\ \E c \in Range(commitments) : c.dealer = s.dealer
    /\ player # 0

\* Mutant: the weights of a batch are one weight.
BatchUnderOneWeight(player, subshares, commitments, w) ==
    /\ Len(subshares) = Len(commitments) /\ subshares # <<>>
    /\ \A n \in DOMAIN subshares : Pairable(player, subshares[n], commitments)
    /\ LET d == DOMAIN subshares IN
       Sum([n \in d |-> Mul(w[1], subshares[n].value)], d) =
       Sum([n \in d |-> Mul(w[1], Evaluate(
                CommitmentFor(subshares[n], n, commitments).coefficients, player))], d)

\* batch_verify_subshares, when w is drawn
BatchVerify(player, subshares, commitments, w) ==
    /\ Len(subshares) = Len(commitments) /\ subshares # <<>>
    /\ \A n \in DOMAIN subshares : Pairable(player, subshares[n], commitments)
    /\ LET d == DOMAIN subshares IN
       Sum([n \in d |-> Mul(w[n], subshares[n].value)], d) =
       Sum([n \in d |-> Mul(w[n], Evaluate(
                CommitmentFor(subshares[n], n, commitments).coefficients, player))], d)
=============================================================================
