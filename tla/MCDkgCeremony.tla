--------------------------- MODULE MCDkgCeremony ---------------------------
(***************************************************************************)
(* Instances of the key generation with three participants and threshold   *)
(* two.  The faulty third one may equivocate in round 1 or forge a proof,  *)
(* send a good or an off-polynomial sub-share in round 2, and sign         *)
(* complaints against an honest dealer over evidence that it made up.      *)
(***************************************************************************)
EXTENDS DkgCeremony

Poly(d, c0, tail) == [dealer |-> d, c0 |-> c0, tail |-> tail, len |-> 2]
Proven(c, e) == [commitment |-> c,
                 proof |-> [dealer |-> c.dealer, epoch |-> e, c0 |-> c.c0]]

A == Poly(3, 5, 5)
B == Poly(3, 5, 6)
Honest1 == Poly(1, 2, 2)

\* Round-1 packages: two commitments, or one with the proof of another epoch
MCEquivocating == {Proven(A, 2), Proven(B, 2)}
MCForging      == {Proven(A, 2), Proven(A, 1)}
MCNone         == {}

\* Round-2 packages: good for A, good for B, one that promises B over a scalar
\* of A, and one that does not open
Package(opens, on, digest) ==
    [dealer |-> 3, opens |-> opens, on |-> on, digest |-> digest]
MCGoodSealed   == {Package(TRUE, A, A)}
MCFaultySealed ==
    {Package(TRUE, A, A), Package(TRUE, B, B), Package(TRUE, A, B), Package(FALSE, A, A)}

\* A round-1 complaint over a package that dealer 1 never sent, with a proof
\* of an earlier epoch
MCMadeUp ==
    {[kind |-> "pok", accuser |-> 3, accused |-> 1,
      evidence |-> [commitment |-> Honest1, proof |-> Proven(Honest1, 1).proof]]}

\* Two complaints of one accuser about one dealer, each over a scalar that it
\* made up
MCTwice ==
    {[kind |-> "subshare", accuser |-> 3, accused |-> 1,
      evidence |-> [on |-> on, digest |-> Honest1]] : on \in {None, A}}
=============================================================================
