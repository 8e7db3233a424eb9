-------------------------- MODULE MCSealedChannel --------------------------
(***************************************************************************)
(* Two honest participants and a faulty third one that may advertise the   *)
(* key of either of them as its own.  Packages are about of an earlier     *)
(* ceremony and of an earlier round of this one; the honest dealers' old   *)
(* polynomials have a value in common with their new ones.                 *)
(***************************************************************************)
EXTENDS SealedChannel

MCKey == <<"k1", "k2", "k3">>

Entry(i, k) == [index |-> i, key |-> k]
MCArrivals == {
    <<Entry(1, "k1"), Entry(2, "k2"), Entry(3, "k3")>>,
    <<Entry(3, "k3"), Entry(1, "k1"), Entry(2, "k2")>>,
    <<Entry(2, "k2"), Entry(3, "k1"), Entry(1, "k1")>>,
    <<Entry(1, "k1"), Entry(2, "k2"), Entry(3, "k2")>>,
    <<Entry(2, "k2"), Entry(1, "k1")>>,
    <<Entry(2, "k2"), Entry(1, "k1"), Entry(2, "k2")>>,
    <<Entry(3, "k3"), Entry(1, "k1"), Entry(3, "k1"), Entry(2, "k2")>>,
    <<Entry(1, "k1"), Entry(2, "k2"), Entry(0, "k3")>>}

Ceremony(s, n) == [session |-> s, round |-> n]
MCPast == {Ceremony(1, 2), Ceremony(2, 1)}

\* At 1 and at 2 the old values differ from the new ones in one case each.
MCPolynomial ==
    (Ceremony(2, 2) :> <<<<1, 1>>, <<2, 4>>>>) @@
    (Ceremony(1, 2) :> <<<<0, 2>>, <<2, 3>>>>) @@
    (Ceremony(2, 1) :> <<<<1, 1>>, <<0, 0>>>>)

MCCommitment == 3 :> <<4, 2>>

Sealing(d, i, v, c) ==
    [dealer |-> d, player |-> i, value |-> v, digest |-> c, length |-> 72]
Own == [dealer |-> 3, coefficients |-> <<4, 2>>]
MCPlaintext == {
    Sealing(3, 1, 1, Own), Sealing(3, 2, 3, Own),       \* on its polynomial
    Sealing(3, 1, 2, Own),                              \* off it
    Sealing(3, 1, 1, [Own EXCEPT !.coefficients = <<4, 3>>]),
    Sealing(1, 2, 3, Committed(Now, 1)),                \* another's sub-share
    Sealing(0, 1, 1, Own), Sealing(3, 1, P, Own),
    [Sealing(3, 1, 1, Own) EXCEPT !.length = 71]}
=============================================================================
