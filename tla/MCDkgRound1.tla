---------------------------- MODULE MCDkgRound1 ----------------------------
(***************************************************************************)
(* Three participants, the third one faulty: it equivocates on a higher    *)
(* coefficient under one valid proof of knowledge, deals a polynomial of   *)
(* the wrong degree, forges a proof and quotes indices out of range.       *)
(***************************************************************************)
EXTENDS DkgRound1

Poly(d, c0, tail, len) == [dealer |-> d, c0 |-> c0, tail |-> tail, len |-> len]
Proven(c, e) == [commitment |-> c,
                 proof |-> [dealer |-> c.dealer, epoch |-> e, c0 |-> c.c0]]

MCFaultyPackages ==
    {Proven(Poly(3, 5, 5, 2), 2), Proven(Poly(3, 5, 6, 2), 2),
     Proven(Poly(3, 5, 5, 1), 2), Proven(Poly(3, 7, 7, 2), 1),
     Proven(Poly(0, 5, 5, 2), 2), Proven(Poly(4, 5, 5, 2), 2)}
=============================================================================
