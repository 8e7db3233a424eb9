------------------------------- MODULE OneKey -------------------------------
(***************************************************************************)
(* What the key generation promises, with nothing of how: every honest     *)
(* participant that gets a result gets it once, all results are the same   *)
(* key, and a key is a sum of one polynomial per dealer over at least T    *)
(* dealers, in which an honest dealer's part is the one it drew.           *)
(***************************************************************************)
EXTENDS Integers, FiniteSets

CONSTANTS
    Node,       \* honest participants
    T,          \* threshold
    Polynomials,\* what a dealer may contribute, each with its dealer
    Drawn,      \* Drawn[d]: what the honest dealer d drew
    None

VARIABLE result \* result[p]: the polynomials p's key and share are sums of

\* Sums of T or more polynomials of distinct dealers.
Key(S) ==
    /\ S \subseteq Polynomials
    /\ \A c, e \in S : c.dealer = e.dealer => c = e
    /\ Cardinality(S) >= T
    /\ \A c \in S : c.dealer \in Node => c = Drawn[c.dealer]

Init == result = [p \in Node |-> None]

Obtain(p, S) ==
    /\ result[p] = None
    /\ result' = [result EXCEPT ![p] = S]
    /\ Key(S)
    /\ \A q \in Node : result[q] \in {None, S}

Next == \E p \in Node : \E S \in SUBSET Polynomials : Obtain(p, S)

Spec == Init /\ [][Next]_result
=============================================================================
