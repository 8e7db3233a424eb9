------------------------------ MODULE Handover ------------------------------
(***************************************************************************)
(* What a reshare promises, with nothing of how: each new player that gets *)
(* a result gets it once, a result is a public polynomial through the old  *)
(* group key and the player's value on it, and all players get the same    *)
(* polynomial.                                                             *)
(***************************************************************************)
EXTENDS Integers

CONSTANTS
    Field,          \* the scalars
    Evaluate(_, _), \* Evaluate(a, x): the value at x of the polynomial a
    Player,         \* new players
    NewThreshold,   \* coefficients of the new polynomial
    Secret,         \* the secret the group key stands for
    None

VARIABLE result     \* result[p]: its share and the public polynomial

Init == result = [p \in Player |-> None]

Obtain(p, a) ==
    /\ result[p] = None
    /\ a[1] = Secret
    /\ \A q \in Player : result[q] # None => result[q].polynomial = a
    /\ result' = [result EXCEPT ![p] = [share |-> Evaluate(a, p), polynomial |-> a]]

Next == \E p \in Player : \E a \in [1 .. NewThreshold -> Field] : Obtain(p, a)

Spec == Init /\ [][Next]_result
=============================================================================
