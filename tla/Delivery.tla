------------------------------ MODULE Delivery ------------------------------
(***************************************************************************)
(* What the sealed round-2 channel promises, with nothing of keys and      *)
(* envelopes: a recipient takes from an honest dealer only the sub-share   *)
(* that this dealer dealt to it in this ceremony, and from any other       *)
(* dealer only the value of the agreed commitment at its own index.        *)
(***************************************************************************)
CONSTANTS
    Recipient,  \* honest participants; they are honest dealers as well
    Dealer,     \* every participant
    ShareOf,    \* ShareOf[d][p]: the value of d's agreed commitment at p
    Agreed      \* dealers with a commitment in the agreed set

VARIABLES
    dealt,      \* honest dealers that have dealt
    taken       \* taken[p]: the sub-shares p has accepted, with their dealers

Init == dealt = {} /\ taken = [p \in Recipient |-> {}]

Deal(d) ==
    /\ d \in Recipient
    /\ dealt' = dealt \cup {d}
    /\ UNCHANGED taken

Take(p, d) ==
    /\ d \in Agreed
    /\ d \in Recipient => d \in dealt
    /\ taken' = [taken EXCEPT ![p] = @ \cup {[dealer |-> d, value |-> ShareOf[d][p]]}]
    /\ UNCHANGED dealt

Next == \E d \in Dealer : Deal(d) \/ \E p \in Recipient : Take(p, d)

Spec == Init /\ [][Next]_<<dealt, taken>>
=============================================================================
