------------------------------ MODULE MCReshare ------------------------------
(***************************************************************************)
(* Four old holders, two of which are a quorum, reshare to three players.  *)
(* The first two, whose indices come first in every dealer set, are        *)
(* faulty.  They may commit to their shares, to other constant terms, also *)
(* such that cancel in the sum, or to polynomials of another degree.       *)
(***************************************************************************)
EXTENDS Reshare

MCStanding == (1 :> <<3, 4>>) @@ (2 :> <<3, 1>>)
MCDrawn == [d \in Dealer |-> <<d>>]

\* Their shares are 4 and 0.  Over {1, 2} the weights are 2 and -1, so that
\* constant terms 0 and 2 interpolate to the secret as well.
MCConstants == {<<1, 4, 1>>, <<1, 4, 3>>, <<1, 0, 1>>, <<2, 0, 2>>, <<2, 2, 4>>}
MCLone      == {<<1, 4, 1>>, <<1, 4, 3>>, <<1, 0, 1>>}

Committing(c) == [dealer |-> c[1], coefficients |-> <<c[2], c[3]>>]
Submitting(C) ==
    {Submission(c[1], <<c[2], c[3]>>, 2, "reshare") : c \in C}
        \cup {Submission(1, <<4, 1, 1>>, 2, "reshare")}

\* With each value on one of its polynomials it may send the commitment.
Sending(C) ==
    {[dealer |-> c[1], player |-> p, value |-> Evaluate(<<c[2], c[3]>>, p),
      commitment |-> Committing(c)] : p \in Player, c \in C}

MCColluding       == Submitting(MCConstants)
MCColludingShares == Sending(MCConstants)
MCAlone           == Submitting(MCLone)
MCAloneShares     == Sending(MCLone)
==============================================================================
