-------------------------- MODULE MCNestedSigning --------------------------
(***************************************************************************)
(* Four inner holders, the fourth corrupt and any three a quorum, so that  *)
(* two quorums meet in an honest holder; the coordinator may ask for two   *)
(* messages, of which the third holder approves one only.                  *)
(***************************************************************************)
EXTENDS NestedSigning

MCApproved == [k \in Holder |-> Message \ (IF k = 3 THEN {"burn"} ELSE {})]

Pair(k, s) == [holder |-> k, session |-> s, draw |-> 1]
As(k, s, n) == [holder |-> k, session |-> s, pair |-> n]

\* The corrupt holder's own commitment, in each round
MCOwn == {As(4, s, Pair(4, s)) : s \in Session}

\* A commitment of the first round relabelled as of the second, as its holder's
\* or as the corrupt holder's
MCRelabelled == MCOwn \cup {As(2, 2, Pair(2, 1)), As(4, 2, Pair(2, 1))}
=============================================================================
