------------------------------- MODULE Reshare -------------------------------
(***************************************************************************)
(* Proactive resharing (src/reshare.rs).  Old holders commit to            *)
(* polynomials whose constant terms are their shares; a ReshareState       *)
(* collects the commitments; a manifest fixes the dealer set; each new     *)
(* player aggregates one sub-share from every dealer of the set.           *)
(*                                                                         *)
(* Scalars are integers modulo P.  A group element g^x is written as x:    *)
(* nothing here takes a logarithm.  A Schnorr proof is what its challenge  *)
(* hashes, and there is one only if somebody held the constant term.       *)
(***************************************************************************)
EXTENDS Lagrange, FiniteSets

CONSTANTS
    Dealers,        \* old_dealer_count; dealer indices run from 1
    OldThreshold,   \* old_threshold
    NewThreshold,   \* new_threshold
    Player,         \* indices of the new players
    Faulty,         \* dealers that need not follow the protocol
    Epoch,          \* target_epoch
    Standing,       \* Standing[e]: the polynomial behind the shares that are
                    \* dealt in epoch e, for this epoch and an earlier one
    Drawn,          \* Drawn[d]: the other coefficients dealer d draws
    FaultySubmissions, \* commitments with proofs that faulty dealers submit
    FaultySubShares,   \* sub-shares with commitments that they send
    FromState,      \* players look commitments up in the ReshareState
    None

Dealer == 1 .. Dealers
Honest == Dealer \ Faulty

\* What the group key stands for
Secret == Standing[Epoch][1]

ASSUME SizeAssumption ==
    /\ Dealers \in Nat /\ OldThreshold \in 1 .. Dealers /\ NewThreshold \in Nat \ {0}
    /\ Dealer \cup Player \subseteq Field \ {0}
ASSUME StandingAssumption ==
    /\ Epoch \in DOMAIN Standing
    /\ \A e \in DOMAIN Standing : Standing[e] \in [1 .. OldThreshold -> Field]
ASSUME DrawnAssumption == \A d \in Honest : Drawn[d] \in Seq(Field)
ASSUME SwitchAssumption == FromState \in BOOLEAN

VARIABLES
    commitments,    \* ReshareState.commitments
    manifest,       \* the dealer set of the signed epoch manifest
    dealerSet,      \* Aggregator.dealer_set of each new player
    added,          \* added[p]: sub-shares p has verified, in order of arrival
    result          \* result[p]: what p's finalize returned

vars == <<commitments, manifest, dealerSet, added, result>>

-----------------------------------------------------------------------------
(* Dealers *)

\* Dealer::new, for the share d holds in epoch e
Polynomial(d, e) == <<Evaluate(Standing[e], d)>> \o Drawn[d]

\* What d publishes: Dealer::commitment and a proof for its constant term.
Submission(d, a, e, domain) ==
    [commitment |-> [dealer |-> d, coefficients |-> a],
     proof |-> [domain |-> domain, dealer |-> d, epoch |-> e, constant |-> a[1]]]

Genuine(d, e) == Submission(d, Polynomial(d, e), e, "reshare")

\* Whatever was published once can be submitted again: of an earlier epoch, or
\* of a key generation that bears the number of this epoch.
Submissions ==
    FaultySubmissions
        \cup {Genuine(d, e) : d \in Honest, e \in DOMAIN Standing}
        \cup {Submission(d, <<d>> \o Drawn[d], Epoch, "dkg") : d \in Honest}

\* Dealer::generate_subshare, for player p
SubShare(d, p) ==
    [dealer |-> d, player |-> p, value |-> Evaluate(Polynomial(d, Epoch), p),
     commitment |-> Genuine(d, Epoch).commitment]

Wire == FaultySubShares \cup {SubShare(d, p) : d \in Honest, p \in Player}

ASSUME NoneAssumption == None \notin {s.commitment : s \in Submissions}

\* The caller's channel authenticates senders, and decoding yields scalars.
ASSUME SubmissionsAssumption ==
    /\ \A s \in FaultySubmissions : s.commitment.dealer \notin Honest
    /\ \A s \in Submissions : s.commitment.coefficients \in Seq(Field)

-----------------------------------------------------------------------------
(* ReshareState *)

\* Mutants: the challenge leaves out the epoch, or the domain.
PossessionInAnyEpoch(s) ==
    s.proof = [domain |-> "reshare", dealer |-> s.commitment.dealer,
               epoch |-> s.proof.epoch, constant |-> s.commitment.coefficients[1]]
PossessionInAnyDomain(s) ==
    s.proof = [domain |-> s.proof.domain, dealer |-> s.commitment.dealer,
               epoch |-> Epoch, constant |-> s.commitment.coefficients[1]]

\* verify_possession under this state's epoch
Possession(s) ==
    s.proof = [domain |-> "reshare", dealer |-> s.commitment.dealer,
               epoch |-> Epoch, constant |-> s.commitment.coefficients[1]]

\* Mutant: the last commitment wins.
SlotOverwritten(c) == TRUE

SlotFree(c) == commitments[c.dealer] = None

Committed == {d \in Dealer : commitments[d] # None}

\* Mutant: one commitment is enough.
AnyCommitted == Committed # {}

HasQuorum == Cardinality(Committed) >= OldThreshold

\* dealer_set: the lowest indices that have committed, None before quorum
DealerSet ==
    IF HasQuorum
    THEN {d \in Committed : Cardinality({e \in Committed : e < d}) < OldThreshold}
    ELSE None

\* S in ascending order
Ascending(S) ==
    CHOOSE q \in [1 .. Cardinality(S) -> S] :
        \A i, j \in DOMAIN q : i < j => q[i] < q[j]

\* Lagrange weights over each set of indices, by index
Weight ==
    [S \in (SUBSET (Dealer \cup Player)) \ {{}} |->
        LET order == Ascending(S)
        IN [d \in S |->
                Coefficients(order)[CHOOSE i \in DOMAIN order : order[i] = d]]]

\* verify_group_key
VerifyGroupKey ==
    Sum([d \in DealerSet |-> Mul(Weight[DealerSet][d], commitments[d].coefficients[1])],
        DealerSet) = Secret

-----------------------------------------------------------------------------
(* Aggregator *)

\* The commitment a caller hands over with a sub-share; add_subshare takes it
\* as it comes.
Supplied(m) == IF FromState THEN commitments[m.dealer] ELSE m.commitment

\* Mutant: what has arrived from this dealer is not looked at.
AddedBefore(p, m) == FALSE

Duplicate(p, m) == \E i \in DOMAIN added[p] : added[p][i].dealer = m.dealer

\* add_subshare answers Ok(true); its refusals, and add_subshares_batch when it
\* swallows them, leave the aggregator as it was.  The threshold is that of
\* whatever was accepted first.
Acceptable(p, m) ==
    LET c == Supplied(m) IN
    /\ m.player = p
    /\ m.dealer \in dealerSet[p]
    /\ m.dealer = c.dealer
    /\ added[p] # <<>> =>
            Len(c.coefficients) = Len(added[p][1].commitment.coefficients)
    /\ ~Duplicate(p, m)
    /\ Evaluate(c.coefficients, p) = m.value

IsComplete(p) == Len(added[p]) = Cardinality(dealerSet[p])

\* subshare_of and commitment_of
Of(p, d) == added[p][CHOOSE i \in DOMAIN added[p] : added[p][i].dealer = d]

\* Mutant: weights go to sub-shares by order of arrival.
WeightByArrival(p, d) ==
    Coefficients(Ascending(dealerSet[p]))
        [CHOOSE i \in DOMAIN added[p] : added[p][i].dealer = d]

WeightOf(p, d) == Weight[dealerSet[p]][d]

Combined(p, f(_)) ==
    Sum([d \in dealerSet[p] |-> Mul(WeightOf(p, d), f(Of(p, d)))], dealerSet[p])

\* polynomial and aggregate
NewPolynomial(p) ==
    [k \in 1 .. Len(added[p][1].commitment.coefficients) |->
        Combined(p, LAMBDA s : s.commitment.coefficients[k])]
NewShare(p) == Combined(p, LAMBDA s : s.value)

\* Mutant: the group key is not compared.
AnyGroupKey(a) == TRUE

GroupKeyKept(a) == a[1] = Secret

\* SharePolynomial::verify_share: x is player p's value on a
VerifyShare(a, p, x) == p # 0 /\ x = Evaluate(a, p)

-----------------------------------------------------------------------------

Init ==
    /\ commitments = [d \in Dealer |-> None]
    /\ manifest  = None
    /\ dealerSet = [p \in Player |-> None]
    /\ added  = [p \in Player |-> <<>>]
    /\ result = [p \in Player |-> None]

\* submit_commitment answers Ok(true)
SubmitCommitment(s) ==
    LET c == s.commitment IN
    /\ Possession(s)
    /\ c.dealer \in Dealer
    /\ Len(c.coefficients) = NewThreshold
    /\ SlotFree(c)
    /\ commitments' = [commitments EXCEPT ![c.dealer] = c]
    /\ UNCHANGED <<manifest, dealerSet, added, result>>

\* The callers put dealer_set in the signed epoch manifest, once.
Publish ==
    /\ manifest = None
    /\ DealerSet # None
    /\ manifest' = DealerSet
    /\ UNCHANGED <<commitments, dealerSet, added, result>>

\* Mutant: the player asks the state again instead of taking the manifest.
SetOfTheMoment == DealerSet

AgreedSet == manifest

\* Aggregator::new
NewAggregator(p) ==
    /\ manifest # None
    /\ dealerSet[p] = None
    /\ AgreedSet # {}
    /\ dealerSet' = [dealerSet EXCEPT ![p] = AgreedSet]
    /\ UNCHANGED <<commitments, manifest, added, result>>

AddSubShare(p, m) ==
    /\ dealerSet[p] # None
    /\ Acceptable(p, m)
    /\ added' = [added EXCEPT ![p] =
            Append(@, [dealer |-> m.dealer, value |-> m.value,
                       commitment |-> Supplied(m)])]
    /\ UNCHANGED <<commitments, manifest, dealerSet, result>>

\* finalize answers Ok
Finalize(p) ==
    /\ dealerSet[p] # None
    /\ result[p] = None
    /\ IsComplete(p)
    /\ \E a \in {NewPolynomial(p)}, x \in {NewShare(p)} :
            /\ GroupKeyKept(a)
            /\ VerifyShare(a, p, x)
            /\ result' = [result EXCEPT ![p] = [share |-> x, polynomial |-> a]]
    /\ UNCHANGED <<commitments, manifest, dealerSet, added>>

Next ==
    \/ \E s \in Submissions : SubmitCommitment(s)
    \/ Publish
    \/ \E p \in Player :
        \/ NewAggregator(p)
        \/ \E m \in Wire : AddSubShare(p, m)
        \/ Finalize(p)

Spec == Init /\ [][Next]_vars

\* The channels deliver what honest dealers send, and callers act on it;
\* nothing is asked of the faulty dealers.
HonestStep(p) ==
    \/ NewAggregator(p)
    \/ \E d \in Honest : AddSubShare(p, SubShare(d, p))
    \/ Finalize(p)

Fairness ==
    /\ WF_vars(\E d \in Honest : SubmitCommitment(Genuine(d, Epoch)))
    /\ WF_vars(Publish)
    /\ \A p \in Player : WF_vars(HonestStep(p))

FairSpec == Spec /\ Fairness

-----------------------------------------------------------------------------
(* Properties *)

\* Every variable has its type; an aggregator holds values on the commitments
\* it keeps, of one length.
TypeOK ==
    /\ \A d \in Committed :
            /\ commitments[d].dealer = d
            /\ commitments[d].coefficients \in [1 .. NewThreshold -> Field]
    /\ manifest \in (SUBSET Dealer) \cup {None}
    /\ \A p \in Player : dealerSet[p] # None => dealerSet[p] = manifest
    /\ \A p \in Player : \A i \in DOMAIN added[p] :
            LET s == added[p][i] IN
            /\ s.dealer = s.commitment.dealer
            /\ s.value = Evaluate(s.commitment.coefficients, p)

\* A quorum of honest dealers always interpolates to the group key: no earlier
\* commitment of theirs, of another epoch or another protocol, can be in their
\* slots (verify_group_key).
HonestSetKeepsKey ==
    DealerSet # None /\ DealerSet \subseteq Honest => VerifyGroupKey

\* What subshare_of and commitment_of expect: with as many sub-shares as
\* dealers, there is one of each dealer.
CompleteHasEveryDealer ==
    \A p \in Player :
        dealerSet[p] # None /\ IsComplete(p) =>
            {added[p][i].dealer : i \in DOMAIN added[p]} = dealerSet[p]

\* Any NewThreshold new players hold the old secret between them.
SecretPreserved ==
    \A S \in SUBSET {p \in Player : result[p] # None} :
        Cardinality(S) = NewThreshold =>
            Sum([p \in S |-> Mul(Weight[S][p], result[p].share)], S) = Secret

\* "Identical for every player using the same dealer set": the public
\* polynomials of two players that finalize are one.
SamePolynomial ==
    \A p, q \in Player :
        result[p] # None /\ result[q] # None /\ dealerSet[p] = dealerSet[q] =>
            result[p].polynomial = result[q].polynomial

\* Resharing implements Handover: one polynomial through the old group key,
\* and every result is the player's value on it.
Promise == INSTANCE Handover

ImplementsHandover == Promise!Spec

\* If the manifest names honest dealers only, every new player finalizes, in
\* whatever order the sub-shares arrive and whatever others send.
HonestSetFinalizes ==
    (manifest # None /\ manifest \subseteq Honest) ~>
        (\A p \in Player : result[p] # None)
=============================================================================
