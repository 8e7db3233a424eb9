----------------------------- MODULE DkgRound1 -----------------------------
(***************************************************************************)
(* Round 1 of the distributed key generation (src/dkg.rs): every honest    *)
(* participant collects the round-1 packages into its own DkgState, closes *)
(* the set with agreed_round1, exchanges echo digests, and opens round 2   *)
(* only after confirm_all.  Disqualification can strike at any point, and  *)
(* the AgreedRound1 handle is a snapshot that it leaves behind.            *)
(*                                                                         *)
(* Group elements are symbolic.  A commitment is named by its constant     *)
(* term c0, by its other coefficients (tail) and by how many it has (len); *)
(* a proof of knowledge is the triple its challenge hashes.                *)
(***************************************************************************)
EXTENDS Integers, FiniteSets

CONSTANTS
    N,              \* num_participants; indices run from 1
    T,              \* threshold
    Faulty,         \* participants that need not follow the protocol
    Epoch,          \* the epoch of this ceremony
    Replayed,       \* earlier epochs whose packages may still be delivered
    FaultyPackages, \* what faulty participants may put on the wire
    None            \* Option::None

Index == 1 .. N
Node  == Index \ Faulty

Commitment   == [dealer : Nat, c0 : Nat, tail : Nat, len : Nat]
Proof        == [dealer : Nat, epoch : Nat, c0 : Nat]
Round1Package == [commitment : Commitment, proof : Proof]

\* DkgState::new takes both as given; T > N is a ceremony nobody can finish.
ASSUME SizeAssumption == N \in Nat \ {0} /\ T \in 1 .. N
ASSUME FaultyAssumption == Faulty \subseteq Index
ASSUME EpochAssumption == Epoch \in Nat /\ Replayed \subseteq Nat \ {Epoch}
ASSUME PackagesAssumption ==
    /\ FaultyPackages \subseteq Round1Package
    /\ \A pkg \in FaultyPackages : pkg.commitment.dealer \notin Node
ASSUME NoneAssumption == None \notin Commitment

VARIABLES
    commitments,    \* DkgState.commitments of each honest participant
    disqualified,   \* DkgState.disqualified
    phase,          \* how far its caller has taken the ceremony
    agreed,         \* commitments of its AgreedRound1 handle ({} before)
    echoes          \* echoes[p][q]: the digest p holds from q, if any

vars == <<commitments, disqualified, phase, agreed, echoes>>

-----------------------------------------------------------------------------
(* Round-1 packages *)

\* Dealer::new draws a fresh polynomial per ceremony: the epoch names the draw.
Genuine(d, e) ==
    [commitment |-> [dealer |-> d, c0 |-> e, tail |-> e, len |-> T],
     proof      |-> [dealer |-> d, epoch |-> e, c0 |-> e]]

\* Mutant: the challenge leaves the epoch out.
PokOfAnyEpoch(pkg, e) ==
    /\ pkg.proof.dealer = pkg.commitment.dealer
    /\ pkg.proof.c0 = pkg.commitment.c0

\* Schnorr verification: the challenge hashes dealer, epoch and C_0 only.
PokVerifies(pkg, e) ==
    pkg.proof = [dealer |-> pkg.commitment.dealer, epoch |-> e,
                 c0     |-> pkg.commitment.c0]

\* The caller's channel authenticates senders and may deliver late.
Deliverable ==
    FaultyPackages \cup
        {Genuine(d, e) : d \in Node, e \in {Epoch} \cup Replayed}

-----------------------------------------------------------------------------
(* DkgState *)

Qualified(p) == {d \in Index : commitments[p][d] # None}
Recorded(p)  == {commitments[p][d] : d \in Qualified(p)}

IsComplete(p) ==
    Cardinality(Qualified(p)) + Cardinality(disqualified[p]) = N

\* Mutants of the conditions below: a disqualified dealer is let back in, the
\* last package wins, the degree is not checked.
AdmissibleAfterwards(p, pkg) ==
    LET c == pkg.commitment IN
    /\ PokVerifies(pkg, Epoch)
    /\ c.dealer \in Index /\ c.len = T /\ commitments[p][c.dealer] = None
AdmissibleAgain(p, pkg) ==
    LET c == pkg.commitment IN
    /\ PokVerifies(pkg, Epoch)
    /\ c.dealer \in Index \ disqualified[p] /\ c.len = T
AdmissibleAnyDegree(p, pkg) ==
    LET c == pkg.commitment IN
    /\ PokVerifies(pkg, Epoch)
    /\ c.dealer \in Index \ disqualified[p] /\ commitments[p][c.dealer] = None

\* submit_commitment answers Ok(true); every refusal and the duplicate leave
\* the state as it was.
Admissible(p, pkg) ==
    LET c == pkg.commitment IN
    /\ PokVerifies(pkg, Epoch)
    /\ c.dealer \in Index \ disqualified[p]
    /\ c.len = T
    /\ commitments[p][c.dealer] = None

\* Mutants: the slot keeps its commitment; the count is taken before the push.
SlotKept(p, d)       == commitments
RemainingStale(p, d) == N - Cardinality(disqualified[p])

\* The state after DkgState::disqualify; below the threshold it also reports
\* DkgAborted, and the slot and the list are already changed by then.
SlotDropped(p, d) == [commitments EXCEPT ![p][d] = None]
Remaining(p, d)   == N - Cardinality(disqualified[p] \cup {d})

-----------------------------------------------------------------------------
(* AgreedRound1 *)

\* Mutant: only the constant terms are hashed.
EchoDigestOfConstants(S) ==
    [epoch |-> Epoch, threshold |-> T, participants |-> N,
     commitments |-> {[c EXCEPT !.tail = 0] : c \in S}]

\* What the echo digest hashes; SHA-512 is taken to be injective.
EchoDigest(S) ==
    [epoch |-> Epoch, threshold |-> T, participants |-> N, commitments |-> S]

\* Mutant: the participant's own digest is not counted.
HeardFromOthers(p) == {q \in Index \ {p} : echoes[p][q] # {}}

Heard(p) == {q \in Index : echoes[p][q] # {}}

\* confirm for every echo in hand
EchoesMatch(p) ==
    \A q \in Heard(p) : echoes[p][q] = {EchoDigest(agreed[p])}

-----------------------------------------------------------------------------

Init ==
    /\ commitments  = [p \in Node |-> [d \in Index |-> None]]
    /\ disqualified = [p \in Node |-> {}]
    /\ phase  = [p \in Node |-> "collecting"]
    /\ agreed = [p \in Node |-> {}]
    /\ echoes = [p \in Node |-> [q \in Index |-> {}]]

SubmitCommitment(p, pkg) ==
    /\ phase[p] # "aborted"
    /\ Admissible(p, pkg)
    /\ commitments' =
        [commitments EXCEPT ![p][pkg.commitment.dealer] = pkg.commitment]
    /\ UNCHANGED <<disqualified, phase, agreed, echoes>>

\* disqualify, with the caller obeying DkgAborted
Disqualify(p, d) ==
    /\ phase[p] # "aborted"
    /\ commitments'  = SlotDropped(p, d)
    /\ disqualified' = [disqualified EXCEPT ![p] = @ \cup {d}]
    /\ phase' = IF Remaining(p, d) < T
                  THEN [phase EXCEPT ![p] = "aborted"] ELSE phase
    /\ UNCHANGED <<agreed, echoes>>

\* agreed_round1: the handle is a copy; the caller broadcasts its digest
AgreeRound1(p) ==
    /\ phase[p] = "collecting"
    /\ IsComplete(p)
    /\ agreed' = [agreed EXCEPT ![p] = Recorded(p)]
    /\ echoes' = [echoes EXCEPT ![p][p] = {EchoDigest(Recorded(p))}]
    /\ phase'  = [phase EXCEPT ![p] = "echoing"]
    /\ UNCHANGED <<commitments, disqualified>>

\* What q may have broadcast: an honest participant its own digest, a faulty
\* one any participant's digest or one that matches nobody's.
EchoesFrom(q) ==
    IF q \in Node
      THEN IF phase[q] \in {"echoing", "confirmed"}
             THEN {EchoDigest(agreed[q])} ELSE {}
      ELSE {EchoDigest(agreed[r]) : r \in Node} \cup {EchoDigest({})}

\* One digest is kept per sender: the first.
ReceiveEcho(p, q) ==
    /\ phase[p] \in {"collecting", "echoing"}
    /\ q # p
    /\ echoes[p][q] = {}
    /\ \E dg \in EchoesFrom(q) : echoes' = [echoes EXCEPT ![p][q] = {dg}]
    /\ UNCHANGED <<commitments, disqualified, phase, agreed>>

\* confirm_all(peers, n): enough digests, none of them different
ConfirmAll(p) ==
    /\ phase[p] = "echoing"
    /\ Cardinality(Heard(p)) >= N
    /\ EchoesMatch(p)
    /\ phase' = [phase EXCEPT ![p] = "confirmed"]
    /\ UNCHANGED <<commitments, disqualified, agreed, echoes>>

\* confirm fails on one of them: abort the ceremony
EchoMismatch(p) ==
    /\ phase[p] = "echoing"
    /\ ~ EchoesMatch(p)
    /\ phase' = [phase EXCEPT ![p] = "aborted"]
    /\ UNCHANGED <<commitments, disqualified, agreed, echoes>>

Next ==
    \E p \in Node :
        \/ \E pkg \in Deliverable : SubmitCommitment(p, pkg)
        \/ \E d \in Index : Disqualify(p, d)
        \/ AgreeRound1(p)
        \/ \E q \in Index : ReceiveEcho(p, q)
        \/ ConfirmAll(p)
        \/ EchoMismatch(p)

Spec == Init /\ [][Next]_vars

-----------------------------------------------------------------------------
(* Properties *)

Phase  == {"collecting", "echoing", "confirmed", "aborted"}
Digest == [epoch : {Epoch}, threshold : {T}, participants : {N},
           commitments : SUBSET Commitment]

\* Every variable has its type; a filled slot holds its own dealer's commitment,
\* of exactly T coefficients.
TypeOK ==
    /\ commitments \in [Node -> [Index -> Commitment \cup {None}]]
    /\ \A p \in Node : \A d \in Qualified(p) :
            commitments[p][d].dealer = d /\ commitments[p][d].len = T
    /\ disqualified \in [Node -> SUBSET Index]
    /\ phase  \in [Node -> Phase]
    /\ agreed \in [Node -> SUBSET Commitment]
    /\ echoes \in [Node -> [Index -> SUBSET Digest]]

\* Two honest participants that both got through confirm_all hold the same
\* round-1 set, whatever the faulty ones dealt and echoed to each of them.
ConfirmedAgree ==
    \A p, q \in Node :
        phase[p] = "confirmed" /\ phase[q] = "confirmed" => agreed[p] = agreed[q]

\* What a participant records for an honest dealer is that dealer's draw for
\* this epoch: a package of an earlier ceremony never takes the slot.
HonestDealerIntact ==
    \A p, d \in Node :
        commitments[p][d] \in {None, Genuine(d, Epoch).commitment}

\* is_complete is a sum of two counts, yet it means that every dealer is either
\* recorded or disqualified and none is both.
CompleteAccountsForAll ==
    \A p \in Node :
        IsComplete(p) => \A d \in Index : (d \in Qualified(p)) # (d \in disqualified[p])

\* Once the handle is taken the state behind it only loses disqualified
\* dealers: a later re-derivation can shrink the set, never add or swap.
HandleOnlyShrinks ==
    \A p \in Node :
        phase[p] \in {"echoing", "confirmed"} =>
            Recorded(p) = {c \in agreed[p] : c.dealer \notin disqualified[p]}

\* A caller that stops on DkgAborted never goes on with fewer than T dealers.
LiveHandleHasQuorum ==
    \A p \in Node :
        phase[p] \in {"echoing", "confirmed"} => Cardinality(Qualified(p)) >= T

\* A disqualified dealer stays out: the list never loses it, and no later
\* delivery of its package puts its commitment back.
DisqualifiedStaysOut ==
    [][\A p \in Node : \A d \in disqualified[p] :
            d \in disqualified'[p] /\ commitments'[p][d] = None]_vars
=============================================================================
