---------------------------- MODULE DkgCeremony ----------------------------
(***************************************************************************)
(* The whole key generation: round 1 (DkgRound1), the sealed round 2       *)
(* (src/sealed.rs), complaints, their verdicts and tally, disqualification *)
(* and the final aggregation (src/dkg.rs).                                 *)
(*                                                                         *)
(* The library leaves three things to its caller, and they appear here as  *)
(* the complaint log (a reliable broadcast), its closing, and the rule     *)
(* that nobody finalizes before it has applied every complaint in it.      *)
(*                                                                         *)
(* A sealed package is abstracted to whether it opens under the roster's   *)
(* keys and prologue, to the commitment whose polynomial its scalar lies   *)
(* on (None: no agreed one), and to the commitment its digest names.  A    *)
(* scalar that passes the Feldman check of a commitment is that            *)
(* polynomial's value, so what the aggregator keeps is the commitments     *)
(* they were checked against, each as often as it was taken: a set of      *)
(* numbered copies.                                                        *)
(***************************************************************************)
EXTENDS DkgRound1

CONSTANTS
    FaultySealed,   \* round-2 packages faulty dealers may send
    Fabricated      \* complaints faulty participants may sign

Copy          == [commitment : Commitment, number : Nat]
Evidence      == [on : Commitment \cup {None}, digest : Commitment]
SealedSubShare == [dealer : Index, opens : BOOLEAN,
                   on : Commitment \cup {None}, digest : Commitment]
Complaint ==
    [kind : {"subshare"}, accuser : Index, accused : Nat, evidence : Evidence]
    \cup
    [kind : {"pok"}, accuser : Index, accused : Nat, evidence : Round1Package]

\* Complaints are signed with roster identities.  Of the evidence nothing is
\* asked: the accuser may make up a scalar, or a package that its dealer never
\* sent, since a round-1 package is signed by nothing.
ASSUME SealedAssumption ==
    FaultySealed \subseteq [dealer : Faulty, opens : BOOLEAN,
                            on : Commitment \cup {None}, digest : Commitment]
ASSUME FabricatedAssumption ==
    Fabricated \subseteq Complaint /\ \A c \in Fabricated : c.accuser \in Faulty

VARIABLES
    dealt,      \* honest dealers that have sealed and sent round 2
    handle,     \* handle[p]: the AgreedRound1 its Aggregator was made from
    added,      \* added[p]: the Aggregator's vectors, in no order
    complaints, \* the complaint log every participant reads
    closed,     \* no further complaint is accepted
    processed,  \* processed[p]: complaints p has verified
    upheld,     \* ComplaintTally.upheld: accused |-> its accusers
    flagged,    \* ComplaintTally.flagged
    forged,     \* forged[p]: dealers with an upheld round-1 complaint
    out         \* out[p]: the vectors p finalized over

round2  == <<dealt, handle, added, out>>
justice == <<complaints, closed, processed, upheld, flagged, forged>>
allVars == <<vars, round2, justice>>

-----------------------------------------------------------------------------
(* Opening a sealed package: open_subshare_agreed_with_evidence *)

\* seal_round2: an honest dealer's package to anyone, itself included
Sealed(d) ==
    LET c == Genuine(d, Epoch).commitment IN
    [dealer |-> d, opens |-> TRUE, on |-> c, digest |-> c]

\* Packages on the wire; they may be lost, repeated and reordered.
Wire == {Sealed(d) : d \in dealt} \cup FaultySealed

\* AgreedRound1::commitment in a given handle: at most one, none if absent
CommitmentOf(S, d) == {c \in S : c.dealer = d}

\* The scalar came out of the package, of a dealer in p's handle.
Decrypted(p, sp) == sp.opens /\ CommitmentOf(handle[p], sp.dealer) # {}

\* verify_subshare: the scalar is a value of that commitment's polynomial
Feldman(c, on) == on = c

\* What opens, and is the pair the dealer sent
Opened(p, sp) ==
    /\ Decrypted(p, sp)
    /\ \A c \in CommitmentOf(handle[p], sp.dealer) :
            Feldman(c, sp.on) /\ sp.digest = c

\* Mutant: the digest inside the package is compared first.
AccusableByDigest(p, sp) ==
    /\ Decrypted(p, sp)
    /\ \A c \in CommitmentOf(handle[p], sp.dealer) :
            sp.digest # c \/ ~ Feldman(c, sp.on)

\* OpenFailure::BadSubShare, as opposed to OpenFailure::Local
Accusable(p, sp) ==
    /\ Decrypted(p, sp)
    /\ \A c \in CommitmentOf(handle[p], sp.dealer) : ~ Feldman(c, sp.on)

-----------------------------------------------------------------------------
(* Aggregator *)

DealerSet(p) == {c.dealer : c \in handle[p]}
Summed(V)    == {v.commitment : v \in V}
Delivered(p) == {c.dealer : c \in Summed(added[p])}
AggregatorComplete(p) == Cardinality(added[p]) = Cardinality(DealerSet(p))

\* Mutant: a repeated package is taken while there is room.
NewSubShareWhileOpen(p, sp) ==
    sp.dealer \in DealerSet(p) /\ ~ AggregatorComplete(p)

\* add_subshare answers Ok(true)
NewSubShare(p, sp) ==
    /\ sp.dealer \in DealerSet(p)
    /\ sp.dealer \notin Delivered(p)

\* Mutant: the handle that was echoed is used as it is.
HandleEchoed(p) == agreed[p]

\* agreed_round1 on the state as it is when round 2 starts
HandleNow(p) == Recorded(p)

\* Mutants: nothing is derived again after a disqualification.
HandleKept(p, d)  == handle[p]
AggregatorKept(p) == added[p]

\* agreed_round1 on the state without d, and a new Aggregator over it
HandleWithout(p, d) ==
    IF phase[p] = "confirmed"
      THEN {commitments[p][e] : e \in Qualified(p) \ {d}} ELSE {}
NewAggregator(p) == {}

\* Mutant: the key is derived from the set that was echoed.
KeyBasisEchoed(p) == agreed[p]

\* derive_group_key and derive_verification_share of DkgState: the commitments
\* that are summed, at 0 or at a player's index; an error before completeness
KeyBasis(p) == IF IsComplete(p) THEN Recorded(p) ELSE {}

-----------------------------------------------------------------------------
(* Complaints *)

\* Complaint::verify and adjudicate with the verifier's own confirmed set
Verdict(p, c) ==
    IF c.kind = "pok"
      THEN IF c.evidence.commitment.dealer # c.accused THEN "Invalid"
           ELSE IF PokVerifies(c.evidence, Epoch) THEN "Unfounded" ELSE "Upheld"
      ELSE LET mine == CommitmentOf(agreed[p], c.accused) IN
           IF mine # {c.evidence.digest} THEN "Invalid"
           ELSE IF Feldman(c.evidence.digest, c.evidence.on)
                  THEN "Unfounded" ELSE "Upheld"

\* Mutants: one accuser is enough; complaints are counted, and not accusers.
ReachedByOne(p, d) == upheld[p][d] # {}
ReachedByComplaints(p, d) ==
    Cardinality({c \in processed[p] : /\ c.kind = "subshare" /\ c.accused = d
                                      /\ Verdict(p, c) = "Upheld"}) >= T

\* ComplaintTally::reached
Reached(p, d) == Cardinality(upheld[p][d]) >= T

\* One forged proof is enough; bad sub-shares need the tally.
Condemned(p) == {d \in Index : Reached(p, d) \/ d \in forged[p]}

\* Complaint::sign and its broadcast; an accuser may complain again
Complain(c) ==
    /\ ~ closed
    /\ complaints' = complaints \cup {c}
    /\ UNCHANGED <<closed, processed, upheld, flagged, forged>>

-----------------------------------------------------------------------------

CeremonyInit ==
    /\ Init
    /\ dealt  = {}
    /\ handle = [p \in Node |-> {}]
    /\ added  = [p \in Node |-> {}]
    /\ out    = [p \in Node |-> None]
    /\ complaints = {} /\ closed = FALSE
    /\ processed = [p \in Node |-> {}]
    /\ upheld  = [p \in Node |-> [d \in Index |-> {}]]
    /\ flagged = [p \in Node |-> {}]
    /\ forged  = [p \in Node |-> {}]

Round1Step(p) ==
    /\ \/ \E pkg \in Deliverable : SubmitCommitment(p, pkg)
       \/ AgreeRound1(p)
       \/ \E q \in Index : ReceiveEcho(p, q)
       \/ EchoMismatch(p)
    /\ UNCHANGED <<round2, justice>>

\* submit_commitment answers InvalidProofOfKnowledge(d): raise it
AccuseOfForgery(p, pkg) ==
    LET d == pkg.commitment.dealer IN
    /\ phase[p] # "aborted"
    /\ d \in Index \ {p}
    /\ ~ PokVerifies(pkg, Epoch)
    /\ Complain([kind |-> "pok", accuser |-> p, accused |-> d, evidence |-> pkg])
    /\ UNCHANGED <<vars, round2>>

\* confirm_all succeeds: seal_round2, and an Aggregator::from_agreed over the
\* handle as the state gives it now, without what was disqualified meanwhile
EnterRound2(p) ==
    /\ ConfirmAll(p)
    /\ dealt'  = dealt \cup {p}
    /\ handle' = [handle EXCEPT ![p] = HandleNow(p)]
    /\ UNCHANGED <<added, out, justice>>

\* A package opens and add_subshare takes it.
AddSubShare(p, sp) ==
    /\ phase[p] = "confirmed"
    /\ Opened(p, sp)
    /\ NewSubShare(p, sp)
    /\ added' = [added EXCEPT ![p] = @ \cup
            {[commitment |-> sp.on, number |-> Cardinality({v \in @ : v.commitment = sp.on})]}]
    /\ UNCHANGED <<vars, dealt, handle, out, justice>>

\* A package opens on a scalar off the agreed polynomial: raise it
AccuseOfBadSubShare(p, sp) ==
    /\ phase[p] = "confirmed"
    /\ sp.dealer # p
    /\ Accusable(p, sp)
    /\ \E c \in CommitmentOf(handle[p], sp.dealer) :
         Complain([kind |-> "subshare", accuser |-> p, accused |-> sp.dealer,
                   evidence |-> [on |-> sp.on, digest |-> c]])
    /\ UNCHANGED <<vars, round2>>

FaultyComplaint(c) ==
    /\ Complain(c)
    /\ UNCHANGED <<vars, round2>>

\* The caller closes the complaint window.
Close ==
    /\ ~ closed
    /\ closed' = TRUE
    /\ UNCHANGED <<vars, round2, complaints, processed, upheld, flagged, forged>>

\* Complaint::verify, then ComplaintTally::record
Process(p, c) ==
    /\ phase[p] # "aborted"
    /\ c.kind = "subshare" => phase[p] = "confirmed"
    /\ c \in complaints \ processed[p]
    /\ processed' = [processed EXCEPT ![p] = @ \cup {c}]
    /\ upheld' = IF c.kind = "subshare" /\ c.accused \in Index \ {c.accuser}
                    /\ Verdict(p, c) = "Upheld"
                   THEN [upheld EXCEPT ![p][c.accused] = @ \cup {c.accuser}]
                   ELSE upheld
    /\ forged' = IF c.kind = "pok" /\ Verdict(p, c) = "Upheld"
                   THEN [forged EXCEPT ![p] = @ \cup {c.accused}] ELSE forged
    /\ flagged' = IF c.accuser # c.accused /\ Verdict(p, c) = "Unfounded"
                   THEN [flagged EXCEPT ![p] = @ \cup {c.accuser}] ELSE flagged
    /\ UNCHANGED <<vars, round2, complaints, closed>>

\* disqualify for a condemned dealer.  In round 2 the caller derives the
\* handle again and starts a fresh Aggregator over what is left.
Apply(p, d) ==
    /\ d \in Condemned(p) \ disqualified[p]
    /\ Disqualify(p, d)
    /\ handle' = [handle EXCEPT ![p] = HandleWithout(p, d)]
    /\ added'  = [added EXCEPT ![p] = NewAggregator(p)]
    /\ UNCHANGED <<dealt, out, justice>>

\* Every complaint of the closed log is applied.
Settled(p) ==
    /\ closed
    /\ processed[p] = complaints
    /\ Condemned(p) \subseteq disqualified[p]

\* Aggregator::finalize and derive_group_key
Finalize(p) ==
    /\ phase[p] = "confirmed"
    /\ out[p] = None
    /\ Settled(p)
    /\ AggregatorComplete(p)
    /\ out' = [out EXCEPT ![p] = added[p]]
    /\ UNCHANGED <<vars, dealt, handle, added, justice>>

NodeStep(p) ==
    \/ Round1Step(p)
    \/ \E pkg \in Deliverable : AccuseOfForgery(p, pkg)
    \/ EnterRound2(p)
    \/ \E sp \in Wire : AddSubShare(p, sp) \/ AccuseOfBadSubShare(p, sp)
    \/ \E c \in complaints : Process(p, c)
    \/ \E d \in Index : Apply(p, d)
    \/ Finalize(p)

CeremonyNext ==
    \/ \E p \in Node : NodeStep(p)
    \/ \E c \in Fabricated : FaultyComplaint(c)
    \/ Close

CeremonySpec == CeremonyInit /\ [][CeremonyNext]_allVars

-----------------------------------------------------------------------------
(* Fairness: the channels deliver what honest participants send, and they  *)
(* act on it; nothing is asked of the faulty ones.                         *)

HonestStep(p) ==
    \/ /\ \/ \E d \in Node : SubmitCommitment(p, Genuine(d, Epoch))
          \/ AgreeRound1(p)
          \/ \E q \in Node : ReceiveEcho(p, q)
          \/ EchoMismatch(p)
       /\ UNCHANGED <<round2, justice>>
    \/ EnterRound2(p)
    \/ \E d \in dealt : AddSubShare(p, Sealed(d))
    \/ \E c \in complaints : Process(p, c)
    \/ \E d \in Index : Apply(p, d)
    \/ Finalize(p)

Fairness == WF_allVars(Close) /\ \A p \in Node : WF_allVars(HonestStep(p))

FairCeremony == CeremonySpec /\ Fairness

-----------------------------------------------------------------------------
(* Properties *)

\* Every ceremony variable has its type; an aggregator holds at most one
\* sub-share of a dealer of its set.
CeremonyTypeOK ==
    /\ dealt \subseteq Node
    /\ handle \in [Node -> SUBSET Commitment]
    /\ added \in [Node -> SUBSET Copy]
    /\ \A p \in Node : Summed(added[p]) \subseteq handle[p] /\ \A v \in added[p] : v.number = 0
    /\ out \in [Node -> {None} \cup SUBSET Copy]
    /\ complaints \subseteq Complaint
    /\ closed \in BOOLEAN
    /\ processed \in [Node -> SUBSET complaints]
    /\ upheld  \in [Node -> [Index -> SUBSET Index]]
    /\ flagged \in [Node -> SUBSET Index]
    /\ forged  \in [Node -> SUBSET Nat]

\* What a participant has summed sub-shares of is, dealer for dealer and each of
\* them once, what its DkgState sums to the group key and to everybody's
\* verification share: with one dealer more or fewer on either side, or one
\* counted twice, no signature share it ever makes would verify.
StateDerivesKeyOfShare ==
    \A p \in Node : out[p] # None =>
        out[p] = [commitment : KeyBasis(p), number : {0}]

\* No key contains the contribution of a dealer that any honest participant
\* has disqualified: late verdicts cannot split the group.
KeyWithoutCondemned ==
    \A p, q \in Node :
        out[p] # None =>
            \A c \in Summed(out[p]) : c.dealer \notin disqualified[q]

\* What the comments on ComplaintEvidence and ComplaintTally say of the
\* complaints: fewer than T faulty participants cannot get an honest dealer
\* disqualified.  The code does not keep it, see the runs.
HonestNeverDisqualified == \A p \in Node : disqualified[p] \subseteq Faulty

\* What it does keep: fewer than T faulty participants cannot vote an honest
\* dealer out by bad-sub-share complaints, however many each of them signs and
\* wherever the real ones point.  An honest dealer is lost only to a round-1
\* complaint whose package does not verify.
HonestNotVotedOut ==
    \A p \in Node : disqualified[p] \ forged[p] \subseteq Faulty

\* An honest accuser's complaint is never found unfounded, whoever judges it:
\* accuser and judge check it against the same commitment.
HonestAccuserNeverFlagged == \A p \in Node : flagged[p] \subseteq Faulty

\* The ceremony implements OneKey: whoever finalizes, finalizes the same key.
Promise == INSTANCE OneKey WITH
    Polynomials <- {pkg.commitment : pkg \in Deliverable},
    Drawn  <- [d \in Node |-> Genuine(d, Epoch).commitment],
    result <- [p \in Node |-> IF out[p] = None THEN None ELSE Summed(out[p])]

ImplementsOneKey == Promise!Spec

\* What round 1 ends with if every faulty dealer told p what it told the others
Told(p) ==
    {Genuine(d, Epoch).commitment : d \in Node} \cup {commitments[p][f] : f \in Faulty}

\* Round 1 ends: if no round-1 complaint is ever upheld, then once every faulty
\* participant has given all honest ones the same commitment and the echo of
\* the resulting set, all of them get through confirm_all and deal, in whatever
\* order the rest of the messages arrive.
RoundOneCompletes ==
    [](\A p \in Node : forged[p] = {}) =>
        ((\A p, q \in Node :
            /\ phase[p] # "aborted" /\ disqualified[p] = {}
            /\ Told(p) = Told(q)
            /\ \A f \in Faulty : echoes[p][f] = {EchoDigest(Told(p))})
         ~> dealt = Node)

\* p is owed nothing: every honest participant has dealt, and of each faulty
\* dealer p holds a sub-share or has disqualified it.
Served(p) ==
    /\ dealt = Node /\ phase[p] = "confirmed"
    /\ Faulty \subseteq disqualified[p] \cup Delivered(p)

\* Round 2 ends: a participant that is served, and served again each time a
\* disqualification makes it start the aggregation over, gets its share.
FinalizesOnceServed == \A p \in Node : []<>Served(p) => <>(out[p] # None)
=============================================================================
