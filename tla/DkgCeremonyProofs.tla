------------------------ MODULE DkgCeremonyProofs ------------------------
(***************************************************************************)
(* The key generation for every number of participants, every threshold,   *)
(* every set of faulty participants, and whatever these send and sign.     *)
(*                                                                         *)
(* The argument: whoever judges sub-share complaints or finalizes has got  *)
(* through the echo round, so that all such participants hold one set      *)
(* (DkgRound1Proofs) and give one verdict on each complaint; whoever       *)
(* finalizes has judged the whole closed log and removed the dealers that  *)
(* it condemns, and no others are ever removed anywhere.  So what remains  *)
(* is a function of the echoed set and the log.                            *)
(***************************************************************************)
EXTENDS DkgCeremony, DkgRound1Proofs

\* p got through the echo round: it has heard its own digest from everybody.
AllEchoed(p) == \A q \in Index : echoes[p][q] = {EchoDigest(agreed[p])}

\* The accusers whose complaints against d p has upheld
Votes(p, d) ==
    {c.accuser : c \in {b \in processed[p] :
        b.kind = "subshare" /\ b.accused = d /\ b.accuser # d /\ Verdict(p, b) = "Upheld"}}

\* The dealers whose forged proofs p has seen
Convicted(p) ==
    {c.accused : c \in {b \in processed[p] : b.kind = "pok" /\ Verdict(p, b) = "Upheld"}}

\* What is left of p's echoed set
Left(p) == {c \in agreed[p] : c.dealer \notin disqualified[p]}

Typed ==
    /\ dealt \subseteq Node
    /\ handle \in [Node -> SUBSET Commitment]
    /\ added \in [Node -> SUBSET Copy]
    /\ out \in [Node -> {None} \cup SUBSET Copy]
    /\ complaints \subseteq Complaint
    /\ closed \in BOOLEAN
    /\ processed \in [Node -> SUBSET complaints]
    /\ upheld  \in [Node -> [Index -> SUBSET Index]]
    /\ flagged \in [Node -> SUBSET Faulty]
    /\ forged  \in [Node -> SUBSET Nat]

\* Slots are filled with what some package on the wire committed to.
SlotsDelivered ==
    \A p \in Node, d \in Index :
        commitments[p][d] # None => \E pkg \in Deliverable : commitments[p][d] = pkg.commitment

\* In round 2 the handle is what the state gives now; before it nothing is added.
HandleCurrent ==
    \A p \in Node :
        /\ phase[p] = "confirmed" => handle[p] = Recorded(p)
        /\ phase[p] \in {"collecting", "echoing"} => added[p] = {}

\* The aggregator holds one sub-share at most of a dealer of the handle.
OneCopyEach ==
    \A p \in Node : \A v \in added[p] : v.commitment \in handle[p] /\ v.number = 0

\* Sub-share complaints are judged after the echo round.
JudgesEchoed ==
    \A p \in Node : \A c \in processed[p] : c.kind = "subshare" => AllEchoed(p)

\* The tally is what the verdicts on the processed complaints say.
TallyExact ==
    \A p \in Node :
        /\ \A d \in Index : upheld[p][d] = Votes(p, d)
        /\ forged[p] = Convicted(p)

\* Only condemned dealers are disqualified.
ForCause == \A p \in Node : disqualified[p] \subseteq Condemned(p)

\* An honest participant's complaint has grounds.
HonestGrounds ==
    \A c \in complaints : c.accuser \in Node =>
        /\ c.kind = "pok" => ~ PokVerifies(c.evidence, Epoch)
        /\ c.kind = "subshare" =>
                c.accused \in Faulty /\ ~ Feldman(c.evidence.digest, c.evidence.on)

\* Whoever has finalized has applied the whole closed log, and summed what that left.
FinalizedSettled ==
    \A p \in Node : out[p] # None =>
        /\ phase[p] = "confirmed"
        /\ Settled(p)
        /\ out[p] = [commitment : Left(p), number : {0}]

CeremonyInv ==
    /\ Typed
    /\ SlotsDelivered
    /\ HandleCurrent
    /\ OneCopyEach
    /\ JudgesEchoed
    /\ TallyExact
    /\ ForCause
    /\ HonestGrounds
    /\ FinalizedSettled

-----------------------------------------------------------------------------
(* Round 1 inside the ceremony *)

\* Every step of the ceremony is a step of round 1 or leaves it alone.
LEMMA StepOfRound1 == [CeremonyNext]_allVars => [Next]_vars
<1> SUFFICES ASSUME [CeremonyNext]_allVars PROVE [Next]_vars
  OBVIOUS
<1>1. CASE UNCHANGED allVars
  BY <1>1 DEF allVars
<1>2. ASSUME NEW p \in Node, NodeStep(p) PROVE [Next]_vars
  <2>1. CASE Round1Step(p)
    BY <2>1 DEF Round1Step, Next
  <2>2. CASE EnterRound2(p)
    BY <2>2 DEF EnterRound2, Next
  <2>3. CASE \E d \in Index : Apply(p, d)
    BY <2>3 DEF Apply, Next
  <2>4. CASE \/ \E pkg \in Deliverable : AccuseOfForgery(p, pkg)
             \/ \E sp \in Wire : AddSubShare(p, sp) \/ AccuseOfBadSubShare(p, sp)
             \/ \E c \in complaints : Process(p, c)
             \/ Finalize(p)
    BY <2>4 DEF AccuseOfForgery, AddSubShare, AccuseOfBadSubShare, Process, Finalize
  <2> QED BY <1>2, <2>1, <2>2, <2>3, <2>4 DEF NodeStep
<1>3. CASE (\E c \in Fabricated : FaultyComplaint(c)) \/ Close
  BY <1>3 DEF FaultyComplaint, Close
<1> QED BY <1>1, <1>2, <1>3 DEF CeremonyNext

LEMMA Round1Invariant == CeremonySpec => []IInv
<1>1. CeremonyInit => Init
  BY DEF CeremonyInit
<1>2. CeremonySpec => Spec
  BY <1>1, StepOfRound1, PTL DEF CeremonySpec, Spec
<1> QED BY <1>2, Invariant, PTL

\* Once through the echo round, a participant's set and echoes stay.
LEMMA EchoedStays ==
    ASSUME IInv, [Next]_vars, NEW p \in Node, AllEchoed(p)
    PROVE  AllEchoed(p)' /\ agreed'[p] = agreed[p]
<1>1. phase[p] # "collecting" /\ \A q \in Index : echoes[p][q] # {}
  BY DEF AllEchoed, IInv, HonestEchoes, Node
<1>2. agreed'[p] = agreed[p]
  BY <1>1 DEF Next, vars, SubmitCommitment, Disqualify, AgreeRound1, ReceiveEcho,
              ConfirmAll, EchoMismatch, IInv, TypeOK
<1>3. \A q \in Index : echoes'[p][q] = echoes[p][q]
  <2>1. CASE UNCHANGED echoes
    BY <2>1
  <2>2. ASSUME NEW r \in Node, AgreeRound1(r)
        PROVE  \A q \in Index : echoes'[p][q] = echoes[p][q]
    BY <1>1, <2>2 DEF AgreeRound1, IInv, TypeOK
  <2>3. ASSUME NEW r \in Node, NEW s \in Index, ReceiveEcho(r, s)
        PROVE  \A q \in Index : echoes'[p][q] = echoes[p][q]
    BY <1>1, <2>3 DEF ReceiveEcho, IInv, TypeOK
  <2> QED BY <2>1, <2>2, <2>3 DEF Next, vars, SubmitCommitment, Disqualify,
                                  ConfirmAll, EchoMismatch
<1> QED BY <1>2, <1>3 DEF AllEchoed, EchoDigest

\* Participants that got through it hold one set.
LEMMA EchoedAgree ==
    ASSUME IInv, NEW p \in Node, NEW q \in Node, AllEchoed(p), AllEchoed(q)
    PROVE  agreed[p] = agreed[q]
<1>1. echoes[p][q] = {EchoDigest(agreed[p])}
  BY DEF AllEchoed, Node
<1>2. echoes[p][q] = {EchoDigest(agreed[q])}
  BY <1>1 DEF IInv, HonestEchoes
<1>3. EchoDigest(agreed[p]) = EchoDigest(agreed[q])
  BY <1>1, <1>2
<1> QED BY <1>3 DEF EchoDigest

\* A verdict depends on the judge's set only, and one on a round-1 complaint
\* on nothing.
LEMMA VerdictOfSet ==
    ASSUME NEW p, NEW q, NEW c, c.kind = "pok" \/ agreed[p] = agreed[q]
    PROVE  Verdict(p, c) = Verdict(q, c)
BY DEF Verdict

LEMMA VerdictStays ==
    ASSUME NEW p, NEW c, c.kind = "pok" \/ agreed'[p] = agreed[p]
    PROVE  Verdict(p, c)' = Verdict(p, c)
BY DEF Verdict, CommitmentOf, Feldman, PokVerifies

\* What a step that processes nothing at p leaves of its tally.
LEMMA TallyStays ==
    ASSUME IInv, CeremonyInv, [Next]_vars, NEW p \in Node,
           processed'[p] = processed[p]
    PROVE  /\ \A d \in Index : Votes(p, d)' = Votes(p, d)
           /\ Convicted(p)' = Convicted(p)
<1>1. \A c \in processed[p] : c.kind = "subshare" \/ c.kind = "pok"
  BY DEF CeremonyInv, Typed, Complaint
<1>2. \A c \in processed[p] : Verdict(p, c)' = Verdict(p, c)
  <2> TAKE c \in processed[p]
  <2>1. c.kind = "subshare" => agreed'[p] = agreed[p]
    BY EchoedStays DEF CeremonyInv, JudgesEchoed
  <2> QED BY <1>1, <2>1, VerdictStays
<1> QED BY <1>2 DEF Votes, Convicted

\* A step that leaves round 1 alone leaves everything alone that is read off it.
LEMMA OffRound1 ==
    ASSUME UNCHANGED vars
    PROVE  /\ \A p : Recorded(p)' = Recorded(p)
           /\ \A p : AllEchoed(p)' <=> AllEchoed(p)
           /\ \A p : Left(p)' = Left(p)
           /\ SlotsDelivered' <=> SlotsDelivered
           /\ \A p : phase'[p] = phase[p] /\ disqualified'[p] = disqualified[p]
BY DEF vars, Recorded, Qualified, AllEchoed, EchoDigest, Left, SlotsDelivered

-----------------------------------------------------------------------------
(* The inductive invariant *)

LEMMA CeremonyInitInv == CeremonyInit => CeremonyInv
<1> SUFFICES ASSUME CeremonyInit PROVE CeremonyInv
  OBVIOUS
<1> USE DEF CeremonyInit
<1>1. Typed
  BY DEF Typed
<1>2. SlotsDelivered /\ HandleCurrent /\ OneCopyEach /\ JudgesEchoed /\ FinalizedSettled
  BY DEF SlotsDelivered, HandleCurrent, OneCopyEach, JudgesEchoed, FinalizedSettled, Init
<1>3. TallyExact
  BY DEF TallyExact, Votes, Convicted
<1>4. ForCause /\ HonestGrounds
  BY DEF ForCause, HonestGrounds, Init
<1> QED BY <1>1, <1>2, <1>3, <1>4 DEF CeremonyInv

\* The log grows before it is closed only, and so before anybody finalizes.
LEMMA ComplainPreserves ==
    ASSUME IInv, CeremonyInv, NEW c \in Complaint, Complain(c), UNCHANGED <<vars, round2>>,
           c.accuser \in Node =>
                /\ c.kind = "pok" => ~ PokVerifies(c.evidence, Epoch)
                /\ c.kind = "subshare" =>
                        c.accused \in Faulty /\ ~ Feldman(c.evidence.digest, c.evidence.on)
    PROVE  CeremonyInv'
<1>1. /\ ~ closed
      /\ complaints' = complaints \cup {c}
      /\ UNCHANGED <<closed, processed, upheld, flagged, forged>>
      /\ UNCHANGED <<dealt, handle, added, out>>
      /\ UNCHANGED vars
  BY DEF Complain, round2
<1>2. Typed'
  BY <1>1 DEF CeremonyInv, Typed
<1>3. SlotsDelivered' /\ HandleCurrent' /\ OneCopyEach' /\ JudgesEchoed'
  BY <1>1, OffRound1 DEF CeremonyInv, HandleCurrent, OneCopyEach, JudgesEchoed
<1>4. TallyExact'
  <2>1. [Next]_vars
    BY <1>1
  <2> QED BY <1>1, <2>1, TallyStays DEF CeremonyInv, TallyExact
<1>5. ForCause'
  BY <1>1, OffRound1 DEF CeremonyInv, ForCause, Condemned, Reached
<1>6. HonestGrounds'
  BY <1>1 DEF CeremonyInv, HonestGrounds, PokVerifies, Feldman
<1>7. FinalizedSettled'
  BY <1>1 DEF CeremonyInv, FinalizedSettled, Settled
<1> QED BY <1>2, <1>3, <1>4, <1>5, <1>6, <1>7 DEF CeremonyInv

\* A package is a record with a commitment and a proof.
LEMMA DeliverableType == Deliverable \subseteq Round1Package
<1> SUFFICES ASSUME NEW pkg \in Deliverable PROVE pkg \in Round1Package
  OBVIOUS
<1>1. CASE pkg \in FaultyPackages
  BY <1>1, PackagesAssumption
<1>2. CASE \E d \in Node, e \in {Epoch} \cup Replayed : pkg = Genuine(d, e)
  <2>1. PICK d \in Node, e \in {Epoch} \cup Replayed : pkg = Genuine(d, e)
    BY <1>2
  <2>2. d \in Nat /\ e \in Nat /\ T \in Nat
    BY SizeAssumption, EpochAssumption DEF Node, Index
  <2> QED BY <2>1, <2>2 DEF Genuine, Round1Package, Commitment, Proof
<1> QED BY <1>1, <1>2 DEF Deliverable

\* The commitment of an honest dealer in a handle is the one it drew.
LEMMA HonestInHandle ==
    ASSUME IInv, CeremonyInv, NEW p \in Node, phase[p] = "confirmed",
           NEW d \in Node, NEW c \in CommitmentOf(handle[p], d)
    PROVE  c = Genuine(d, Epoch).commitment
<1>1. PICK e \in Qualified(p) : c = commitments[p][e]
  BY DEF CeremonyInv, HandleCurrent, CommitmentOf, Recorded
<1>2. e = d
  BY <1>1 DEF CommitmentOf, IInv, TypeOK
<1> QED BY <1>1, <1>2 DEF IInv, HonestDealerIntact, Qualified

LEMMA ForgeryPreserves ==
    ASSUME IInv, CeremonyInv, NEW p \in Node, NEW pkg \in Deliverable, AccuseOfForgery(p, pkg)
    PROVE  CeremonyInv'
<1> DEFINE c == [kind |-> "pok", accuser |-> p, accused |-> pkg.commitment.dealer,
                 evidence |-> pkg]
<1>1. Complain(c) /\ UNCHANGED <<vars, round2>> /\ ~ PokVerifies(pkg, Epoch)
  BY DEF AccuseOfForgery
<1>2. c \in Complaint
  BY DeliverableType DEF Complaint, Round1Package, Commitment, Node
<1>3. c.kind = "pok" /\ c.evidence = pkg
  OBVIOUS
<1> HIDE DEF c
<1> QED BY <1>1, <1>2, <1>3, ComplainPreserves

LEMMA BadSubSharePreserves ==
    ASSUME IInv, CeremonyInv, NEW p \in Node, NEW sp \in Wire, AccuseOfBadSubShare(p, sp)
    PROVE  CeremonyInv'
<1>1. PICK k \in CommitmentOf(handle[p], sp.dealer) :
         Complain([kind |-> "subshare", accuser |-> p, accused |-> sp.dealer,
                   evidence |-> [on |-> sp.on, digest |-> k]])
  BY DEF AccuseOfBadSubShare
<1> DEFINE ev == [on |-> sp.on, digest |-> k]
           c  == [kind |-> "subshare", accuser |-> p, accused |-> sp.dealer, evidence |-> ev]
<1>2. phase[p] = "confirmed" /\ UNCHANGED <<vars, round2>> /\ ~ Feldman(k, sp.on)
  BY DEF AccuseOfBadSubShare, Accusable
<1>3. k \in Commitment
  BY DEF CommitmentOf, CeremonyInv, Typed
<1>4. sp.dealer \in Faulty /\ sp.on \in Commitment \cup {None}
  <2>1. CASE sp \in FaultySealed
    BY <2>1, SealedAssumption
  <2>2. CASE \E d \in dealt : sp = Sealed(d)
    <3>1. PICK d \in dealt : sp = Sealed(d)
      BY <2>2
    <3>2. d \in Node /\ sp.dealer = d /\ sp.on = Genuine(d, Epoch).commitment
      BY <3>1 DEF Sealed, CeremonyInv, Typed
    <3>3. k = Genuine(d, Epoch).commitment
      BY <1>2, <3>2, HonestInHandle
    <3> QED BY <1>2, <3>2, <3>3 DEF Feldman
  <2> QED BY <2>1, <2>2 DEF Wire
<1>5. c \in Complaint
  <2>1. ev \in Evidence
    BY <1>3, <1>4 DEF Evidence
  <2>2. sp.dealer \in Index /\ p \in Index
    BY <1>4, FaultyAssumption DEF Node
  <2>3. Index \subseteq Nat
    BY DEF Index
  <2> QED BY <2>1, <2>2, <2>3 DEF Complaint
<1>6. /\ c.kind = "subshare" /\ c.accused = sp.dealer
      /\ c.evidence.digest = k /\ c.evidence.on = sp.on
  OBVIOUS
<1>7. Complain(c)
  BY <1>1
<1> HIDE DEF c
<1> QED BY <1>2, <1>4, <1>5, <1>6, <1>7, ComplainPreserves

LEMMA FabricatedPreserves ==
    ASSUME IInv, CeremonyInv, NEW c \in Fabricated, FaultyComplaint(c)
    PROVE  CeremonyInv'
BY ComplainPreserves, FabricatedAssumption DEF FaultyComplaint, Node

\* Closing the log changes nothing else.
LEMMA ClosePreserves ==
    ASSUME IInv, CeremonyInv, Close
    PROVE  CeremonyInv'
<1>1. /\ closed' = TRUE
      /\ UNCHANGED vars
      /\ UNCHANGED <<dealt, handle, added, out, complaints, processed, upheld, flagged, forged>>
  BY DEF Close, round2
<1>2. Typed'
  BY <1>1 DEF CeremonyInv, Typed
<1>3. SlotsDelivered' /\ HandleCurrent' /\ OneCopyEach' /\ JudgesEchoed'
  BY <1>1, OffRound1 DEF CeremonyInv, HandleCurrent, OneCopyEach, JudgesEchoed
<1>4. TallyExact'
  <2>1. [Next]_vars
    BY <1>1
  <2> QED BY <1>1, <2>1, TallyStays DEF CeremonyInv, TallyExact
<1>5. ForCause' /\ HonestGrounds'
  BY <1>1, OffRound1 DEF CeremonyInv, ForCause, Condemned, Reached, HonestGrounds,
                         PokVerifies, Feldman
<1>6. FinalizedSettled'
  BY <1>1, OffRound1 DEF CeremonyInv, FinalizedSettled, Settled, Condemned, Reached
<1> QED BY <1>2, <1>3, <1>4, <1>5, <1>6 DEF CeremonyInv

\* A package is added: its dealer is of the handle, and the first of it.
LEMMA AddPreserves ==
    ASSUME IInv, CeremonyInv, NEW p \in Node, NEW sp \in Wire, AddSubShare(p, sp)
    PROVE  CeremonyInv'
<1> DEFINE copies == {v \in added[p] : v.commitment = sp.on}
           item == [commitment |-> sp.on, number |-> Cardinality(copies)]
<1>1. /\ phase[p] = "confirmed"
      /\ Opened(p, sp) /\ NewSubShare(p, sp)
      /\ added' = [added EXCEPT ![p] = @ \cup {item}]
      /\ UNCHANGED vars
      /\ UNCHANGED <<dealt, handle, out, complaints, closed, processed, upheld, flagged, forged>>
  BY DEF AddSubShare, justice, CeremonyInv, Typed
<1>2. sp.on \in handle[p] /\ sp.on.dealer = sp.dealer
  BY <1>1 DEF Opened, Decrypted, CommitmentOf, Feldman
<1>3. copies = {}
  BY <1>1, <1>2 DEF NewSubShare, Delivered, Summed
<1>4. item.number = 0 /\ item.commitment = sp.on /\ item \in Copy
  <2>1. Cardinality(copies) = 0
    BY <1>3, FS_EmptySet
  <2>2. sp.on \in Commitment
    BY <1>2 DEF CeremonyInv, Typed
  <2> HIDE DEF copies
  <2> QED BY <2>1, <2>2 DEF Copy
<1> HIDE DEF item, copies
<1>5. Typed'
  BY <1>1, <1>4 DEF CeremonyInv, Typed
<1>6. SlotsDelivered' /\ JudgesEchoed' /\ HandleCurrent'
  BY <1>1, OffRound1 DEF CeremonyInv, HandleCurrent, JudgesEchoed, Typed
<1>7. OneCopyEach'
  BY <1>1, <1>2, <1>4 DEF CeremonyInv, OneCopyEach, Typed
<1>8. TallyExact'
  <2>1. [Next]_vars
    BY <1>1
  <2> QED BY <1>1, <2>1, TallyStays DEF CeremonyInv, TallyExact
<1>9. ForCause' /\ HonestGrounds'
  BY <1>1, OffRound1 DEF CeremonyInv, ForCause, Condemned, Reached, HonestGrounds,
                         PokVerifies, Feldman
<1>10. FinalizedSettled'
  BY <1>1, OffRound1 DEF CeremonyInv, FinalizedSettled, Settled, Condemned, Reached
<1> QED BY <1>5, <1>6, <1>7, <1>8, <1>9, <1>10 DEF CeremonyInv

\* A verdict is counted where it belongs, and nowhere else.
LEMMA ProcessPreserves ==
    ASSUME IInv, CeremonyInv, NEW p \in Node, NEW c \in complaints, Process(p, c)
    PROVE  CeremonyInv'
<1>1. /\ phase[p] # "aborted"
      /\ c.kind = "subshare" => phase[p] = "confirmed"
      /\ c \notin processed[p]
      /\ processed' = [processed EXCEPT ![p] = @ \cup {c}]
      /\ UNCHANGED vars
      /\ UNCHANGED <<dealt, handle, added, out, complaints, closed>>
  BY DEF Process, round2
<1>2. /\ c.accuser \in Index /\ c.accused \in Nat
      /\ c.kind = "subshare" \/ c.kind = "pok"
  BY DEF CeremonyInv, Typed, Complaint
<1>3. [Next]_vars
  BY <1>1
<1>4. \A q \in Node : out[q] # None => q # p
  BY <1>1 DEF CeremonyInv, FinalizedSettled, Settled
<1>5. \A q \in Node : processed'[q] = IF q = p THEN processed[p] \cup {c} ELSE processed[q]
  BY <1>1 DEF CeremonyInv, Typed
<1>6. \A q \in Node : q # p =>
        upheld'[q] = upheld[q] /\ forged'[q] = forged[q] /\ flagged'[q] = flagged[q]
  BY DEF Process, CeremonyInv, Typed
<1>7. \A d \in Index : upheld'[p][d] =
        IF c.kind = "subshare" /\ c.accused = d /\ c.accuser # d /\ Verdict(p, c) = "Upheld"
          THEN upheld[p][d] \cup {c.accuser} ELSE upheld[p][d]
  BY <1>2 DEF Process, CeremonyInv, Typed
<1>8. forged'[p] = IF c.kind = "pok" /\ Verdict(p, c) = "Upheld"
                     THEN forged[p] \cup {c.accused} ELSE forged[p]
  BY DEF Process, CeremonyInv, Typed
<1>9. Typed'
  <2>1. processed' \in [Node -> SUBSET complaints']
    BY <1>1 DEF CeremonyInv, Typed
  <2>2. upheld' \in [Node -> [Index -> SUBSET Index]]
    BY <1>2 DEF Process, CeremonyInv, Typed
  <2>3. forged' \in [Node -> SUBSET Nat]
    BY <1>2 DEF Process, CeremonyInv, Typed
  <2>4. flagged' \in [Node -> SUBSET Faulty]
    <3>1. CASE c.accuser \in Node
      <4>1. Verdict(p, c) # "Unfounded"
        BY <1>2, <3>1 DEF Verdict, CeremonyInv, HonestGrounds
      <4> QED BY <4>1 DEF Process, CeremonyInv, Typed
    <3>2. CASE c.accuser \in Faulty
      BY <3>2 DEF Process, CeremonyInv, Typed
    <3> QED BY <1>2, <3>1, <3>2 DEF Node
  <2> QED BY <1>1, <2>1, <2>2, <2>3, <2>4 DEF CeremonyInv, Typed
<1>10. SlotsDelivered' /\ HandleCurrent' /\ OneCopyEach'
  BY <1>1, OffRound1 DEF CeremonyInv, HandleCurrent, OneCopyEach
<1>11. JudgesEchoed'
  <2>1. c.kind = "subshare" => AllEchoed(p)
    BY <1>1 DEF IInv, ConfirmedHeardAll, AllEchoed
  <2> QED BY <1>1, <1>5, <2>1, OffRound1 DEF CeremonyInv, JudgesEchoed
<1>12. TallyExact'
  <2> SUFFICES ASSUME NEW q \in Node
               PROVE  /\ \A d \in Index : upheld'[q][d] = Votes(q, d)'
                      /\ forged'[q] = Convicted(q)'
    BY DEF TallyExact
  <2>1. CASE q # p
    BY <1>3, <1>5, <1>6, <2>1, TallyStays DEF CeremonyInv, TallyExact
  <2>2. CASE q = p
    <3>1. \A b : Verdict(p, b)' = Verdict(p, b)
      BY <1>1 DEF vars, Verdict, CommitmentOf, Feldman, PokVerifies
    <3>2. \A d \in Index : Votes(p, d)' =
            IF c.kind = "subshare" /\ c.accused = d /\ c.accuser # d /\ Verdict(p, c) = "Upheld"
              THEN Votes(p, d) \cup {c.accuser} ELSE Votes(p, d)
      BY <1>5, <3>1 DEF Votes
    <3>3. Convicted(p)' = IF c.kind = "pok" /\ Verdict(p, c) = "Upheld"
                            THEN Convicted(p) \cup {c.accused} ELSE Convicted(p)
      BY <1>5, <3>1 DEF Convicted
    <3> QED BY <1>7, <1>8, <2>2, <3>2, <3>3 DEF CeremonyInv, TallyExact
  <2> QED BY <2>1, <2>2
<1>13. ForCause'
  <2>1. \A q \in Node : forged[q] \subseteq forged'[q]
    BY <1>6, <1>8
  <2>2. \A q \in Node, d \in Index : Reached(q, d) => Reached(q, d)'
    <3> SUFFICES ASSUME NEW q \in Node, NEW d \in Index, Cardinality(upheld[q][d]) >= T
                 PROVE  Cardinality(upheld'[q][d]) >= T
      BY DEF Reached
    <3>1. upheld[q][d] \subseteq upheld'[q][d] /\ upheld'[q][d] \subseteq Index
      <4>1. upheld'[q] \in [Index -> SUBSET Index]
        BY <1>9 DEF Typed
      <4>2. CASE q = p
        BY <1>7, <4>1, <4>2
      <4>3. CASE q # p
        BY <1>6, <4>1, <4>3
      <4> QED BY <4>2, <4>3
    <3>2. IsFiniteSet(upheld'[q][d]) /\ Cardinality(upheld'[q][d]) \in Nat
      BY <3>1, IndexSets
    <3>3. Cardinality(upheld[q][d]) <= Cardinality(upheld'[q][d]) /\ Cardinality(upheld[q][d]) \in Nat
      BY <3>1, <3>2, FS_Subset, FS_CardinalityType
    <3> QED BY <3>2, <3>3, SizeAssumption
  <2> QED BY <1>1, <2>1, <2>2, OffRound1 DEF CeremonyInv, ForCause, Condemned
<1>14. HonestGrounds'
  BY <1>1 DEF CeremonyInv, HonestGrounds, PokVerifies, Feldman
<1>15. FinalizedSettled'
  <2> SUFFICES ASSUME NEW q \in Node, out[q] # None
               PROVE  /\ phase'[q] = "confirmed" /\ Settled(q)'
                      /\ out[q] = [commitment : Left(q)', number : {0}]
    BY <1>1 DEF FinalizedSettled
  <2>1. q # p
    BY <1>4
  <2>2. Condemned(q)' = Condemned(q)
    BY <1>6, <2>1 DEF Condemned, Reached
  <2>3. Settled(q)' <=> Settled(q)
    BY <1>1, <1>5, <2>1, <2>2, OffRound1 DEF Settled
  <2> QED BY <2>3, OffRound1, <1>1 DEF CeremonyInv, FinalizedSettled
<1> QED BY <1>9, <1>10, <1>11, <1>12, <1>13, <1>14, <1>15 DEF CeremonyInv

\* Whoever has not finalized may still disqualify, and starts the aggregation over.
LEMMA ApplyPreserves ==
    ASSUME IInv, CeremonyInv, [Next]_vars, NEW p \in Node, NEW d \in Index, Apply(p, d)
    PROVE  CeremonyInv'
<1>1. /\ d \in Condemned(p) /\ d \notin disqualified[p]
      /\ commitments' = [commitments EXCEPT ![p][d] = None]
      /\ disqualified' = [disqualified EXCEPT ![p] = @ \cup {d}]
      /\ phase' = IF Remaining(p, d) < T
                    THEN [phase EXCEPT ![p] = "aborted"] ELSE phase
      /\ UNCHANGED <<agreed, echoes>>
      /\ handle' = [handle EXCEPT ![p] = HandleWithout(p, d)]
      /\ added' = [added EXCEPT ![p] = {}]
      /\ UNCHANGED <<dealt, out, complaints, closed, processed, upheld, flagged, forged>>
  BY DEF Apply, Disqualify, SlotDropped, NewAggregator, justice
<1>2. \A q \in Node : phase'[q] = phase[q] \/ (q = p /\ phase'[q] = "aborted")
  BY <1>1 DEF IInv, TypeOK
<1>3. \A q \in Node : q # p =>
        /\ phase'[q] = phase[q] /\ commitments'[q] = commitments[q]
        /\ disqualified'[q] = disqualified[q]
        /\ handle'[q] = handle[q] /\ added'[q] = added[q]
  BY <1>1 DEF IInv, TypeOK, CeremonyInv, Typed
<1>4. \A e \in Index : commitments'[p][e] = IF e = d THEN None ELSE commitments[p][e]
  BY <1>1 DEF IInv, TypeOK
<1>5. handle'[p] = HandleWithout(p, d) /\ added'[p] = {}
      /\ disqualified'[p] = disqualified[p] \cup {d}
  BY <1>1 DEF IInv, TypeOK, CeremonyInv, Typed
<1>6. out[p] = None
  BY <1>1 DEF CeremonyInv, FinalizedSettled, Settled
<1>7. Typed'
  <2>1. HandleWithout(p, d) \subseteq Commitment
    BY DEF HandleWithout, Qualified, IInv, TypeOK
  <2>2. handle' \in [Node -> SUBSET Commitment] /\ added' \in [Node -> SUBSET Copy]
    BY <1>1, <2>1 DEF CeremonyInv, Typed
  <2> QED BY <1>1, <2>2 DEF CeremonyInv, Typed
<1>8. SlotsDelivered'
  BY <1>3, <1>4 DEF CeremonyInv, SlotsDelivered
<1>9. HandleCurrent'
  <2> SUFFICES ASSUME NEW q \in Node
               PROVE  /\ phase'[q] = "confirmed" => handle'[q] = Recorded(q)'
                      /\ phase'[q] \in {"collecting", "echoing"} => added'[q] = {}
    BY DEF HandleCurrent
  <2>1. CASE q # p
    BY <1>3, <2>1 DEF CeremonyInv, HandleCurrent, Recorded, Qualified
  <2>2. CASE q = p
    <3>1. Qualified(p)' = Qualified(p) \ {d}
      BY <1>4 DEF Qualified
    <3>2. Recorded(p)' = {commitments[p][e] : e \in Qualified(p) \ {d}}
      BY <1>4, <3>1 DEF Recorded, Qualified
    <3> QED BY <1>2, <1>5, <2>2, <3>2 DEF HandleWithout
  <2> QED BY <2>1, <2>2
<1>10. OneCopyEach'
  BY <1>3, <1>5 DEF CeremonyInv, OneCopyEach
<1>11. JudgesEchoed'
  BY <1>1, EchoedStays DEF CeremonyInv, JudgesEchoed
<1>12. TallyExact'
  BY <1>1, TallyStays DEF CeremonyInv, TallyExact
<1>13. ForCause'
  <2>1. \A q \in Node : Condemned(q)' = Condemned(q)
    BY <1>1 DEF Condemned, Reached
  <2> QED BY <1>1, <1>3, <1>5, <2>1 DEF CeremonyInv, ForCause
<1>14. HonestGrounds'
  BY <1>1 DEF CeremonyInv, HonestGrounds, PokVerifies, Feldman
<1>15. FinalizedSettled'
  <2> SUFFICES ASSUME NEW q \in Node, out[q] # None
               PROVE  /\ phase'[q] = "confirmed" /\ Settled(q)'
                      /\ out[q] = [commitment : Left(q)', number : {0}]
    BY <1>1 DEF FinalizedSettled
  <2>1. q # p
    BY <1>6
  <2>2. Settled(q)' <=> Settled(q)
    BY <1>1, <1>3, <2>1 DEF Settled, Condemned, Reached
  <2>3. Left(q)' = Left(q)
    BY <1>1, <1>3, <2>1 DEF Left
  <2> QED BY <1>3, <2>1, <2>2, <2>3 DEF CeremonyInv, FinalizedSettled
<1> QED BY <1>7, <1>8, <1>9, <1>10, <1>11, <1>12, <1>13, <1>14, <1>15 DEF CeremonyInv

\* Round 1 goes on at participants that have not confirmed.
LEMMA Round1Preserves ==
    ASSUME IInv, CeremonyInv, [Next]_vars, NEW p \in Node, Round1Step(p) \/ EnterRound2(p)
    PROVE  CeremonyInv'
<1>1. /\ UNCHANGED <<disqualified, added, out>>
      /\ UNCHANGED <<complaints, closed, processed, upheld, flagged, forged>>
  BY DEF Round1Step, EnterRound2, SubmitCommitment, AgreeRound1, ReceiveEcho, EchoMismatch,
         ConfirmAll, round2, justice
<1>2. \A q \in Node : phase[q] = "confirmed" =>
        phase'[q] = "confirmed" /\ Recorded(q)' = Recorded(q)
  <2> SUFFICES ASSUME NEW q \in Node, phase[q] = "confirmed"
               PROVE  phase'[q] = "confirmed" /\ Recorded(q)' = Recorded(q)
    OBVIOUS
  <2>1. CASE \E pkg \in Deliverable : SubmitCommitment(p, pkg)
    <3>1. q # p
      BY <2>1 DEF SubmitCommitment, Admissible, IInv, NoSlotLeft
    <3>2. commitments'[q] = commitments[q] /\ phase' = phase
      BY <2>1, <3>1 DEF SubmitCommitment, IInv, TypeOK
    <3> QED BY <3>2 DEF Recorded, Qualified
  <2>2. CASE AgreeRound1(p) \/ (\E r \in Index : ReceiveEcho(p, r)) \/ EchoMismatch(p)
             \/ ConfirmAll(p)
    BY <2>2 DEF AgreeRound1, ReceiveEcho, EchoMismatch, ConfirmAll, IInv, TypeOK,
                Recorded, Qualified
  <2> QED BY <2>1, <2>2 DEF Round1Step, EnterRound2
<1>3. \A q \in Node : phase'[q] \in {"collecting", "echoing"} =>
        phase[q] \in {"collecting", "echoing"}
  BY DEF Round1Step, EnterRound2, SubmitCommitment, AgreeRound1, ReceiveEcho, EchoMismatch,
         ConfirmAll, IInv, TypeOK
<1>4. /\ dealt' \subseteq Node
      /\ handle' \in [Node -> SUBSET Commitment]
      /\ \A q \in Node : phase'[q] = "confirmed" => handle'[q] = Recorded(q)'
      /\ \A q \in Node : added[q] # {} => handle'[q] = handle[q]
  <2>1. CASE Round1Step(p)
    <3>1. dealt' = dealt /\ handle' = handle
      BY <2>1 DEF Round1Step, round2
    <3>2. \A q \in Node : phase'[q] = "confirmed" => phase[q] = "confirmed"
      BY <2>1 DEF Round1Step, SubmitCommitment, AgreeRound1, ReceiveEcho, EchoMismatch,
                  IInv, TypeOK
    <3> QED BY <1>2, <3>1, <3>2 DEF CeremonyInv, Typed, HandleCurrent
  <2>2. CASE EnterRound2(p)
    <3>1. /\ dealt' = dealt \cup {p}
          /\ handle' = [handle EXCEPT ![p] = Recorded(p)]
          /\ phase[p] = "echoing" /\ phase' = [phase EXCEPT ![p] = "confirmed"]
          /\ commitments' = commitments
      BY <2>2 DEF EnterRound2, HandleNow, ConfirmAll
    <3>2. \A q \in Node : Recorded(q)' = Recorded(q)
      BY <3>1 DEF Recorded, Qualified
    <3>3. Recorded(p) \subseteq Commitment
      BY DEF Recorded, Qualified, IInv, TypeOK
    <3>4. added[p] = {}
      BY <3>1 DEF CeremonyInv, HandleCurrent
    <3>5. \A q \in Node : q # p => handle'[q] = handle[q] /\ phase'[q] = phase[q]
      BY <3>1 DEF CeremonyInv, Typed, IInv, TypeOK
    <3>6. handle'[p] = Recorded(p)
      BY <3>1 DEF CeremonyInv, Typed
    <3>7. handle' \in [Node -> SUBSET Commitment]
      BY <3>1, <3>3 DEF CeremonyInv, Typed
    <3> QED BY <3>1, <3>2, <3>4, <3>5, <3>6, <3>7 DEF CeremonyInv, Typed, HandleCurrent
  <2> QED BY <2>1, <2>2
<1>5. Typed'
  BY <1>1, <1>4 DEF CeremonyInv, Typed
<1>6. SlotsDelivered'
  <2>1. CASE \E pkg \in Deliverable : SubmitCommitment(p, pkg)
    BY <2>1 DEF SubmitCommitment, CeremonyInv, SlotsDelivered, IInv, TypeOK
  <2>2. CASE UNCHANGED commitments
    BY <2>2 DEF CeremonyInv, SlotsDelivered
  <2> QED BY <2>1, <2>2 DEF Round1Step, EnterRound2, AgreeRound1, ReceiveEcho, EchoMismatch,
                            ConfirmAll
<1>7. HandleCurrent' /\ OneCopyEach'
  BY <1>1, <1>3, <1>4 DEF CeremonyInv, HandleCurrent, OneCopyEach
<1>8. JudgesEchoed'
  BY <1>1, EchoedStays DEF CeremonyInv, JudgesEchoed
<1>9. TallyExact'
  BY <1>1, TallyStays DEF CeremonyInv, TallyExact
<1>10. ForCause' /\ HonestGrounds'
  BY <1>1 DEF CeremonyInv, ForCause, Condemned, Reached, HonestGrounds, PokVerifies, Feldman
<1>11. FinalizedSettled'
  <2> SUFFICES ASSUME NEW q \in Node, out[q] # None
               PROVE  /\ phase'[q] = "confirmed" /\ Settled(q)'
                      /\ out[q] = [commitment : Left(q)', number : {0}]
    BY <1>1 DEF FinalizedSettled
  <2>1. /\ phase[q] = "confirmed" /\ Settled(q)
        /\ out[q] = [commitment : Left(q), number : {0}]
    BY DEF CeremonyInv, FinalizedSettled
  <2>2. AllEchoed(q)
    BY <2>1 DEF IInv, ConfirmedHeardAll, AllEchoed
  <2>3. Left(q)' = Left(q)
    BY <1>1, <2>2, EchoedStays DEF Left
  <2>4. Settled(q)' <=> Settled(q)
    BY <1>1 DEF Settled, Condemned, Reached
  <2> QED BY <1>2, <2>1, <2>3, <2>4
<1> QED BY <1>5, <1>6, <1>7, <1>8, <1>9, <1>10, <1>11 DEF CeremonyInv

\* In round 2 the handle is what is left of the echoed set, one commitment a dealer.
LEMMA HandleIsLeft ==
    ASSUME IInv, CeremonyInv, NEW p \in Node, phase[p] = "confirmed"
    PROVE  /\ handle[p] = Left(p)
           /\ Recorded(p) = Left(p)
           /\ \A c, e \in Left(p) : c.dealer = e.dealer => c = e
           /\ DealerSet(p) \subseteq Index
<1>1. handle[p] = Recorded(p)
  BY DEF CeremonyInv, HandleCurrent
<1>2. Recorded(p) = Left(p)
  BY DEF IInv, HandleOnlyShrinks, Left
<1>3. \A d \in Qualified(p) : commitments[p][d].dealer = d
  BY DEF IInv, TypeOK
<1>4. \A c, e \in Recorded(p) : c.dealer = e.dealer => c = e
  BY <1>3 DEF Recorded
<1>5. DealerSet(p) \subseteq Index
  BY <1>1, <1>3 DEF DealerSet, Recorded, Qualified
<1> QED BY <1>1, <1>2, <1>4, <1>5

\* A count of sub-shares that equals the count of dealers is one of each.
LEMMA CompleteIsAll ==
    ASSUME IInv, CeremonyInv, NEW p \in Node, phase[p] = "confirmed", AggregatorComplete(p)
    PROVE  added[p] = [commitment : Left(p), number : {0}]
<1> DEFINE from == [v \in added[p] |-> v.commitment.dealer]
<1>1. \A v \in added[p] : v \in Copy /\ v.commitment \in handle[p] /\ v.number = 0
  BY DEF CeremonyInv, OneCopyEach, Typed
<1>2. from \in Injection(added[p], DealerSet(p))
  <2>1. from \in [added[p] -> DealerSet(p)]
    BY <1>1 DEF DealerSet
  <2>2. ASSUME NEW v \in added[p], NEW w \in added[p], from[v] = from[w]
        PROVE  v = w
    <3>1. v.commitment = w.commitment
      BY <1>1, <2>2, HandleIsLeft
    <3> QED BY <1>1, <3>1 DEF Copy
  <2> QED BY <2>1, <2>2 DEF Injection, IsInjective
<1>3. IsFiniteSet(DealerSet(p))
  BY HandleIsLeft, IndexSets
<1>4. from \in Surjection(added[p], DealerSet(p))
  BY <1>2, <1>3, FS_Injection DEF AggregatorComplete
<1>5. \A c \in handle[p] : \E v \in added[p] : v.commitment = c
  <2> TAKE c \in handle[p]
  <2>1. c.dealer \in DealerSet(p)
    BY DEF DealerSet
  <2>2. PICK v \in added[p] : from[v] = c.dealer
    BY <1>4, <2>1 DEF Surjection
  <2> QED BY <1>1, <2>2, HandleIsLeft
<1>6. added[p] \subseteq [commitment : Left(p), number : {0}]
  BY <1>1, HandleIsLeft DEF Copy
<1>7. \A x \in [commitment : Left(p), number : {0}] : x \in added[p]
  <2> TAKE x \in [commitment : Left(p), number : {0}]
  <2>1. PICK v \in added[p] : v.commitment = x.commitment
    BY <1>5, HandleIsLeft
  <2>2. v \in [commitment : Left(p), number : {0}]
    BY <1>6
  <2>3. v = x
    BY <2>1, <2>2
  <2> QED BY <2>3
<1> QED BY <1>6, <1>7

LEMMA FinalizePreserves ==
    ASSUME IInv, CeremonyInv, NEW p \in Node, Finalize(p)
    PROVE  CeremonyInv'
<1>1. /\ phase[p] = "confirmed" /\ Settled(p) /\ AggregatorComplete(p)
      /\ out' = [out EXCEPT ![p] = added[p]]
      /\ UNCHANGED vars
      /\ UNCHANGED <<dealt, handle, added, complaints, closed, processed, upheld, flagged, forged>>
  BY DEF Finalize, justice
<1>2. Typed'
  BY <1>1 DEF CeremonyInv, Typed
<1>3. SlotsDelivered' /\ HandleCurrent' /\ OneCopyEach' /\ JudgesEchoed'
  BY <1>1, OffRound1 DEF CeremonyInv, HandleCurrent, OneCopyEach, JudgesEchoed
<1>4. TallyExact'
  <2>1. [Next]_vars
    BY <1>1
  <2> QED BY <1>1, <2>1, TallyStays DEF CeremonyInv, TallyExact
<1>5. ForCause' /\ HonestGrounds'
  BY <1>1, OffRound1 DEF CeremonyInv, ForCause, Condemned, Reached, HonestGrounds,
                         PokVerifies, Feldman
<1>6. FinalizedSettled'
  <2> SUFFICES ASSUME NEW q \in Node, out'[q] # None
               PROVE  /\ phase'[q] = "confirmed" /\ Settled(q)'
                      /\ out'[q] = [commitment : Left(q)', number : {0}]
    BY DEF FinalizedSettled
  <2>1. Settled(q)' <=> Settled(q)
    BY <1>1, OffRound1 DEF Settled, Condemned, Reached
  <2>2. CASE q = p
    BY <1>1, <2>1, <2>2, CompleteIsAll, OffRound1 DEF CeremonyInv, Typed
  <2>3. CASE q # p
    BY <1>1, <2>1, <2>3, OffRound1 DEF CeremonyInv, Typed, FinalizedSettled
  <2> QED BY <2>2, <2>3
<1> QED BY <1>2, <1>3, <1>4, <1>5, <1>6 DEF CeremonyInv

\* The invariant is inductive, given round 1's.
LEMMA StepPreserves == IInv /\ CeremonyInv /\ [CeremonyNext]_allVars => CeremonyInv'
<1> SUFFICES ASSUME IInv, CeremonyInv, [CeremonyNext]_allVars PROVE CeremonyInv'
  OBVIOUS
<1>1. [Next]_vars
  BY StepOfRound1
<1>2. CASE UNCHANGED allVars
  <2>1. /\ UNCHANGED vars
        /\ UNCHANGED <<dealt, handle, added, out, complaints, closed, processed, upheld,
                       flagged, forged>>
    BY <1>2 DEF allVars, round2, justice
  <2>2. SlotsDelivered' /\ HandleCurrent' /\ OneCopyEach' /\ JudgesEchoed'
    BY <2>1, OffRound1 DEF CeremonyInv, HandleCurrent, OneCopyEach, JudgesEchoed
  <2>3. Typed' /\ TallyExact'
    BY <1>1, <2>1, TallyStays DEF CeremonyInv, Typed, TallyExact
  <2>4. ForCause' /\ HonestGrounds'
    BY <2>1, OffRound1 DEF CeremonyInv, ForCause, Condemned, Reached, HonestGrounds,
                           PokVerifies, Feldman
  <2>5. FinalizedSettled'
    BY <2>1, OffRound1 DEF CeremonyInv, FinalizedSettled, Settled, Condemned, Reached
  <2> QED BY <2>2, <2>3, <2>4, <2>5 DEF CeremonyInv
<1>3. ASSUME NEW p \in Node, NodeStep(p) PROVE CeremonyInv'
  <2>1. CASE Round1Step(p) \/ EnterRound2(p)
    BY <1>1, <2>1, Round1Preserves
  <2>2. CASE \E pkg \in Deliverable : AccuseOfForgery(p, pkg)
    BY <2>2, ForgeryPreserves
  <2>3. CASE \E sp \in Wire : AddSubShare(p, sp) \/ AccuseOfBadSubShare(p, sp)
    BY <2>3, AddPreserves, BadSubSharePreserves
  <2>4. CASE \E c \in complaints : Process(p, c)
    BY <2>4, ProcessPreserves
  <2>5. CASE \E d \in Index : Apply(p, d)
    BY <1>1, <2>5, ApplyPreserves
  <2>6. CASE Finalize(p)
    BY <2>6, FinalizePreserves
  <2> QED BY <1>3, <2>1, <2>2, <2>3, <2>4, <2>5, <2>6 DEF NodeStep
<1>4. CASE (\E c \in Fabricated : FaultyComplaint(c)) \/ Close
  BY <1>4, FabricatedPreserves, ClosePreserves
<1> QED BY <1>2, <1>3, <1>4 DEF CeremonyNext

\* The parts of the invariant hold together, in every state of the ceremony.
THEOREM CeremonyInvariant == CeremonySpec => [](IInv /\ CeremonyInv)
<1>1. CeremonySpec => []CeremonyInv
  BY CeremonyInitInv, StepPreserves, Round1Invariant, PTL DEF CeremonySpec
<1> QED BY <1>1, Round1Invariant, PTL

-----------------------------------------------------------------------------
(* What follows from it *)

\* Every ceremony variable has its type, and an aggregator one sub-share of a
\* dealer at most.
THEOREM CeremonyTypes == CeremonySpec => []CeremonyTypeOK
<1>1. CeremonyInv => CeremonyTypeOK
  <2> SUFFICES ASSUME CeremonyInv PROVE CeremonyTypeOK
    OBVIOUS
  <2>1. \A p \in Node : Summed(added[p]) \subseteq handle[p] /\ \A v \in added[p] : v.number = 0
    BY DEF CeremonyInv, OneCopyEach, Summed
  <2>2. flagged \in [Node -> SUBSET Index]
    BY FaultyAssumption DEF CeremonyInv, Typed
  <2> QED BY <2>1, <2>2 DEF CeremonyInv, Typed, CeremonyTypeOK
<1> QED BY <1>1, CeremonyInvariant, PTL

\* No judge, honest and at whatever point of the ceremony, finds the complaint
\* of an honest accuser unfounded.
THEOREM AccusersSafe == CeremonySpec => []HonestAccuserNeverFlagged
<1>1. CeremonyInv => HonestAccuserNeverFlagged
  BY DEF CeremonyInv, Typed, HonestAccuserNeverFlagged
<1> QED BY <1>1, CeremonyInvariant, PTL

\* Whoever has judged more condemns more.
LEMMA JudgingMore ==
    ASSUME IInv, CeremonyInv, NEW p \in Node, NEW q \in Node, AllEchoed(p),
           processed[q] \subseteq processed[p]
    PROVE  Condemned(q) \subseteq Condemned(p)
<1> SUFFICES ASSUME NEW d \in Condemned(q) PROVE d \in Condemned(p)
  OBVIOUS
<1>1. \A c \in processed[q] : Verdict(q, c) = Verdict(p, c)
  <2> TAKE c \in processed[q]
  <2>1. c.kind = "subshare" \/ c.kind = "pok"
    BY DEF CeremonyInv, Typed, Complaint
  <2>2. c.kind = "subshare" => agreed[q] = agreed[p]
    BY EchoedAgree DEF CeremonyInv, JudgesEchoed
  <2> QED BY <2>1, <2>2, VerdictOfSet
<1>2. d \in Index
  BY DEF Condemned
<1>3. CASE d \in forged[q]
  BY <1>1, <1>2, <1>3 DEF CeremonyInv, TallyExact, Convicted, Condemned
<1>4. CASE Reached(q, d)
  <2>1. upheld[q][d] \subseteq upheld[p][d] /\ upheld[p][d] \subseteq Index
    BY <1>1, <1>2 DEF CeremonyInv, TallyExact, Votes, Typed
  <2>2. /\ IsFiniteSet(upheld[p][d]) /\ Cardinality(upheld[p][d]) \in Nat
        /\ Cardinality(upheld[q][d]) \in Nat
    BY <2>1, IndexSets
  <2>3. Cardinality(upheld[q][d]) <= Cardinality(upheld[p][d])
    BY <2>1, <2>2, FS_Subset
  <2>4. Cardinality(upheld[p][d]) >= T
    BY <1>4, <2>2, <2>3, SizeAssumption DEF Reached
  <2> QED BY <1>2, <2>4 DEF Condemned, Reached
<1> QED BY <1>3, <1>4 DEF Condemned

\* In round 2 everybody has been heard.
LEMMA ConfirmedEchoed ==
    ASSUME IInv, NEW p \in Node, phase[p] = "confirmed"
    PROVE  AllEchoed(p)
BY DEF IInv, ConfirmedHeardAll, AllEchoed

\* Two participants that have applied the whole log are left with one set.
LEMMA SettledAgree ==
    ASSUME IInv, CeremonyInv, NEW p \in Node, NEW q \in Node,
           phase[p] = "confirmed", phase[q] = "confirmed", Settled(p), Settled(q)
    PROVE  Left(p) = Left(q)
<1>1. AllEchoed(p) /\ AllEchoed(q) /\ agreed[p] = agreed[q]
  BY ConfirmedEchoed, EchoedAgree
<1>2. processed[p] = processed[q]
  BY DEF Settled
<1>3. Condemned(p) = Condemned(q)
  <2>1. Condemned(p) \subseteq Condemned(q)
    BY <1>1, <1>2, JudgingMore
  <2>2. Condemned(q) \subseteq Condemned(p)
    BY <1>1, <1>2, JudgingMore
  <2> QED BY <2>1, <2>2
<1>4. disqualified[p] = disqualified[q]
  BY <1>3 DEF Settled, CeremonyInv, ForCause
<1> QED BY <1>1, <1>4 DEF Left

\* What somebody has finalized over.
LEMMA SummedIsLeft ==
    ASSUME CeremonyInv, NEW p \in Node, out[p] # None
    PROVE  Summed(out[p]) = Left(p) /\ phase[p] = "confirmed" /\ Settled(p)
<1>1. out[p] = [commitment : Left(p), number : {0}] /\ phase[p] = "confirmed" /\ Settled(p)
  BY DEF CeremonyInv, FinalizedSettled
<1>2. \A c \in Left(p) : [commitment |-> c, number |-> 0] \in out[p]
  BY <1>1
<1>3. Summed(out[p]) \subseteq Left(p)
  BY <1>1 DEF Summed
<1>4. ASSUME NEW c \in Left(p) PROVE c \in Summed(out[p])
  <2>1. [commitment |-> c, number |-> 0].commitment = c
    OBVIOUS
  <2> QED BY <1>2, <2>1 DEF Summed
<1> QED BY <1>1, <1>3, <1>4

\* A dealer that any honest participant disqualified, on any part of the log, is
\* in nobody's key.
THEOREM NoneCondemned == CeremonySpec => []KeyWithoutCondemned
<1>1. IInv /\ CeremonyInv => KeyWithoutCondemned
  <2> SUFFICES ASSUME IInv, CeremonyInv, NEW p \in Node, NEW q \in Node, out[p] # None,
                      NEW c \in Summed(out[p]), c.dealer \in disqualified[q]
               PROVE  FALSE
    BY DEF KeyWithoutCondemned
  <2>1. c \in Left(p) /\ Settled(p) /\ AllEchoed(p)
    BY SummedIsLeft, ConfirmedEchoed
  <2>2. processed[q] \subseteq processed[p]
    BY <2>1 DEF Settled, CeremonyInv, Typed
  <2>3. c.dealer \in Condemned(p)
    BY <2>1, <2>2, JudgingMore DEF CeremonyInv, ForCause
  <2> QED BY <2>1, <2>3 DEF Settled, Left
<1> QED BY <1>1, CeremonyInvariant, PTL

\* The group key and the verification shares are derived from the commitments
\* that the secret share is a sum over.
THEOREM KeyOfShare == CeremonySpec => []StateDerivesKeyOfShare
<1>1. IInv /\ CeremonyInv => StateDerivesKeyOfShare
  <2> SUFFICES ASSUME IInv, CeremonyInv, NEW p \in Node, out[p] # None
               PROVE  out[p] = [commitment : KeyBasis(p), number : {0}]
    BY DEF StateDerivesKeyOfShare
  <2>1. phase[p] = "confirmed" /\ out[p] = [commitment : Left(p), number : {0}]
    BY DEF CeremonyInv, FinalizedSettled
  <2>2. IsComplete(p)
    BY <2>1, CompleteMeansAll DEF IInv, NoSlotLeft
  <2> QED BY <2>1, <2>2, HandleIsLeft DEF KeyBasis
<1> QED BY <1>1, CeremonyInvariant, PTL

-----------------------------------------------------------------------------
(* Honest dealers *)

\* With fewer than T faulty participants, whatever scalars these make up and
\* however often they complain, an honest dealer is disqualified only where a
\* round-1 complaint against it was upheld.
THEOREM HonestNotVoted ==
    ASSUME Cardinality(Faulty) < T
    PROVE  CeremonySpec => []HonestNotVotedOut
<1>1. IInv /\ CeremonyInv => HonestNotVotedOut
  <2> SUFFICES ASSUME IInv, CeremonyInv, NEW p \in Node,
                      NEW d \in disqualified[p], d \notin forged[p], d \notin Faulty
               PROVE  FALSE
    BY DEF HonestNotVotedOut
  <2>1. d \in Node /\ Reached(p, d)
    BY DEF CeremonyInv, ForCause, Condemned, Node
  <2>2. upheld[p][d] = Votes(p, d)
    BY <2>1 DEF CeremonyInv, TallyExact, Node
  <2>3. Votes(p, d) \subseteq Faulty
    <3> SUFFICES ASSUME NEW c \in processed[p], c.kind = "subshare", c.accused = d,
                        c.accuser \in Node
                 PROVE  FALSE
      BY DEF Votes, CeremonyInv, Typed, Complaint, Node
    <3> QED BY DEF CeremonyInv, Typed, HonestGrounds
  <2>4. Cardinality(Votes(p, d)) <= Cardinality(Faulty)
    BY <2>3, FaultyAssumption, IndexSets, FS_Subset
  <2>5. Cardinality(Votes(p, d)) \in Nat /\ Cardinality(Faulty) \in Nat
    BY <2>3, FaultyAssumption, IndexSets
  <2> QED BY <2>1, <2>2, <2>4, <2>5, SizeAssumption DEF Reached
<1> QED BY <1>1, CeremonyInvariant, PTL

-----------------------------------------------------------------------------
(* The abstract key generation *)

\* What a participant of round 2 is left with is a key in OneKey's sense.
LEMMA LeftIsKey ==
    ASSUME IInv, CeremonyInv, LiveHandleHasQuorum, NEW p \in Node, phase[p] = "confirmed"
    PROVE  Promise!Key(Left(p))
<1> DEFINE slot == [d \in Qualified(p) |-> commitments[p][d]]
<1>1. \A d \in Qualified(p) : d \in Index /\ commitments[p][d].dealer = d
  BY DEF IInv, TypeOK, Qualified
<1>2. Left(p) = Recorded(p)
  BY HandleIsLeft
<1>3. slot \in Bijection(Qualified(p), Recorded(p))
  <2>1. slot \in [Qualified(p) -> Recorded(p)]
    BY DEF Recorded
  <2>2. \A d, e \in Qualified(p) : slot[d] = slot[e] => d = e
    BY <1>1
  <2>3. \A c \in Recorded(p) : \E d \in Qualified(p) : slot[d] = c
    BY DEF Recorded
  <2> QED BY <2>1, <2>2, <2>3 DEF Bijection, Injection, IsInjective, Surjection
<1>4. Cardinality(Recorded(p)) = Cardinality(Qualified(p))
  <2>1. IsFiniteSet(Qualified(p))
    BY <1>1, IndexSets
  <2>2. ExistsBijection(Qualified(p), Recorded(p))
    BY <1>3 DEF ExistsBijection
  <2> QED BY <2>1, <2>2, FS_Bijection
<1>5. Cardinality(Left(p)) >= T
  BY <1>2, <1>4 DEF LiveHandleHasQuorum
<1>6. \A c \in Left(p) : c \in {pkg.commitment : pkg \in Deliverable}
  BY <1>1, <1>2 DEF CeremonyInv, SlotsDelivered, Recorded, Qualified
<1>7. \A c \in Left(p) : c.dealer \in Node => c = Genuine(c.dealer, Epoch).commitment
  BY <1>1, <1>2 DEF IInv, HonestDealerIntact, Recorded, Qualified
<1>8. Promise!Cardinality(Left(p)) = Cardinality(Left(p))
  BY Zenon DEF Promise!Cardinality, Cardinality
<1> QED BY <1>5, <1>6, <1>7, <1>8, HandleIsLeft DEF Promise!Key

\* Every participant that gets through gets the same key, whatever the faulty
\* ones send, sign and echo, and however many they are.
THEOREM ImplementsKey == CeremonySpec => ImplementsOneKey
<1> DEFINE res == [p \in Node |-> IF out[p] = None THEN None ELSE Summed(out[p])]
<1>1. CeremonyInit => Promise!Init
  BY DEF CeremonyInit, Promise!Init
<1>2. IInv /\ CeremonyInv /\ LiveHandleHasQuorum /\ [CeremonyNext]_allVars
        => [Promise!Next]_res
  <2> SUFFICES ASSUME IInv, CeremonyInv, LiveHandleHasQuorum, [CeremonyNext]_allVars
               PROVE  [Promise!Next]_res
    OBVIOUS
  <2>1. CASE UNCHANGED out
    BY <2>1 DEF Summed
  <2>2. ASSUME NEW p \in Node, Finalize(p)
        PROVE  [Promise!Next]_res
    <3>1. /\ phase[p] = "confirmed" /\ out[p] = None /\ Settled(p) /\ AggregatorComplete(p)
          /\ out' = [out EXCEPT ![p] = added[p]]
      BY <2>2 DEF Finalize
    <3>2. CASE added[p] = None
      <4>1. out' = out
        BY <3>1, <3>2 DEF CeremonyInv, Typed
      <4> QED BY <2>1, <4>1
    <3>3. CASE added[p] # None
      <4>1. added[p] = [commitment : Left(p), number : {0}]
        BY <3>1, CompleteIsAll
      <4>2. Summed(added[p]) = Left(p)
        <5>1. \A c \in Left(p) : [commitment |-> c, number |-> 0] \in added[p]
          BY <4>1
        <5>2. ASSUME NEW c \in Left(p) PROVE c \in Summed(added[p])
          <6>1. [commitment |-> c, number |-> 0].commitment = c
            OBVIOUS
          <6> QED BY <5>1, <6>1 DEF Summed
        <5>3. Summed(added[p]) \subseteq Left(p)
          BY <4>1 DEF Summed
        <5> QED BY <5>2, <5>3
      <4>3. res' = [res EXCEPT ![p] = Left(p)]
        <5>1. \A q \in Node : out'[q] = IF q = p THEN added[p] ELSE out[q]
          BY <3>1 DEF CeremonyInv, Typed
        <5>2. \A q \in Node : (IF out'[q] = None THEN None ELSE Summed(out'[q]))
                = IF q = p THEN Left(p) ELSE res[q]
          BY <3>3, <4>2, <5>1
        <5> QED BY <5>2 DEF Summed
      <4>4. \A q \in Node : res[q] \in {None, Left(p)}
        BY <3>1, SummedIsLeft, SettledAgree
      <4>5. Promise!Key(Left(p))
        BY <3>1, LeftIsKey
      <4>6. Left(p) \in SUBSET {pkg.commitment : pkg \in Deliverable}
        BY <4>5 DEF Promise!Key
      <4>7. res[p] = None
        BY <3>1
      <4>8. PICK S \in SUBSET {pkg.commitment : pkg \in Deliverable} : S = Left(p)
        BY <4>6
      <4>9. Promise!Obtain(p, S)
        BY <4>3, <4>4, <4>5, <4>7, <4>8 DEF Promise!Obtain
      <4> QED BY <4>9 DEF Promise!Next
    <3> QED BY <3>2, <3>3
  <2>3. CASE \E c \in Fabricated : FaultyComplaint(c)
    BY <2>1, <2>3 DEF FaultyComplaint, round2
  <2>4. CASE Close
    BY <2>1, <2>4 DEF Close, round2
  <2>5. ASSUME NEW p \in Node, NodeStep(p), ~ Finalize(p)
        PROVE  UNCHANGED out
    BY <2>5 DEF NodeStep, Round1Step, AccuseOfForgery, EnterRound2, AddSubShare,
                AccuseOfBadSubShare, Process, Apply, round2
  <2> QED BY <2>1, <2>2, <2>3, <2>4, <2>5 DEF CeremonyNext, allVars, round2
<1>3. CeremonySpec => []LiveHandleHasQuorum
  <2>1. CeremonyInit => Init
    BY DEF CeremonyInit
  <2>2. CeremonySpec => Spec
    BY <2>1, StepOfRound1, PTL DEF CeremonySpec, Spec
  <2> QED BY <2>2, Quorum, PTL
<1> QED BY <1>1, <1>2, <1>3, CeremonyInvariant, PTL
    DEF CeremonySpec, ImplementsOneKey, Promise!Spec
=============================================================================
