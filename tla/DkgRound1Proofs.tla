-------------------------- MODULE DkgRound1Proofs --------------------------
(***************************************************************************)
(* Round 1 for every number of participants, every threshold, every set of *)
(* faulty participants and whatever these may send.                        *)
(*                                                                         *)
(* The inductive invariant says why confirm_all is enough: a digest held   *)
(* from an honest participant is the digest of the handle that participant *)
(* still holds, and a confirmed participant has heard everybody.           *)
(***************************************************************************)
EXTENDS DkgRound1, FiniteSetTheorems, TLAPS

\* No dealer is both recorded and disqualified.
NeverBoth ==
    \A p \in Node : \A d \in disqualified[p] : commitments[p][d] = None

\* An echo held from an honest participant is that of its standing handle.
HonestEchoes ==
    \A p, q \in Node :
        echoes[p][q] # {} =>
            /\ phase[q] # "collecting"
            /\ echoes[p][q] = {EchoDigest(agreed[q])}

\* confirm_all saw the same digest from everybody.
ConfirmedHeardAll ==
    \A p \in Node :
        phase[p] = "confirmed" =>
            \A q \in Index : echoes[p][q] = {EchoDigest(agreed[p])}

\* Behind a handle there is no empty slot left to fill.
NoSlotLeft ==
    \A p \in Node :
        phase[p] \in {"echoing", "confirmed"} =>
            \A d \in Index : commitments[p][d] # None \/ d \in disqualified[p]

\* Whoever goes on has at least T dealers that are not disqualified.
EnoughRemain ==
    \A p \in Node : phase[p] # "aborted" => N - Cardinality(disqualified[p]) >= T

IInv ==
    /\ TypeOK
    /\ NeverBoth
    /\ HonestDealerIntact
    /\ HonestEchoes
    /\ ConfirmedHeardAll
    /\ NoSlotLeft
    /\ HandleOnlyShrinks
    /\ EnoughRemain

-----------------------------------------------------------------------------
(* Counting *)

\* N indices: a subset with at least N members is all of them.
LEMMA FullSubset ==
    ASSUME NEW S \in SUBSET Index, Cardinality(S) >= N
    PROVE  S = Index
<1>1. IsFiniteSet(Index) /\ Cardinality(Index) = N
  BY SizeAssumption, FS_Interval DEF Index
<1>2. IsFiniteSet(S) /\ Cardinality(S) <= N
  BY <1>1, FS_Subset
<1>3. Cardinality(S) = Cardinality(Index)
  BY <1>1, <1>2, FS_CardinalityType, SizeAssumption
<1>4. QED
  BY <1>1, <1>3, FS_Subset

\* Sets of indices are finite, with at most N members.
LEMMA IndexSets ==
    ASSUME NEW S \in SUBSET Index
    PROVE  IsFiniteSet(S) /\ Cardinality(S) \in Nat /\ Cardinality(S) <= N
<1>1. IsFiniteSet(Index) /\ Cardinality(Index) = N
  BY SizeAssumption, FS_Interval DEF Index
<1>2. QED
  BY <1>1, FS_Subset, FS_CardinalityType

\* Disjoint sets of indices whose sizes add up to N cover the indices, and
\* conversely.
LEMMA DisjointCover ==
    ASSUME NEW Q \in SUBSET Index, NEW D \in SUBSET Index, Q \cap D = {}
    PROVE  Cardinality(Q) + Cardinality(D) = N <=> Q \cup D = Index
<1>1. IsFiniteSet(Q) /\ IsFiniteSet(D) /\ Cardinality(Q) \in Nat /\ Cardinality(D) \in Nat
  BY IndexSets
<1>2. Cardinality(Q \cup D) = Cardinality(Q) + Cardinality(D)
  <2>1. Cardinality(Q \cap D) = 0
    BY FS_EmptySet
  <2>2. Cardinality(Q \cup D)
          = Cardinality(Q) + Cardinality(D) - Cardinality(Q \cap D)
    BY <1>1, FS_Union
  <2>3. QED
    BY <1>1, <2>1, <2>2
<1>3. Cardinality(Index) = N
  BY SizeAssumption, FS_Interval DEF Index
<1>4. CASE Q \cup D = Index
  BY <1>2, <1>3, <1>4
<1>5. CASE Cardinality(Q) + Cardinality(D) = N
  <2>1. Cardinality(Q \cup D) >= N
    BY <1>2, <1>5, SizeAssumption
  <2>2. QED
    BY <1>5, <2>1, FullSubset
<1>6. QED
  BY <1>4, <1>5

\* is_complete, which adds two counts, says that every dealer is accounted for.
LEMMA CompleteMeansAll ==
    ASSUME TypeOK, NeverBoth, NEW p \in Node
    PROVE  IsComplete(p) <=> \A d \in Index : commitments[p][d] # None \/ d \in disqualified[p]
<1>1. Qualified(p) \in SUBSET Index /\ disqualified[p] \in SUBSET Index
  BY DEF TypeOK, Qualified
<1>2. Qualified(p) \cap disqualified[p] = {}
  BY DEF NeverBoth, Qualified
<1>3. IsComplete(p) <=> Qualified(p) \cup disqualified[p] = Index
  BY <1>1, <1>2, DisjointCover DEF IsComplete
<1>4. QED
  BY <1>1, <1>3 DEF Qualified

-----------------------------------------------------------------------------
(* The inductive invariant *)

\* Before the first message nobody holds anything.
LEMMA InitInvariant == Init => IInv
<1> SUFFICES ASSUME Init PROVE IInv
  OBVIOUS
<1>1. TypeOK
  BY DEF Init, TypeOK, Qualified, Phase
<1>2. NeverBoth /\ HonestDealerIntact /\ HonestEchoes
  BY DEF Init, NeverBoth, HonestDealerIntact, HonestEchoes, Node
<1>3. ConfirmedHeardAll /\ NoSlotLeft /\ HandleOnlyShrinks
  BY DEF Init, ConfirmedHeardAll, NoSlotLeft, HandleOnlyShrinks
<1>4. EnoughRemain
  BY FS_EmptySet, SizeAssumption DEF Init, EnoughRemain
<1>5. QED
  BY <1>1, <1>2, <1>3, <1>4 DEF IInv

\* A package that is let in fills one empty slot, with what it says.
LEMMA SubmitPreserves ==
    ASSUME IInv, NEW p \in Node, NEW pkg \in Deliverable, SubmitCommitment(p, pkg)
    PROVE  IInv'
<1> DEFINE c == pkg.commitment
<1>1. /\ phase[p] # "aborted"
      /\ PokVerifies(pkg, Epoch)
      /\ c.dealer \in Index /\ c.dealer \notin disqualified[p]
      /\ c.len = T
      /\ commitments[p][c.dealer] = None
      /\ commitments' = [commitments EXCEPT ![p][c.dealer] = c]
      /\ UNCHANGED <<disqualified, phase, agreed, echoes>>
  BY DEF SubmitCommitment, Admissible
<1>2. c \in Commitment
  <2>1. CASE pkg \in FaultyPackages
    BY <2>1, PackagesAssumption DEF Round1Package
  <2>2. CASE \E d \in Node, e \in {Epoch} \cup Replayed : pkg = Genuine(d, e)
    <3>1. PICK d \in Node, e \in {Epoch} \cup Replayed : pkg = Genuine(d, e)
      BY <2>2
    <3>2. d \in Nat /\ e \in Nat /\ T \in Nat
      BY SizeAssumption, EpochAssumption DEF Node, Index
    <3>3. QED
      BY <3>1, <3>2 DEF Genuine, Commitment
  <2>3. QED
    BY <2>1, <2>2 DEF Deliverable
<1>3. c # None
  BY <1>2, NoneAssumption
<1>4. \A q \in Node, d \in Index :
        commitments'[q][d] = IF q = p /\ d = c.dealer THEN c ELSE commitments[q][d]
  BY <1>1 DEF IInv, TypeOK
<1>5. TypeOK'
  <2>1. commitments' \in [Node -> [Index -> Commitment \cup {None}]]
    BY <1>1, <1>2 DEF IInv, TypeOK
  <2>2. \A q \in Node : \A d \in Qualified(q)' :
            commitments'[q][d].dealer = d /\ commitments'[q][d].len = T
    BY <1>1, <1>4 DEF IInv, TypeOK, Qualified
  <2>3. QED
    BY <1>1, <2>1, <2>2 DEF IInv, TypeOK
<1>6. NeverBoth'
  BY <1>1, <1>4 DEF IInv, NeverBoth, TypeOK
<1>7. HonestDealerIntact'
  <2>1. CASE c.dealer \in Node
    <3>1. PICK d \in Node, e \in {Epoch} \cup Replayed : pkg = Genuine(d, e)
      BY <2>1, PackagesAssumption DEF Deliverable
    <3>2. e = Epoch
      BY <1>1, <3>1 DEF PokVerifies, Genuine
    <3>3. d = c.dealer
      BY <3>1 DEF Genuine
    <3>4. c = Genuine(c.dealer, Epoch).commitment
      BY <3>1, <3>2, <3>3
    <3>5. QED
      BY <1>4, <3>4 DEF IInv, HonestDealerIntact, Node
  <2>2. CASE c.dealer \notin Node
    BY <1>4, <2>2 DEF IInv, HonestDealerIntact, Node
  <2>3. QED
    BY <2>1, <2>2
<1>8. phase[p] \notin {"echoing", "confirmed"}
  BY <1>1 DEF IInv, NoSlotLeft
<1>9. NoSlotLeft' /\ HandleOnlyShrinks'
  <2>1. \A q \in Node : q # p => Qualified(q)' = Qualified(q)
    BY <1>4 DEF Qualified
  <2>2. \A q \in Node : q # p => Recorded(q)' = Recorded(q)
    BY <1>4, <2>1 DEF Recorded, Qualified
  <2>3. QED
    BY <1>1, <1>4, <1>8, <2>2 DEF IInv, NoSlotLeft, HandleOnlyShrinks
<1>10. HonestEchoes' /\ ConfirmedHeardAll' /\ EnoughRemain'
  BY <1>1 DEF IInv, HonestEchoes, ConfirmedHeardAll, EnoughRemain
<1>11. QED
  BY <1>5, <1>6, <1>7, <1>9, <1>10 DEF IInv

\* A disqualification empties one slot and may stop its participant.
LEMMA DisqualifyPreserves ==
    ASSUME IInv, NEW p \in Node, NEW d \in Index, Disqualify(p, d)
    PROVE  IInv'
<1>1. /\ commitments' = [commitments EXCEPT ![p][d] = None]
      /\ disqualified' = [disqualified EXCEPT ![p] = @ \cup {d}]
      /\ phase' = IF Remaining(p, d) < T
                    THEN [phase EXCEPT ![p] = "aborted"] ELSE phase
      /\ UNCHANGED <<agreed, echoes>>
      /\ phase[p] # "aborted"
  BY DEF Disqualify, SlotDropped
<1>2. \A q \in Node, e \in Index :
        commitments'[q][e] = IF q = p /\ e = d THEN None ELSE commitments[q][e]
  BY <1>1 DEF IInv, TypeOK
<1>3. \A q \in Node :
        disqualified'[q] = IF q = p THEN disqualified[q] \cup {d} ELSE disqualified[q]
  BY <1>1 DEF IInv, TypeOK
<1>4. \A q \in Node : phase'[q] = phase[q] \/ (q = p /\ phase'[q] = "aborted")
  BY <1>1 DEF IInv, TypeOK
<1>5. TypeOK'
  <2>1. commitments' \in [Node -> [Index -> Commitment \cup {None}]]
    BY <1>1 DEF IInv, TypeOK
  <2>2. disqualified' \in [Node -> SUBSET Index] /\ phase' \in [Node -> Phase]
    BY <1>1 DEF IInv, TypeOK, Phase
  <2>3. \A q \in Node : \A e \in Qualified(q)' :
            commitments'[q][e].dealer = e /\ commitments'[q][e].len = T
    BY <1>2 DEF IInv, TypeOK, Qualified
  <2>4. QED
    BY <1>1, <2>1, <2>2, <2>3 DEF IInv, TypeOK
<1>6. NeverBoth' /\ HonestDealerIntact'
  <2>1. \A q \in Node : disqualified[q] \cup {d} \subseteq Index
    BY DEF IInv, TypeOK
  <2>2. NeverBoth'
    <3> SUFFICES ASSUME NEW q \in Node, NEW e \in disqualified'[q]
                 PROVE  commitments'[q][e] = None
      BY DEF NeverBoth
    <3>1. e \in Index
      BY <1>3, <2>1
    <3>2. e \in disqualified[q] \/ (q = p /\ e = d)
      BY <1>3
    <3>3. QED
      BY <1>2, <3>1, <3>2 DEF IInv, NeverBoth
  <2>3. HonestDealerIntact'
    BY <1>2 DEF IInv, HonestDealerIntact, Node
  <2>4. QED
    BY <2>2, <2>3
<1>7. HonestEchoes' /\ ConfirmedHeardAll'
  BY <1>1, <1>4 DEF IInv, HonestEchoes, ConfirmedHeardAll
<1>8. NoSlotLeft'
  <2> SUFFICES ASSUME NEW q \in Node, phase'[q] \in {"echoing", "confirmed"},
                      NEW e \in Index
               PROVE  commitments'[q][e] # None \/ e \in disqualified'[q]
    BY DEF NoSlotLeft
  <2>1. phase[q] \in {"echoing", "confirmed"}
    BY <1>4
  <2>2. commitments[q][e] # None \/ e \in disqualified[q]
    BY <2>1 DEF IInv, NoSlotLeft
  <2>3. QED
    BY <1>2, <1>3, <2>2
<1>9. HandleOnlyShrinks'
  <2> SUFFICES ASSUME NEW q \in Node, phase'[q] \in {"echoing", "confirmed"}
               PROVE  Recorded(q)' = {c \in agreed[q] : c.dealer \notin disqualified'[q]}
    BY <1>1 DEF HandleOnlyShrinks
  <2>1. Recorded(q) = {c \in agreed[q] : c.dealer \notin disqualified[q]}
    BY <1>4 DEF IInv, HandleOnlyShrinks
  <2>2. CASE q # p
    <3>1. Qualified(q)' = Qualified(q)
      BY <1>2, <2>2 DEF Qualified
    <3>2. Recorded(q)' = Recorded(q)
      BY <1>2, <2>2, <3>1 DEF Recorded, Qualified
    <3>3. QED
      BY <1>3, <2>1, <2>2, <3>2
  <2>3. CASE q = p
    <3>1. Qualified(q)' = Qualified(q) \ {d}
      BY <1>2, <2>3 DEF Qualified
    <3>2. Recorded(q)' = {commitments[q][e] : e \in Qualified(q) \ {d}}
      BY <1>2, <2>3, <3>1 DEF Recorded, Qualified
    <3>3. \A e \in Qualified(q) : commitments[q][e].dealer = e
      BY DEF IInv, TypeOK
    <3>4. Recorded(q)' = {c \in Recorded(q) : c.dealer # d}
      BY <3>2, <3>3 DEF Recorded
    <3>5. QED
      BY <1>3, <2>1, <2>3, <3>4
  <2>4. QED
    BY <2>2, <2>3
<1>10. EnoughRemain'
  <2> SUFFICES ASSUME NEW q \in Node, phase'[q] # "aborted"
               PROVE  N - Cardinality(disqualified'[q]) >= T
    BY DEF EnoughRemain
  <2>1. CASE q # p
    BY <1>3, <1>4, <2>1 DEF IInv, EnoughRemain
  <2>2. CASE q = p
    <3>1. ~ (Remaining(p, d) < T)
      BY <1>1, <2>2 DEF IInv, TypeOK
    <3>2. disqualified[p] \cup {d} \in SUBSET Index
      BY DEF IInv, TypeOK
    <3>3. Cardinality(disqualified[p] \cup {d}) \in Nat
      BY <3>2, IndexSets
    <3>4. N - Cardinality(disqualified[p] \cup {d}) >= T
      BY <3>1, <3>3, SizeAssumption DEF Remaining
    <3>5. QED
      BY <1>3, <2>2, <3>4
  <2>3. QED
    BY <2>1, <2>2
<1>11. QED
  BY <1>5, <1>6, <1>7, <1>8, <1>9, <1>10 DEF IInv

\* Taking the handle: every slot is accounted for, and the set is echoed.
LEMMA AgreePreserves ==
    ASSUME IInv, NEW p \in Node, AgreeRound1(p)
    PROVE  IInv'
<1>1. /\ phase[p] = "collecting"
      /\ IsComplete(p)
      /\ agreed' = [agreed EXCEPT ![p] = Recorded(p)]
      /\ echoes' = [echoes EXCEPT ![p][p] = {EchoDigest(Recorded(p))}]
      /\ phase'  = [phase EXCEPT ![p] = "echoing"]
      /\ UNCHANGED <<commitments, disqualified>>
  BY DEF AgreeRound1
<1>2. Recorded(p) \in SUBSET Commitment
  BY DEF IInv, TypeOK, Recorded, Qualified
<1>3. \A q \in Node :
        /\ agreed'[q] = IF q = p THEN Recorded(p) ELSE agreed[q]
        /\ phase'[q]  = IF q = p THEN "echoing" ELSE phase[q]
  BY <1>1 DEF IInv, TypeOK
<1>4. \A q \in Node, r \in Index :
        echoes'[q][r] = IF q = p /\ r = p THEN {EchoDigest(Recorded(p))} ELSE echoes[q][r]
  BY <1>1 DEF IInv, TypeOK, Node
<1>5. TypeOK'
  <2>1. EchoDigest(Recorded(p)) \in Digest
    BY <1>2 DEF EchoDigest, Digest
  <2>2. echoes' \in [Node -> [Index -> SUBSET Digest]]
    BY <1>1, <2>1 DEF IInv, TypeOK
  <2>3. agreed' \in [Node -> SUBSET Commitment] /\ phase' \in [Node -> Phase]
    BY <1>1, <1>2 DEF IInv, TypeOK, Phase
  <2>4. \A q \in Node : Qualified(q)' = Qualified(q)
    BY <1>1 DEF Qualified
  <2>5. QED
    BY <1>1, <2>2, <2>3, <2>4 DEF IInv, TypeOK
<1>6. NeverBoth' /\ HonestDealerIntact'
  BY <1>1 DEF IInv, NeverBoth, HonestDealerIntact
<1>7. HonestEchoes'
  <2> SUFFICES ASSUME NEW r \in Node, NEW q \in Node, echoes'[r][q] # {}
               PROVE  phase'[q] # "collecting" /\ echoes'[r][q] = {EchoDigest(agreed'[q])}
    BY DEF HonestEchoes, EchoDigest
  <2>1. CASE r = p /\ q = p
    BY <1>3, <1>4, <2>1 DEF Node
  <2>2. CASE ~ (r = p /\ q = p)
    <3>1. echoes'[r][q] = echoes[r][q]
      BY <1>4, <2>2 DEF Node
    <3>2. phase[q] # "collecting" /\ echoes[r][q] = {EchoDigest(agreed[q])}
      BY <3>1 DEF IInv, HonestEchoes
    <3>3. q # p
      BY <1>1, <3>2
    <3>4. QED
      BY <1>3, <3>1, <3>2, <3>3
  <2>3. QED
    BY <2>1, <2>2
<1>8. ConfirmedHeardAll'
  <2> SUFFICES ASSUME NEW q \in Node, phase'[q] = "confirmed", NEW r \in Index
               PROVE  echoes'[q][r] = {EchoDigest(agreed'[q])}
    BY DEF ConfirmedHeardAll, EchoDigest
  <2>1. q # p /\ phase[q] = "confirmed"
    BY <1>3
  <2>2. QED
    BY <1>3, <1>4, <2>1 DEF IInv, ConfirmedHeardAll
<1>9. NoSlotLeft'
  <2>1. \A d \in Index : commitments[p][d] # None \/ d \in disqualified[p]
    BY <1>1, CompleteMeansAll DEF IInv
  <2>2. QED
    BY <1>1, <1>3, <2>1 DEF IInv, NoSlotLeft
<1>10. HandleOnlyShrinks'
  <2>1. \A q \in Node : Recorded(q)' = Recorded(q)
    BY <1>1 DEF Recorded, Qualified
  <2>2. Recorded(p) = {c \in Recorded(p) : c.dealer \notin disqualified[p]}
    BY DEF IInv, TypeOK, NeverBoth, Recorded, Qualified
  <2>3. QED
    BY <1>1, <1>3, <2>1, <2>2 DEF IInv, HandleOnlyShrinks
<1>11. EnoughRemain'
  BY <1>1, <1>3 DEF IInv, EnoughRemain
<1>12. QED
  BY <1>5, <1>6, <1>7, <1>8, <1>9, <1>10, <1>11 DEF IInv

\* An echo goes to a participant that has not confirmed yet.
LEMMA EchoPreserves ==
    ASSUME IInv, NEW p \in Node, NEW q \in Index, ReceiveEcho(p, q)
    PROVE  IInv'
<1>1. PICK dg \in EchoesFrom(q) : echoes' = [echoes EXCEPT ![p][q] = {dg}]
  BY DEF ReceiveEcho
<1>2. /\ phase[p] \in {"collecting", "echoing"}
      /\ UNCHANGED <<commitments, disqualified, phase, agreed>>
  BY DEF ReceiveEcho
<1>3. \A r \in Node, s \in Index :
        echoes'[r][s] = IF r = p /\ s = q THEN {dg} ELSE echoes[r][s]
  BY <1>1 DEF IInv, TypeOK
<1>4. dg \in Digest
  <2>1. \A r \in Node : agreed[r] \in SUBSET Commitment
    BY DEF IInv, TypeOK
  <2>2. \A S \in SUBSET Commitment : EchoDigest(S) \in Digest
    BY DEF EchoDigest, Digest
  <2>3. EchoDigest({}) \in Digest
    BY <2>2
  <2>4. QED
    BY <1>1, <2>1, <2>2, <2>3 DEF EchoesFrom
<1>5. TypeOK'
  <2>1. echoes' \in [Node -> [Index -> SUBSET Digest]]
    BY <1>1, <1>4 DEF IInv, TypeOK
  <2>2. \A r \in Node : Qualified(r)' = Qualified(r)
    BY <1>2 DEF Qualified
  <2>3. QED
    BY <1>2, <2>1, <2>2 DEF IInv, TypeOK
<1>6. NeverBoth' /\ HonestDealerIntact' /\ NoSlotLeft' /\ EnoughRemain'
  BY <1>2 DEF IInv, NeverBoth, HonestDealerIntact, NoSlotLeft, EnoughRemain
<1>7. HandleOnlyShrinks'
  BY <1>2 DEF IInv, HandleOnlyShrinks, Recorded, Qualified
<1>8. HonestEchoes'
  <2> SUFFICES ASSUME NEW r \in Node, NEW s \in Node, echoes'[r][s] # {}
               PROVE  phase[s] # "collecting" /\ echoes'[r][s] = {EchoDigest(agreed[s])}
    BY <1>2 DEF HonestEchoes, EchoDigest
  <2>1. CASE r = p /\ s = q
    BY <1>1, <1>3, <2>1 DEF EchoesFrom, Node
  <2>2. CASE ~ (r = p /\ s = q)
    BY <1>3, <2>2 DEF IInv, HonestEchoes, Node
  <2>3. QED
    BY <2>1, <2>2
<1>9. ConfirmedHeardAll'
  <2> SUFFICES ASSUME NEW r \in Node, phase[r] = "confirmed", NEW s \in Index
               PROVE  echoes'[r][s] = {EchoDigest(agreed[r])}
    BY <1>2 DEF ConfirmedHeardAll, EchoDigest
  <2>1. r # p
    BY <1>2
  <2>2. QED
    BY <1>3, <2>1 DEF IInv, ConfirmedHeardAll
<1>10. QED
  BY <1>5, <1>6, <1>7, <1>8, <1>9 DEF IInv

\* confirm_all counts N digests, so it has one from everybody.
LEMMA ConfirmPreserves ==
    ASSUME IInv, NEW p \in Node, ConfirmAll(p) \/ EchoMismatch(p)
    PROVE  IInv'
<1>1. UNCHANGED <<commitments, disqualified, agreed, echoes>> /\ phase[p] = "echoing"
  BY DEF ConfirmAll, EchoMismatch
<1>2. \A q \in Node :
        IF q = p THEN phase'[q] \in {"confirmed", "aborted"} ELSE phase'[q] = phase[q]
  BY DEF ConfirmAll, EchoMismatch, IInv, TypeOK
<1>3. phase' \in [Node -> Phase]
  BY DEF ConfirmAll, EchoMismatch, IInv, TypeOK, Phase
<1>4. \A q \in Node : Qualified(q)' = Qualified(q) /\ Recorded(q)' = Recorded(q)
  BY <1>1 DEF Qualified, Recorded
<1>5. TypeOK'
  BY <1>1, <1>3, <1>4 DEF IInv, TypeOK
<1>6. NeverBoth' /\ HonestDealerIntact'
  BY <1>1 DEF IInv, NeverBoth, HonestDealerIntact
<1>7. HonestEchoes'
  BY <1>1, <1>2 DEF IInv, HonestEchoes, EchoDigest
<1>8. ConfirmedHeardAll'
  <2> SUFFICES ASSUME NEW q \in Node, phase'[q] = "confirmed", NEW r \in Index
               PROVE  echoes[q][r] = {EchoDigest(agreed[q])}
    BY <1>1 DEF ConfirmedHeardAll, EchoDigest
  <2>1. CASE q # p
    BY <1>2, <2>1 DEF IInv, ConfirmedHeardAll
  <2>2. CASE q = p
    <3>1. ConfirmAll(p)
      BY <2>2 DEF ConfirmAll, EchoMismatch, IInv, TypeOK
    <3>2. Heard(p) = Index
      BY <3>1, FullSubset DEF ConfirmAll, Heard
    <3>3. QED
      BY <2>2, <3>1, <3>2 DEF ConfirmAll, EchoesMatch
  <2>3. QED
    BY <2>1, <2>2
<1>9. NoSlotLeft' /\ HandleOnlyShrinks' /\ EnoughRemain'
  BY <1>1, <1>2, <1>4 DEF IInv, NoSlotLeft, HandleOnlyShrinks, EnoughRemain
<1>10. QED
  BY <1>5, <1>6, <1>7, <1>8, <1>9 DEF IInv

\* Steps that change nothing.
LEMMA StutterPreserves == IInv /\ UNCHANGED vars => IInv'
<1> SUFFICES ASSUME IInv, UNCHANGED vars PROVE IInv'
  OBVIOUS
<1>1. UNCHANGED <<commitments, disqualified, phase, agreed, echoes>>
  BY DEF vars
<1>2. TypeOK' /\ NeverBoth' /\ HonestDealerIntact' /\ HandleOnlyShrinks'
  BY <1>1 DEF IInv, TypeOK, NeverBoth, HonestDealerIntact, HandleOnlyShrinks,
              Qualified, Recorded
<1>3. HonestEchoes' /\ ConfirmedHeardAll' /\ NoSlotLeft' /\ EnoughRemain'
  BY <1>1 DEF IInv, HonestEchoes, ConfirmedHeardAll, NoSlotLeft, EnoughRemain, EchoDigest
<1>4. QED
  BY <1>2, <1>3 DEF IInv

\* The invariant is inductive.
THEOREM Invariant == Spec => []IInv
<1>1. IInv /\ [Next]_vars => IInv'
  <2> SUFFICES ASSUME IInv, [Next]_vars PROVE IInv'
    OBVIOUS
  <2>1. CASE UNCHANGED vars
    BY <2>1, StutterPreserves
  <2>2. CASE Next
    <3>1. PICK p \in Node :
            \/ \E pkg \in Deliverable : SubmitCommitment(p, pkg)
            \/ \E d \in Index : Disqualify(p, d)
            \/ AgreeRound1(p)
            \/ \E q \in Index : ReceiveEcho(p, q)
            \/ ConfirmAll(p)
            \/ EchoMismatch(p)
      BY <2>2 DEF Next
    <3>2. QED
      BY <3>1, SubmitPreserves, DisqualifyPreserves, AgreePreserves,
         EchoPreserves, ConfirmPreserves
  <2>3. QED
    BY <2>1, <2>2
<1>2. QED
  BY InitInvariant, <1>1, PTL DEF Spec

-----------------------------------------------------------------------------
(* What follows from it *)

\* The types of DkgState's fields hold throughout, with every filled slot
\* holding its own dealer's commitment of degree T - 1.
THEOREM TypeCorrect == Spec => []TypeOK
BY Invariant, PTL DEF IInv

\* confirm_all is agreement: no number of faulty participants, equivocating
\* in round 1 and echoing as they like, makes two honest ones differ.
THEOREM Agreement == Spec => []ConfirmedAgree
<1>1. IInv => ConfirmedAgree
  <2> SUFFICES ASSUME IInv, NEW p \in Node, NEW q \in Node,
                      phase[p] = "confirmed", phase[q] = "confirmed"
               PROVE  agreed[p] = agreed[q]
    BY DEF ConfirmedAgree
  <2>1. echoes[p][q] = {EchoDigest(agreed[p])}
    BY DEF IInv, ConfirmedHeardAll, Node
  <2>2. echoes[p][q] = {EchoDigest(agreed[q])}
    BY <2>1 DEF IInv, HonestEchoes
  <2>3. EchoDigest(agreed[p]) = EchoDigest(agreed[q])
    BY <2>1, <2>2
  <2>4. QED
    BY <2>3 DEF EchoDigest
<1>2. QED
  BY Invariant, <1>1, PTL

\* submit_commitment never records a replayed package for an honest dealer.
THEOREM HonestIntact == Spec => []HonestDealerIntact
BY Invariant, PTL DEF IInv

\* is_complete's sum accounts for every dealer exactly once.
THEOREM Accounting == Spec => []CompleteAccountsForAll
<1>1. IInv => CompleteAccountsForAll
  <2> SUFFICES ASSUME IInv, NEW p \in Node, IsComplete(p), NEW d \in Index
               PROVE  (d \in Qualified(p)) # (d \in disqualified[p])
    BY DEF CompleteAccountsForAll
  <2>1. commitments[p][d] # None \/ d \in disqualified[p]
    BY CompleteMeansAll DEF IInv
  <2>2. d \in disqualified[p] => commitments[p][d] = None
    BY DEF IInv, NeverBoth
  <2>3. QED
    BY <2>1, <2>2 DEF Qualified
<1>2. QED
  BY Invariant, <1>1, PTL

\* The state behind an AgreedRound1 handle loses disqualified dealers only.
THEOREM HandleShrinks == Spec => []HandleOnlyShrinks
BY Invariant, PTL DEF IInv

\* A caller that stops on DkgAborted goes on with at least T dealers only.
THEOREM Quorum == Spec => []LiveHandleHasQuorum
<1>1. IInv => LiveHandleHasQuorum
  <2> SUFFICES ASSUME IInv, NEW p \in Node, phase[p] \in {"echoing", "confirmed"}
               PROVE  Cardinality(Qualified(p)) >= T
    BY DEF LiveHandleHasQuorum
  <2>1. IsComplete(p)
    BY CompleteMeansAll DEF IInv, NoSlotLeft
  <2>2. N - Cardinality(disqualified[p]) >= T
    BY DEF IInv, EnoughRemain
  <2>3. Cardinality(Qualified(p)) \in Nat /\ Cardinality(disqualified[p]) \in Nat
    <3>1. Qualified(p) \in SUBSET Index /\ disqualified[p] \in SUBSET Index
      BY DEF IInv, TypeOK, Qualified
    <3>2. QED
      BY <3>1, IndexSets
  <2>4. QED
    BY <2>1, <2>2, <2>3, SizeAssumption DEF IsComplete
<1>2. QED
  BY Invariant, <1>1, PTL

\* A disqualified dealer never comes back, at any participant.
THEOREM StaysOut == Spec => DisqualifiedStaysOut
<1>1. IInv /\ IInv' /\ [Next]_vars =>
        [\A p \in Node : \A d \in disqualified[p] :
            d \in disqualified'[p] /\ commitments'[p][d] = None]_vars
  <2> SUFFICES ASSUME IInv, IInv', Next, NEW p \in Node, NEW d \in disqualified[p]
               PROVE  d \in disqualified'[p] /\ commitments'[p][d] = None
    BY DEF vars
  <2>1. d \in disqualified'[p]
    <3>1. disqualified' = disqualified
          \/ \E q \in Node, e \in Index :
                disqualified' = [disqualified EXCEPT ![q] = @ \cup {e}]
      BY DEF Next, SubmitCommitment, Disqualify, AgreeRound1, ReceiveEcho,
             ConfirmAll, EchoMismatch
    <3>2. QED
      BY <3>1 DEF IInv, TypeOK
  <2>2. commitments'[p][d] = None
    BY <2>1 DEF IInv, NeverBoth
  <2>3. QED
    BY <2>1, <2>2
<1>2. QED
  BY Invariant, <1>1, PTL DEF Spec, DisqualifiedStaysOut
=============================================================================
