---------------------------- MODULE ReshareProofs ----------------------------
(***************************************************************************)
(* Players that look commitments up in the ReshareState all finalize on    *)
(* one polynomial, for any numbers of dealers and players, any thresholds, *)
(* and whatever faulty dealers submit and send.                            *)
(*                                                                         *)
(* The argument: slots are written once, the manifest names written slots  *)
(* only, and an aggregator that is complete holds one sub-share of each    *)
(* dealer of the manifest; so its polynomial is a function of the manifest *)
(* and of slots that no longer change.                                     *)
(***************************************************************************)
EXTENDS Reshare, LagrangeProofs

Commitment == {s.commitment : s \in Submissions}

Item == [dealer : Dealer, value : {m.value : m \in Wire}, commitment : Commitment]

Typed ==
    /\ commitments \in [Dealer -> Commitment \cup {None}]
    /\ manifest \in (SUBSET Dealer) \cup {None}
    /\ dealerSet \in [Player -> (SUBSET Dealer) \cup {None}]
    /\ added \in [Player -> Seq(Item)]
    /\ result = [p \in Player |-> result[p]]

\* A recorded commitment has the new threshold's degree.
Degree ==
    \A d \in Dealer : commitments[d] # None =>
        Len(commitments[d].coefficients) = NewThreshold

\* The manifest names recorded dealers, and aggregators are for it.
ManifestRecorded ==
    /\ manifest # None => manifest \subseteq Committed
    /\ \A p \in Player : dealerSet[p] # None =>
            dealerSet[p] = manifest /\ dealerSet[p] # {}

\* An aggregator keeps the recorded commitments of dealers of its set.
ItemsOfSet ==
    \A p \in Player : \A i \in DOMAIN added[p] :
        /\ dealerSet[p] # None
        /\ added[p][i].dealer \in dealerSet[p]
        /\ added[p][i].commitment = commitments[added[p][i].dealer]

\* It keeps one of each.
OneEach ==
    \A p \in Player : \A i, j \in DOMAIN added[p] :
        added[p][i].dealer = added[p][j].dealer => i = j

\* The weighted sum of the commitments the manifest names
Shared ==
    [k \in 1 .. NewThreshold |->
        Sum([d \in manifest |-> Mul(Weight[manifest][d], commitments[d].coefficients[k])],
            manifest)]

\* Results are on that polynomial.
OnShared ==
    \A p \in Player : result[p] # None =>
        dealerSet[p] # None /\ result[p].polynomial = Shared

ReshareInv ==
    /\ Typed
    /\ Degree
    /\ ManifestRecorded
    /\ ItemsOfSet
    /\ OneEach
    /\ OnShared

-----------------------------------------------------------------------------

\* As many sub-shares as dealers, none twice, are one of each.
LEMMA CompleteCovers ==
    ASSUME Typed, ItemsOfSet, OneEach,
           NEW p \in Player, dealerSet[p] # None, IsComplete(p)
    PROVE  {added[p][i].dealer : i \in DOMAIN added[p]} = dealerSet[p]
<1> DEFINE from == [i \in DOMAIN added[p] |-> added[p][i].dealer]
           image == {added[p][i].dealer : i \in DOMAIN added[p]}
<1>1. added[p] \in Seq(Item) /\ DOMAIN added[p] = 1 .. Len(added[p])
      /\ Len(added[p]) \in Nat
  BY DEF Typed
<1>2. IsFiniteSet(DOMAIN added[p]) /\ Cardinality(DOMAIN added[p]) = Len(added[p])
  BY <1>1, FS_Interval
<1>3. dealerSet[p] \subseteq Dealer /\ IsFiniteSet(dealerSet[p])
  <2>1. IsFiniteSet(Dealer)
    BY FS_Interval, SizeAssumption DEF Dealer
  <2>2. dealerSet[p] \in SUBSET Dealer
    BY DEF Typed
  <2>3. QED
    BY <2>1, <2>2, FS_Subset
<1>4. image \subseteq dealerSet[p]
  BY DEF ItemsOfSet
<1>5. IsFiniteSet(image)
  BY <1>3, <1>4, FS_Subset
<1>6. from \in Surjection(DOMAIN added[p], image)
  BY DEF Surjection
<1>7. Cardinality(image) = Len(added[p])
  <2>1. from \in Injection(DOMAIN added[p], image)
    <3>1. from \in [DOMAIN added[p] -> image]
      OBVIOUS
    <3>2. IsInjective(from)
      BY DEF OneEach, IsInjective
    <3>3. QED
      BY <3>1, <3>2 DEF Injection
  <2>2. QED
    BY <1>2, <1>6, <2>1, FS_Surjection
<1>8. Cardinality(image) = Cardinality(dealerSet[p])
  BY <1>7 DEF IsComplete
<1>9. QED
  BY <1>3, <1>4, <1>8, FS_Subset

\* What a complete aggregator computes is a function of the manifest.
LEMMA PolynomialIsShared ==
    ASSUME ReshareInv, NEW p \in Player, dealerSet[p] # None, IsComplete(p)
    PROVE  NewPolynomial(p) = Shared
<1>1. \A d \in dealerSet[p] : \E i \in DOMAIN added[p] : added[p][i].dealer = d
  BY CompleteCovers DEF ReshareInv
<1>2. \A d \in dealerSet[p] : Of(p, d).commitment = commitments[d]
  <2> TAKE d \in dealerSet[p]
  <2>1. PICK i \in DOMAIN added[p] : Of(p, d) = added[p][i] /\ added[p][i].dealer = d
    BY <1>1 DEF Of
  <2>2. QED
    BY <2>1 DEF ReshareInv, ItemsOfSet
<1>3. dealerSet[p] = manifest /\ manifest # {} /\ manifest \subseteq Committed
  BY DEF ReshareInv, ManifestRecorded
<1>4. Len(added[p][1].commitment.coefficients) = NewThreshold
  <2>1. 1 \in DOMAIN added[p]
    <3>1. PICK d : d \in dealerSet[p]
      BY <1>3
    <3>2. PICK i \in DOMAIN added[p] : added[p][i].dealer = d
      BY <1>1, <3>1
    <3>3. added[p] \in Seq(Item)
      BY DEF ReshareInv, Typed
    <3>4. QED
      BY <3>2, <3>3
  <2>2. added[p][1].dealer \in Committed
        /\ added[p][1].commitment = commitments[added[p][1].dealer]
    BY <2>1, <1>3 DEF ReshareInv, ItemsOfSet
  <2>3. QED
    BY <2>2 DEF ReshareInv, Degree, Committed
<1>5. \A k \in 1 .. NewThreshold :
        Combined(p, LAMBDA s : s.commitment.coefficients[k]) =
        Sum([d \in manifest |-> Mul(Weight[manifest][d], commitments[d].coefficients[k])],
            manifest)
  <2> TAKE k \in 1 .. NewThreshold
  <2>1. [d \in dealerSet[p] |->
            Mul(WeightOf(p, d), Of(p, d).commitment.coefficients[k])]
        = [d \in manifest |-> Mul(Weight[manifest][d], commitments[d].coefficients[k])]
    BY <1>2, <1>3 DEF WeightOf
  <2>2. QED
    BY <2>1, <1>3 DEF Combined
<1>6. QED
  BY <1>4, <1>5 DEF NewPolynomial, Shared

-----------------------------------------------------------------------------
(* Each action keeps the invariant. *)

LEMMA ReshareInit == Init => ReshareInv
<1> SUFFICES ASSUME Init PROVE ReshareInv
  OBVIOUS
<1>1. added = [p \in Player |-> <<>>] /\ added \in [Player -> Seq(Item)]
  BY DEF Init
<1>2. Typed
  BY <1>1 DEF Init, Typed
<1>3. Degree /\ ManifestRecorded /\ OnShared
  BY DEF Init, Degree, ManifestRecorded, OnShared
<1>4. ItemsOfSet /\ OneEach
  BY <1>1 DEF ItemsOfSet, OneEach
<1>5. QED
  BY <1>2, <1>3, <1>4 DEF ReshareInv

\* A commitment goes to an empty slot, and nobody looks at those.
LEMMA SubmitStep ==
    ASSUME ReshareInv, NEW s \in Submissions, SubmitCommitment(s)
    PROVE  ReshareInv'
<1> DEFINE c == s.commitment
<1>1. /\ c.dealer \in Dealer /\ Len(c.coefficients) = NewThreshold
      /\ commitments[c.dealer] = None
      /\ commitments' = [commitments EXCEPT ![c.dealer] = c]
      /\ UNCHANGED <<manifest, dealerSet, added, result>>
  BY DEF SubmitCommitment, SlotFree
<1>2. c \in Commitment /\ c # None
  BY NoneAssumption DEF Commitment
<1>3. Typed'
  BY <1>1, <1>2 DEF ReshareInv, Typed
<1>4. \A d \in Committed : commitments'[d] = commitments[d]
  BY <1>1 DEF Committed, ReshareInv, Typed
<1>5. Degree'
  BY <1>1 DEF ReshareInv, Typed, Degree
<1>6. Committed \subseteq Committed'
  BY <1>4 DEF Committed
<1>7. ManifestRecorded'
  BY <1>1, <1>6 DEF ReshareInv, ManifestRecorded
<1>8. ItemsOfSet'
  <2> SUFFICES ASSUME NEW p \in Player, NEW i \in DOMAIN added[p]
               PROVE  /\ dealerSet[p] # None
                      /\ added[p][i].dealer \in dealerSet[p]
                      /\ added[p][i].commitment = commitments'[added[p][i].dealer]
    BY <1>1 DEF ItemsOfSet
  <2>1. added[p][i].dealer \in Committed
    BY DEF ReshareInv, ItemsOfSet, ManifestRecorded
  <2>2. QED
    BY <1>4, <2>1 DEF ReshareInv, ItemsOfSet
<1>9. OneEach'
  BY <1>1 DEF ReshareInv, OneEach
<1>10. OnShared'
  <2>1. ASSUME manifest # None PROVE Shared' = Shared
    <3>1. manifest \subseteq Committed
      BY <2>1 DEF ReshareInv, ManifestRecorded
    <3>2. \A k : [d \in manifest |-> Mul(Weight[manifest][d], commitments'[d].coefficients[k])]
                 = [d \in manifest |-> Mul(Weight[manifest][d], commitments[d].coefficients[k])]
      BY <1>4, <3>1
    <3>3. QED
      BY <1>1, <3>2 DEF Shared
  <2>2. QED
    BY <1>1, <2>1 DEF ReshareInv, OnShared, ManifestRecorded
<1>11. QED
  BY <1>3, <1>5, <1>7, <1>8, <1>9, <1>10 DEF ReshareInv

\* Before the manifest there is no aggregator and no result.
LEMMA PublishStep == ASSUME ReshareInv, Publish PROVE ReshareInv'
<1>1. manifest = None /\ manifest' = DealerSet /\ DealerSet # None
      /\ UNCHANGED <<commitments, dealerSet, added, result>>
  BY DEF Publish
<1>2. DealerSet \subseteq Committed /\ Committed \subseteq Dealer
  BY <1>1 DEF DealerSet, Committed
<1>3. \A p \in Player : dealerSet[p] = None
  BY <1>1 DEF ReshareInv, ManifestRecorded
<1>4. Typed'
  BY <1>1, <1>2 DEF ReshareInv, Typed
<1>5. Degree'
  BY <1>1 DEF ReshareInv, Degree
<1>6. ManifestRecorded'
  BY <1>1, <1>2, <1>3 DEF ManifestRecorded, Committed
<1>7. ItemsOfSet' /\ OneEach'
  BY <1>1 DEF ReshareInv, ItemsOfSet, OneEach
<1>8. OnShared'
  BY <1>1, <1>3 DEF ReshareInv, OnShared
<1>9. QED
  BY <1>4, <1>5, <1>6, <1>7, <1>8 DEF ReshareInv

LEMMA NewAggregatorStep ==
    ASSUME ReshareInv, NEW p \in Player, NewAggregator(p)
    PROVE  ReshareInv'
<1>1. /\ manifest # None /\ dealerSet[p] = None /\ manifest # {}
      /\ dealerSet' = [dealerSet EXCEPT ![p] = manifest]
      /\ UNCHANGED <<commitments, manifest, added, result>>
  BY DEF NewAggregator, AgreedSet
<1>2. \A q \in Player : dealerSet[q] # None => dealerSet'[q] = dealerSet[q]
  BY <1>1 DEF ReshareInv, Typed
<1>3. Typed'
  BY <1>1 DEF ReshareInv, Typed
<1>4. Degree' /\ OneEach'
  BY <1>1 DEF ReshareInv, Degree, OneEach
<1>5. ManifestRecorded'
  BY <1>1 DEF ReshareInv, Typed, ManifestRecorded, Committed
<1>6. ItemsOfSet'
  BY <1>1, <1>2 DEF ReshareInv, ItemsOfSet
<1>7. Shared' = Shared
  BY <1>1 DEF Shared
<1>8. OnShared'
  BY <1>1, <1>2, <1>7 DEF ReshareInv, OnShared
<1>9. QED
  BY <1>3, <1>4, <1>5, <1>6, <1>8 DEF ReshareInv

\* What is kept is the recorded commitment of a dealer not yet heard from.
LEMMA AddStep ==
    ASSUME FromState, ReshareInv, NEW p \in Player, NEW m \in Wire, AddSubShare(p, m)
    PROVE  ReshareInv'
<1> DEFINE s == [dealer |-> m.dealer, value |-> m.value,
                 commitment |-> commitments[m.dealer]]
<1>1. /\ dealerSet[p] # None /\ m.dealer \in dealerSet[p] /\ ~Duplicate(p, m)
      /\ added' = [added EXCEPT ![p] = Append(@, s)]
      /\ UNCHANGED <<commitments, manifest, dealerSet, result>>
  BY FromState DEF AddSubShare, Acceptable, Supplied
<1>2. dealerSet[p] \subseteq Committed
  BY <1>1 DEF ReshareInv, ManifestRecorded
<1>3. s \in Item
  <2>1. m.dealer \in Dealer /\ commitments[m.dealer] # None
    BY <1>1, <1>2 DEF Committed
  <2>2. commitments[m.dealer] \in Commitment
    BY <2>1 DEF ReshareInv, Typed
  <2>3. QED
    BY <2>1, <2>2 DEF Item
<1>4. /\ added[p] \in Seq(Item)
      /\ added'[p] = Append(added[p], s) /\ added'[p] \in Seq(Item)
      /\ \A q \in Player : q # p => added'[q] = added[q]
  BY <1>1, <1>3 DEF ReshareInv, Typed
<1>5. /\ DOMAIN added'[p] = 1 .. Len(added[p]) + 1
      /\ DOMAIN added[p] = 1 .. Len(added[p]) /\ Len(added[p]) \in Nat
      /\ \A i \in DOMAIN added[p] : added'[p][i] = added[p][i]
      /\ added'[p][Len(added[p]) + 1] = s
  BY <1>4
<1>6. Typed'
  BY <1>1, <1>4 DEF ReshareInv, Typed
<1>7. Degree' /\ ManifestRecorded'
  BY <1>1 DEF ReshareInv, Degree, ManifestRecorded, Committed
<1>8. ItemsOfSet'
  <2> SUFFICES ASSUME NEW q \in Player, NEW i \in DOMAIN added'[q]
               PROVE  /\ dealerSet[q] # None
                      /\ added'[q][i].dealer \in dealerSet[q]
                      /\ added'[q][i].commitment = commitments[added'[q][i].dealer]
    BY <1>1 DEF ItemsOfSet
  <2>1. CASE q # p
    BY <2>1, <1>4 DEF ReshareInv, ItemsOfSet
  <2>2. CASE q = p /\ i \in DOMAIN added[p]
    BY <2>2, <1>5 DEF ReshareInv, ItemsOfSet
  <2>3. CASE q = p /\ i = Len(added[p]) + 1
    BY <2>3, <1>1, <1>5
  <2>4. QED
    BY <2>1, <2>2, <2>3, <1>5
<1>9. OneEach'
  <2> SUFFICES ASSUME NEW q \in Player, NEW i \in DOMAIN added'[q],
                      NEW j \in DOMAIN added'[q],
                      added'[q][i].dealer = added'[q][j].dealer
               PROVE  i = j
    BY DEF OneEach
  <2>1. CASE q # p
    BY <2>1, <1>4 DEF ReshareInv, OneEach
  <2>2. CASE q = p
    <3>1. \A k \in DOMAIN added[p] : added[p][k].dealer # s.dealer
      BY <1>1 DEF Duplicate
    <3>2. CASE i \in DOMAIN added[p] /\ j \in DOMAIN added[p]
      BY <2>2, <3>2, <1>5 DEF ReshareInv, OneEach
    <3>3. CASE i = Len(added[p]) + 1 /\ j = Len(added[p]) + 1
      BY <3>3
    <3>4. CASE i \in DOMAIN added[p] /\ j = Len(added[p]) + 1
      BY <2>2, <3>1, <3>4, <1>5
    <3>5. CASE i = Len(added[p]) + 1 /\ j \in DOMAIN added[p]
      BY <2>2, <3>1, <3>5, <1>5
    <3>6. QED
      BY <2>2, <3>2, <3>3, <3>4, <3>5, <1>5
  <2>3. QED
    BY <2>1, <2>2
<1>10. OnShared'
  BY <1>1 DEF ReshareInv, OnShared, Shared
<1>11. QED
  BY <1>6, <1>7, <1>8, <1>9, <1>10 DEF ReshareInv

LEMMA FinalizeStep ==
    ASSUME ReshareInv, NEW p \in Player, Finalize(p)
    PROVE  ReshareInv'
<1>1. /\ dealerSet[p] # None /\ IsComplete(p)
      /\ UNCHANGED <<commitments, manifest, dealerSet, added>>
      /\ \E x : result' = [result EXCEPT ![p] = [share |-> x,
                                                 polynomial |-> NewPolynomial(p)]]
  BY DEF Finalize
<1>2. NewPolynomial(p) = Shared
  BY <1>1, PolynomialIsShared
<1>3. result'[p].polynomial = Shared /\ \A q \in Player : q # p => result'[q] = result[q]
  BY <1>1, <1>2 DEF ReshareInv, Typed
<1>4. Typed'
  BY <1>1 DEF ReshareInv, Typed
<1>5. Degree' /\ ManifestRecorded' /\ ItemsOfSet' /\ OneEach' /\ Shared' = Shared
  BY <1>1 DEF ReshareInv, Degree, ManifestRecorded, Committed, ItemsOfSet, OneEach, Shared
<1>6. OnShared'
  BY <1>1, <1>3, <1>5 DEF ReshareInv, OnShared
<1>7. QED
  BY <1>4, <1>5, <1>6 DEF ReshareInv

-----------------------------------------------------------------------------

\* The parts of the invariant hold together if commitments are looked up.
THEOREM ReshareInvariant == ASSUME FromState PROVE Spec => []ReshareInv
<1>1. ReshareInv /\ [Next]_vars => ReshareInv'
  <2> SUFFICES ASSUME ReshareInv, [Next]_vars PROVE ReshareInv'
    OBVIOUS
  <2>1. CASE \E s \in Submissions : SubmitCommitment(s)
    BY <2>1, SubmitStep
  <2>2. CASE Publish
    BY <2>2, PublishStep
  <2>3. CASE \E p \in Player : NewAggregator(p)
    BY <2>3, NewAggregatorStep
  <2>4. CASE \E p \in Player : \E m \in Wire : AddSubShare(p, m)
    BY <2>4, AddStep, FromState
  <2>5. CASE \E p \in Player : Finalize(p)
    BY <2>5, FinalizeStep
  <2>6. CASE UNCHANGED vars
    <3>1. UNCHANGED <<commitments, manifest, dealerSet, added, result>>
      BY <2>6 DEF vars
    <3>2. Typed'
      BY <3>1 DEF ReshareInv, Typed
    <3>3. QED
      BY <3>1, <3>2 DEF ReshareInv, Degree, ManifestRecorded, Committed,
                        ItemsOfSet, OneEach, OnShared, Shared
  <2>7. QED
    BY <2>1, <2>2, <2>3, <2>4, <2>5, <2>6 DEF Next
<1>2. QED
  BY ReshareInit, <1>1, PTL DEF Spec

\* A complete aggregator has a sub-share of each dealer of its set, so that
\* subshare_of and commitment_of always find what they expect.
THEOREM EveryDealer == ASSUME FromState PROVE Spec => []CompleteHasEveryDealer
<1>1. ReshareInv => CompleteHasEveryDealer
  BY CompleteCovers DEF ReshareInv, CompleteHasEveryDealer
<1>2. QED
  BY ReshareInvariant, <1>1, PTL

\* All players that finalize hold the same public polynomial, if they look
\* commitments up in the ReshareState.
THEOREM OnePolynomial == ASSUME FromState PROVE Spec => []SamePolynomial
<1>1. ReshareInv => SamePolynomial
  BY DEF ReshareInv, OnShared, SamePolynomial
<1>2. QED
  BY ReshareInvariant, <1>1, PTL

-----------------------------------------------------------------------------
(* The group key, wherever players take commitments from *)

Kept == [dealer : {m.dealer : m \in Wire}, value : {m.value : m \in Wire},
         commitment : Commitment \cup {None} \cup {m.commitment : m \in Wire}]

Shapes ==
    /\ commitments \in [Dealer -> Commitment \cup {None}]
    /\ manifest \in (SUBSET Dealer) \cup {None}
    /\ dealerSet \in [Player -> (SUBSET Dealer) \cup {None}]
    /\ added \in [Player -> Seq(Kept)]
    /\ result = [p \in Player |-> result[p]]

\* What is in a slot was submitted for it, and proved for this epoch.
Provenance ==
    \A d \in Dealer : commitments[d] # None =>
        \E s \in Submissions :
            /\ s.commitment = commitments[d] /\ s.commitment.dealer = d
            /\ Len(s.commitment.coefficients) = NewThreshold
            /\ Possession(s)

OneManifest == \A p \in Player : dealerSet[p] # None => dealerSet[p] = manifest

\* What an aggregator keeps and what it returns has been checked.
Checked ==
    /\ \A p \in Player : \A i \in DOMAIN added[p] :
            /\ added[p][i].dealer = added[p][i].commitment.dealer
            /\ added[p][i].value = Evaluate(added[p][i].commitment.coefficients, p)
    /\ \A p \in Player : result[p] # None =>
            /\ result[p].share = Evaluate(result[p].polynomial, p)
            /\ result[p].polynomial[1] = Secret

RecordInv == Shapes /\ Provenance /\ OneManifest /\ Checked

LEMMA RecordInit == Init => RecordInv
<1> SUFFICES ASSUME Init PROVE RecordInv
  OBVIOUS
<1>1. added = [p \in Player |-> <<>>] /\ added \in [Player -> Seq(Kept)]
  BY DEF Init
<1>2. Shapes
  BY <1>1 DEF Init, Shapes
<1>3. Provenance /\ OneManifest /\ Checked
  BY <1>1 DEF Init, Provenance, OneManifest, Checked
<1> QED BY <1>2, <1>3 DEF RecordInv

LEMMA RecordSubmit ==
    ASSUME RecordInv, NEW s \in Submissions, SubmitCommitment(s)
    PROVE  RecordInv'
<1> DEFINE c == s.commitment
<1>1. /\ c.dealer \in Dealer /\ Len(c.coefficients) = NewThreshold /\ Possession(s)
      /\ commitments' = [commitments EXCEPT ![c.dealer] = c]
      /\ UNCHANGED <<manifest, dealerSet, added, result>>
  BY DEF SubmitCommitment
<1>2. c \in Commitment
  BY DEF Commitment
<1>3. Shapes'
  BY <1>1, <1>2 DEF RecordInv, Shapes
<1>4. Provenance'
  <2> SUFFICES ASSUME NEW d \in Dealer, commitments'[d] # None
               PROVE  \E r \in Submissions :
                        /\ r.commitment = commitments'[d] /\ r.commitment.dealer = d
                        /\ Len(r.commitment.coefficients) = NewThreshold
                        /\ Possession(r)
    BY DEF Provenance, Possession
  <2>1. CASE d = c.dealer
    BY <1>1, <2>1 DEF RecordInv, Shapes
  <2>2. CASE d # c.dealer
    BY <1>1, <2>2 DEF RecordInv, Shapes, Provenance
  <2> QED BY <2>1, <2>2
<1>5. OneManifest' /\ Checked'
  BY <1>1 DEF RecordInv, OneManifest, Checked
<1> QED BY <1>3, <1>4, <1>5 DEF RecordInv

LEMMA RecordPublish == ASSUME RecordInv, Publish PROVE RecordInv'
<1>1. /\ manifest = None /\ manifest' = DealerSet /\ DealerSet # None
      /\ UNCHANGED <<commitments, dealerSet, added, result>>
  BY DEF Publish
<1>2. DealerSet \subseteq Dealer
  BY <1>1 DEF DealerSet, Committed
<1>3. Shapes'
  BY <1>1, <1>2 DEF RecordInv, Shapes
<1>4. Provenance' /\ OneManifest' /\ Checked'
  BY <1>1 DEF RecordInv, Provenance, Possession, OneManifest, Checked
<1> QED BY <1>3, <1>4 DEF RecordInv

LEMMA RecordAggregator ==
    ASSUME RecordInv, NEW p \in Player, NewAggregator(p)
    PROVE  RecordInv'
<1>1. /\ manifest # None
      /\ dealerSet' = [dealerSet EXCEPT ![p] = manifest]
      /\ UNCHANGED <<commitments, manifest, added, result>>
  BY DEF NewAggregator, AgreedSet
<1>2. Shapes' /\ OneManifest'
  BY <1>1 DEF RecordInv, Shapes, OneManifest
<1>3. Provenance' /\ Checked'
  BY <1>1 DEF RecordInv, Provenance, Possession, Checked
<1> QED BY <1>2, <1>3 DEF RecordInv

LEMMA RecordAdd ==
    ASSUME RecordInv, NEW p \in Player, NEW m \in Wire, AddSubShare(p, m)
    PROVE  RecordInv'
<1> DEFINE k == [dealer |-> m.dealer, value |-> m.value, commitment |-> Supplied(m)]
<1>1. /\ dealerSet[p] # None /\ m.dealer \in dealerSet[p]
      /\ m.dealer = Supplied(m).dealer
      /\ Evaluate(Supplied(m).coefficients, p) = m.value
      /\ added' = [added EXCEPT ![p] = Append(@, k)]
      /\ UNCHANGED <<commitments, manifest, dealerSet, result>>
  BY DEF AddSubShare, Acceptable
<1>2. k \in Kept
  <2>1. m.dealer \in Dealer
    BY <1>1 DEF RecordInv, Shapes
  <2>2. Supplied(m) \in Commitment \cup {None} \cup {w.commitment : w \in Wire}
    BY <2>1 DEF Supplied, RecordInv, Shapes
  <2> QED BY <2>2 DEF Kept
<1>3. /\ added[p] \in Seq(Kept) /\ added'[p] = Append(added[p], k)
      /\ \A q \in Player : q # p => added'[q] = added[q]
  BY <1>1 DEF RecordInv, Shapes
<1>4. /\ added'[p] \in Seq(Kept)
      /\ \A i \in DOMAIN added'[p] : added'[p][i] = k \/
            (i \in DOMAIN added[p] /\ added'[p][i] = added[p][i])
  BY <1>2, <1>3
<1>5. Shapes'
  BY <1>1, <1>3, <1>4 DEF RecordInv, Shapes
<1>6. Provenance' /\ OneManifest'
  BY <1>1 DEF RecordInv, Provenance, Possession, OneManifest
<1>7. Checked'
  <2>1. k.dealer = k.commitment.dealer /\ k.value = Evaluate(k.commitment.coefficients, p)
    BY <1>1
  <2>2. \A q \in Player : \A i \in DOMAIN added'[q] :
            /\ added'[q][i].dealer = added'[q][i].commitment.dealer
            /\ added'[q][i].value = Evaluate(added'[q][i].commitment.coefficients, q)
    <3> TAKE q \in Player
    <3> HIDE DEF k
    <3>1. CASE q = p
      BY <1>4, <2>1, <3>1 DEF RecordInv, Checked
    <3>2. CASE q # p
      BY <1>3, <3>2 DEF RecordInv, Checked
    <3> QED BY <3>1, <3>2
  <2> QED BY <1>1, <2>2 DEF RecordInv, Checked
<1> QED BY <1>5, <1>6, <1>7 DEF RecordInv

LEMMA RecordFinalize ==
    ASSUME RecordInv, NEW p \in Player, Finalize(p)
    PROVE  RecordInv'
<1>1. PICK a, x : /\ a[1] = Secret /\ x = Evaluate(a, p)
                  /\ result' = [result EXCEPT ![p] = [share |-> x, polynomial |-> a]]
  BY DEF Finalize, GroupKeyKept, VerifyShare
<1>2. UNCHANGED <<commitments, manifest, dealerSet, added>>
  BY DEF Finalize
<1>3. Shapes'
  BY <1>1, <1>2 DEF RecordInv, Shapes
<1>4. Provenance' /\ OneManifest'
  BY <1>2 DEF RecordInv, Provenance, Possession, OneManifest
<1>5. result'[p] = [share |-> x, polynomial |-> a]
      /\ \A q \in Player : q # p => result'[q] = result[q]
  BY <1>1 DEF RecordInv, Shapes
<1>6. Checked'
  BY <1>1, <1>2, <1>5 DEF RecordInv, Checked
<1> QED BY <1>3, <1>4, <1>6 DEF RecordInv

LEMMA RecordInvariant == Spec => []RecordInv
<1>1. RecordInv /\ [Next]_vars => RecordInv'
  <2> SUFFICES ASSUME RecordInv, [Next]_vars PROVE RecordInv'
    OBVIOUS
  <2>1. CASE \E s \in Submissions : SubmitCommitment(s)
    BY <2>1, RecordSubmit
  <2>2. CASE Publish
    BY <2>2, RecordPublish
  <2>3. CASE \E p \in Player : NewAggregator(p)
    BY <2>3, RecordAggregator
  <2>4. CASE \E p \in Player : \E m \in Wire : AddSubShare(p, m)
    BY <2>4, RecordAdd
  <2>5. CASE \E p \in Player : Finalize(p)
    BY <2>5, RecordFinalize
  <2>6. CASE UNCHANGED vars
    <3>1. UNCHANGED <<commitments, manifest, dealerSet, added, result>>
      BY <2>6 DEF vars
    <3>2. Shapes'
      BY <3>1 DEF RecordInv, Shapes
    <3> QED BY <3>1, <3>2 DEF RecordInv, Provenance, Possession, OneManifest, Checked
  <2> QED BY <2>1, <2>2, <2>3, <2>4, <2>5, <2>6 DEF Next
<1> QED BY RecordInit, <1>1, PTL DEF Spec

\* Slots, the manifest and the aggregators have their types, wherever players
\* take commitments from.
THEOREM ReshareTypes == Spec => []TypeOK
<1>1. RecordInv => TypeOK
  <2> SUFFICES ASSUME RecordInv PROVE TypeOK
    OBVIOUS
  <2>1. \A d \in Committed :
            /\ commitments[d].dealer = d
            /\ commitments[d].coefficients \in [1 .. NewThreshold -> Field]
    BY SubmissionsAssumption DEF Committed, RecordInv, Provenance
  <2> QED BY <2>1 DEF RecordInv, Shapes, OneManifest, Checked, TypeOK
<1> QED BY <1>1, RecordInvariant, PTL

\* The indices of a set are listed in ascending order, and each weight is the
\* coefficient at its index's place.
LEMMA WeightsListed ==
    ASSUME NEW S \in SUBSET (Dealer \cup Player), S # {}
    PROVE  /\ S \in SUBSET (Field \ {0})
           /\ Ascending(S) \in [1 .. Cardinality(S) -> S]
           /\ IsInjective(Ascending(S))
           /\ \A i \in DOMAIN Ascending(S) :
                  Weight[S][Ascending(S)[i]] = Coefficients(Ascending(S))[i]
<1> DEFINE q == Ascending(S)
           n == Cardinality(S)
<1>1. S \in SUBSET (Field \ {0})
  BY SizeAssumption
<1>2. S \in SUBSET Nat /\ IsFiniteSet(S) /\ n \in Nat
  <2>1. Field \subseteq Nat /\ IsFiniteSet(Field)
    BY FieldAssumption, FS_Interval DEF Field
  <2> QED BY <1>1, <2>1, FS_Subset, FS_CardinalityType
<1>3. q \in [1 .. n -> S] /\ \A i, j \in DOMAIN q : i < j => q[i] < q[j]
  BY <1>2, AscendingExists, Zenon DEF Ascending
<1> HIDE DEF q, n
<1>4. ASSUME NEW i \in DOMAIN q, NEW j \in DOMAIN q, q[i] = q[j] PROVE i = j
  <2>1. i \in Int /\ j \in Int /\ q[i] \in Nat /\ q[j] \in Nat
    <3>1. DOMAIN q = 1 .. n
      BY <1>3
    <3>2. i \in 1 .. n /\ j \in 1 .. n
      BY <3>1
    <3>3. i \in Int /\ j \in Int
      BY <1>2, <3>2
    <3>4. q[i] \in S /\ q[j] \in S
      BY <1>3, <3>2
    <3> QED BY <1>2, <3>3, <3>4
  <2>2. ~ (i < j) /\ ~ (j < i)
    BY <1>3, <1>4, <2>1
  <2> QED BY <2>1, <2>2
<1>5. IsInjective(q)
  BY <1>4, Zenon DEF IsInjective
<1>6. ASSUME NEW i \in DOMAIN q PROVE Weight[S][q[i]] = Coefficients(q)[i]
  <2>1. q[i] \in S
    BY <1>3
  <2>2. Weight[S] = [d \in S |-> Coefficients(q)[CHOOSE k \in DOMAIN q : q[k] = d]]
    <3>1. S \in (SUBSET (Dealer \cup Player)) \ {{}}
      OBVIOUS
    <3> QED BY <3>1 DEF Weight, q
  <2>3. (CHOOSE k \in DOMAIN q : q[k] = q[i]) = i
    BY <1>4
  <2> QED BY <2>1, <2>2, <2>3
<1> QED BY <1>1, <1>3, <1>5, <1>6 DEF q, n

\* Over at least as many indices as a polynomial has coefficients, the weights
\* take it to its constant term.
LEMMA WeightsInterpolate ==
    ASSUME NEW S \in SUBSET (Dealer \cup Player), NEW n \in Nat \ {0},
           NEW a \in [1 .. n -> Field], Cardinality(S) >= n
    PROVE  Sum([x \in S |-> Mul(Weight[S][x], Evaluate(a, x))], S) = a[1]
<1>1. S # {}
  BY FS_EmptySet
<1>2. a \in Seq(Field) /\ Len(a) = n
  OBVIOUS
<1> DEFINE q == Ascending(S)
           w == Weight[S]
<1>3. /\ S \in SUBSET (Field \ {0}) /\ q \in [1 .. Cardinality(S) -> S] /\ IsInjective(q)
      /\ \A i \in DOMAIN q : w[q[i]] = Coefficients(q)[i]
  BY <1>1, WeightsListed
<1>4. Cardinality(S) \in Nat
  BY <1>1, <1>3, ListedIndices
<1>5. a \in Seq(Field) /\ Len(a) \in 1 .. Cardinality(S)
  BY <1>2, <1>4
<1> HIDE DEF q, w
<1>6. Reweighed(w, a, S) = a[1]
  BY <1>3, <1>5, WeightsReconstruct
<1> QED BY <1>6 DEF w, Reweighed

\* A weighted sum of scalars is a scalar.
LEMMA WeightsInField ==
    ASSUME NEW S \in SUBSET (Dealer \cup Player), S # {}, NEW f, \A d \in S : f[d] \in Field
    PROVE  Sum([d \in S |-> Mul(Weight[S][d], f[d])], S) \in Field
<1> DEFINE q == Ascending(S)
           t == [d \in S |-> Mul(Weight[S][d], f[d])]
<1>1. /\ q \in Seq(Field) /\ ~Refused(q) /\ IsFiniteSet(S) /\ {q[i] : i \in DOMAIN q} = S
      /\ \A i \in DOMAIN q : Weight[S][q[i]] = Coefficients(q)[i]
  BY WeightsListed, ListedIndices
<1>2. \A d \in S : t[d] \in Field
  <2> TAKE d \in S
  <2>1. PICK i \in DOMAIN q : q[i] = d
    BY <1>1
  <2>2. Weight[S][d] \in Field
    BY <1>1, <2>1, CoefficientsDivide
  <2> QED BY <2>2, FieldClosed
<1> HIDE DEF t
<1>3. Sum(t, S) \in Field
  BY <1>1, <1>2, SumInField
<1> QED BY <1>3 DEF t

\* The lowest committed indices are as many as the old threshold asks for.
LEMMA EnoughDealers ==
    ASSUME DealerSet # None
    PROVE  /\ DealerSet \subseteq Committed
           /\ DealerSet # {}
           /\ Cardinality(DealerSet) >= OldThreshold
<1> DEFINE below(d) == {e \in Committed : e < d}
           rest == Committed \ DealerSet
<1>1. /\ Cardinality(Committed) >= OldThreshold
      /\ DealerSet = {d \in Committed : Cardinality(below(d)) < OldThreshold}
  BY DEF DealerSet, HasQuorum
<1>2. Committed \subseteq Dealer /\ Dealer \subseteq Nat /\ IsFiniteSet(Committed)
  <2>1. IsFiniteSet(Dealer)
    BY FS_Interval, SizeAssumption DEF Dealer
  <2> QED BY <2>1, FS_Subset, SizeAssumption DEF Committed, Dealer
<1>3. IsFiniteSet(DealerSet) /\ Cardinality(DealerSet) \in Nat
  BY <1>1, <1>2, FS_Subset, FS_CardinalityType
<1>4. OldThreshold \in Nat \ {0}
  BY SizeAssumption
<1>5. Cardinality(DealerSet) >= OldThreshold
  <2>1. CASE rest = {}
    <3>1. DealerSet = Committed
      BY <1>1, <2>1
    <3> QED BY <1>1, <3>1
  <2>2. CASE rest # {}
    <3>1. PICK m \in rest : \A n \in rest : m <= n
      <4>1. rest \in SUBSET Nat
        BY <1>2
      <4> QED BY <2>2, <4>1, LeastOf
    <3>2. below(m) \subseteq DealerSet
      <4> SUFFICES ASSUME NEW e \in Committed, e < m, e \notin DealerSet PROVE FALSE
        OBVIOUS
      <4>1. m <= e /\ m \in Nat /\ e \in Nat
        BY <1>2, <3>1
      <4> QED BY <4>1
    <3>3. ~ (Cardinality(below(m)) < OldThreshold)
      BY <1>1, <3>1
    <3>4. Cardinality(below(m)) <= Cardinality(DealerSet) /\ Cardinality(below(m)) \in Nat
      BY <1>3, <3>2, FS_Subset, FS_CardinalityType
    <3> QED BY <1>3, <1>4, <3>3, <3>4
  <2> QED BY <2>1, <2>2
<1>6. DealerSet # {}
  BY <1>4, <1>5, FS_EmptySet
<1> QED BY <1>1, <1>5, <1>6

\* What stands in an honest dealer's slot begins with the share it holds.
LEMMA HonestSlot ==
    ASSUME RecordInv, NEW d \in Honest, commitments[d] # None
    PROVE  commitments[d].coefficients[1] = Evaluate(Standing[Epoch], d)
<1>1. PICK s \in Submissions :
        s.commitment = commitments[d] /\ s.commitment.dealer = d /\ Possession(s)
  BY DEF RecordInv, Provenance, Honest
<1>2. s.proof.domain = "reshare" /\ s.proof.epoch = Epoch
  BY <1>1 DEF Possession
<1>3. s \notin FaultySubmissions
  BY <1>1, SubmissionsAssumption
<1>4. ~ \E e \in Honest : s = Submission(e, <<e>> \o Drawn[e], Epoch, "dkg")
  <2> SUFFICES ASSUME NEW e \in Honest, s = Submission(e, <<e>> \o Drawn[e], Epoch, "dkg")
               PROVE  FALSE
    OBVIOUS
  <2>1. s.proof.domain = "dkg"
    BY DEF Submission
  <2> QED BY <1>2, <2>1
<1>5. PICK h \in Honest, e \in DOMAIN Standing : s = Genuine(h, e)
  BY <1>3, <1>4 DEF Submissions
<1>6. h = d /\ e = Epoch
  BY <1>1, <1>2, <1>5 DEF Genuine, Submission
<1>7. s.commitment.coefficients = Polynomial(d, Epoch)
  BY <1>5, <1>6 DEF Genuine, Submission
<1>8. s.commitment.coefficients \in Seq(Field)
  BY SubmissionsAssumption
<1>9. Polynomial(d, Epoch)[1] = Evaluate(Standing[Epoch], d)
  BY <1>7, <1>8, DrawnAssumption DEF Polynomial
<1> QED BY <1>1, <1>7, <1>9

\* A dealer set of honest dealers has the group key, whatever anybody submitted
\* again for another epoch or another protocol.
THEOREM HonestKeepKey == Spec => []HonestSetKeepsKey
<1>1. RecordInv => HonestSetKeepsKey
  <2> SUFFICES ASSUME RecordInv, DealerSet # None, DealerSet \subseteq Honest
               PROVE  VerifyGroupKey
    BY DEF HonestSetKeepsKey
  <2>1. \A d \in DealerSet :
            commitments[d].coefficients[1] = Evaluate(Standing[Epoch], d)
    BY EnoughDealers, HonestSlot DEF Committed
  <2>2. [d \in DealerSet |-> Mul(Weight[DealerSet][d], commitments[d].coefficients[1])]
        = [d \in DealerSet |-> Mul(Weight[DealerSet][d], Evaluate(Standing[Epoch], d))]
    BY <2>1
  <2>3. Standing[Epoch] \in [1 .. OldThreshold -> Field]
    BY StandingAssumption
  <2>4. DealerSet \in SUBSET Dealer
    BY EnoughDealers DEF Committed
  <2>5. Sum([d \in DealerSet |-> Mul(Weight[DealerSet][d], Evaluate(Standing[Epoch], d))],
            DealerSet) = Standing[Epoch][1]
    BY <2>3, <2>4, EnoughDealers, SizeAssumption, WeightsInterpolate
  <2> QED BY <2>2, <2>5 DEF VerifyGroupKey, Secret
<1> QED BY <1>1, RecordInvariant, PTL

\* The polynomial that all results are on has the new threshold's degree.
LEMMA SharedInField ==
    ASSUME ReshareInv, RecordInv, manifest # None, manifest # {}
    PROVE  Shared \in [1 .. NewThreshold -> Field]
<1>1. manifest \in (SUBSET Dealer) \ {{}} /\ manifest \subseteq Committed
  BY DEF ReshareInv, Typed, ManifestRecorded
<1>2. \A d \in manifest : commitments[d].coefficients \in [1 .. NewThreshold -> Field]
  BY <1>1, SubmissionsAssumption DEF Committed, RecordInv, Provenance
<1>3. ASSUME NEW k \in 1 .. NewThreshold
      PROVE  Sum([d \in manifest |-> Mul(Weight[manifest][d], commitments[d].coefficients[k])],
                 manifest) \in Field
  <2> DEFINE f == [d \in manifest |-> commitments[d].coefficients[k]]
  <2>1. f \in [manifest -> Field]
    BY <1>2
  <2>2. [d \in manifest |-> Mul(Weight[manifest][d], commitments[d].coefficients[k])]
        = [d \in manifest |-> Mul(Weight[manifest][d], f[d])]
    OBVIOUS
  <2>3. Sum([d \in manifest |-> Mul(Weight[manifest][d], f[d])], manifest) \in Field
    <3> HIDE DEF f
    <3> QED BY <1>1, <2>1, WeightsInField
  <2> QED BY <2>2, <2>3
<1> QED BY <1>3 DEF Shared

\* What a player has is its value on the one polynomial, which begins with the secret.
LEMMA ResultOnShared ==
    ASSUME ReshareInv, RecordInv, NEW p \in Player, result[p] # None
    PROVE  /\ Shared \in [1 .. NewThreshold -> Field]
           /\ Shared[1] = Secret
           /\ result[p].polynomial = Shared
           /\ result[p].share = Evaluate(Shared, p)
<1>1. dealerSet[p] # None /\ result[p].polynomial = Shared
  BY DEF ReshareInv, OnShared
<1>2. manifest # None /\ manifest # {}
  BY <1>1 DEF ReshareInv, ManifestRecorded
<1> QED BY <1>1, <1>2, SharedInField DEF RecordInv, Checked

\* Any NewThreshold of the players that have finalized hold the old secret.
THEOREM SecretStays ==
    ASSUME FromState PROVE Spec => []SecretPreserved
<1>1. ReshareInv /\ RecordInv => SecretPreserved
  <2> SUFFICES ASSUME ReshareInv, RecordInv,
                      NEW S \in SUBSET {p \in Player : result[p] # None},
                      Cardinality(S) = NewThreshold
               PROVE  Sum([p \in S |-> Mul(Weight[S][p], result[p].share)], S) = Secret
    BY DEF SecretPreserved
  <2>1. S # {} /\ NewThreshold \in Nat
    BY SizeAssumption, FS_EmptySet
  <2>2. /\ Shared \in [1 .. NewThreshold -> Field] /\ Shared[1] = Secret
        /\ \A p \in S : result[p].share = Evaluate(Shared, p)
    <3>1. PICK q \in S : TRUE
      BY <2>1
    <3> QED BY <3>1, ResultOnShared
  <2>3. [p \in S |-> Mul(Weight[S][p], result[p].share)]
        = [p \in S |-> Mul(Weight[S][p], Evaluate(Shared, p))]
    BY <2>2
  <2>4. S \in SUBSET Player /\ Cardinality(S) >= NewThreshold
    BY <2>1
  <2>5. Sum([p \in S |-> Mul(Weight[S][p], Evaluate(Shared, p))], S) = Shared[1]
    <3> HIDE DEF Shared
    <3> QED BY <2>1, <2>2, <2>4, SizeAssumption, WeightsInterpolate
  <2> QED BY <2>2, <2>3, <2>5
<1> QED BY <1>1, ReshareInvariant, RecordInvariant, PTL

\* Every result is the player's value on one polynomial through the old secret.
THEOREM ImplementsPromise ==
    ASSUME FromState PROVE Spec => ImplementsHandover
<1>1. Init => Promise!Init
  BY DEF Init, Promise!Init
<1>2. ReshareInv /\ RecordInv /\ ReshareInv' /\ RecordInv' /\ [Next]_vars => [Promise!Next]_result
  <2> SUFFICES ASSUME ReshareInv, RecordInv, ReshareInv', RecordInv', [Next]_vars
               PROVE  Promise!Next \/ result' = result
    OBVIOUS
  <2>1. ASSUME NEW p \in Player, Finalize(p)
        PROVE  Promise!Next \/ result' = result
    <3>1. /\ result[p] = None /\ dealerSet[p] # None /\ IsComplete(p)
      BY <2>1 DEF Finalize
    <3>2. NewPolynomial(p) = Shared
      BY <3>1, PolynomialIsShared
    <3>3. manifest # None /\ manifest # {}
      BY <3>1 DEF ReshareInv, ManifestRecorded
    <3>4. PICK a \in [1 .. NewThreshold -> Field] : a = Shared
      BY <3>3, SharedInField
    <3>5. /\ a[1] = Secret
          /\ result' = [result EXCEPT ![p] = [share |-> Evaluate(a, p), polynomial |-> a]]
      BY <2>1, <3>2, <3>4 DEF Finalize, GroupKeyKept, VerifyShare
    <3>6. \A q \in Player : result[q] # None => result[q].polynomial = a
      BY <3>4 DEF ReshareInv, OnShared
    <3>7. Promise!Obtain(p, a)
      BY <3>1, <3>5, <3>6 DEF Promise!Obtain
    <3> QED BY <3>7 DEF Promise!Next
  <2>2. CASE ~ \E p \in Player : Finalize(p)
    BY <2>2 DEF Next, vars, SubmitCommitment, Publish, NewAggregator, AddSubShare
  <2> QED BY <2>1, <2>2
<1> QED BY <1>1, <1>2, ReshareInvariant, RecordInvariant, PTL
    DEF Spec, ImplementsHandover, Promise!Spec
=============================================================================
