------------------------ MODULE NestedSigningProofs ------------------------
(***************************************************************************)
(* Nested signing with the spent-session layer, for every inner group, any *)
(* corrupt holders in it, whatever they and the coordinator make up, any   *)
(* number of rounds, and any crashes and restores: a nonce pair answers    *)
(* once, and a round has at most one response if any two quorums meet in   *)
(* an honest holder.                                                       *)
(*                                                                         *)
(* The argument: once a session is in the durable store no sign call for   *)
(* it gets past spend, so a running call and the shares already out never  *)
(* belong to the same holder and session.  What a request lists for an     *)
(* honest holder was precommitted by that holder, so its pair is of the    *)
(* session on its label; two responses of one session would need two       *)
(* shares of the honest holder that their quorums have in common.          *)
(***************************************************************************)
EXTENDS NestedSigning, FiniteSetTheorems, TLAPS

\* A running call has spent its session and is the first one to.
CallHoldsSession ==
    \A k \in Honest :
        signing[k] # None =>
            /\ <<signing[k].session, k>> \in spent
            /\ \A sh \in shares :
                    sh.nonce.holder = k => sh.nonce.session # signing[k].session

\* One share per honest holder and session.
OneSharePerRound ==
    \A x, y \in shares :
        x.nonce.holder = y.nonce.holder /\ x.nonce.session = y.nonce.session => x = y

\* A share answers for nonces of its request's round, listed there, among
\* commitments that passed aggregation.
AnswersOwnRound ==
    \A sh \in shares :
        /\ OwnRound(sh.nonce, sh.request.session, sh.request.commitments)
        /\ Aggregable(sh.request.commitments, sh.request.session)

SigningInv ==
    /\ TypeOK
    /\ WrittenAhead
    /\ CallHoldsSession
    /\ OneSharePerRound
    /\ AnswersOwnRound

\* If two quorums are larger than the group and its corrupt holders together,
\* they have an honest holder in common.
LEMMA QuorumsMeet ==
    ASSUME 2 * Threshold > Cardinality(Holder) + Cardinality(Corrupt),
           NEW A \in SUBSET Holder, NEW B \in SUBSET Holder,
           Cardinality(A) >= Threshold, Cardinality(B) >= Threshold
    PROVE  \E k \in A \cap B : k \in Honest
<1> SUFFICES ASSUME A \cap B \subseteq Corrupt PROVE FALSE
  BY DEF Honest
<1>1. IsFiniteSet(A) /\ IsFiniteSet(B) /\ IsFiniteSet(A \cup B)
      /\ IsFiniteSet(A \cap B) /\ IsFiniteSet(Corrupt)
  BY HolderAssumption, CorruptAssumption, FS_Subset
<1>2. /\ Cardinality(A) \in Nat /\ Cardinality(B) \in Nat /\ Cardinality(A \cup B) \in Nat
      /\ Cardinality(A \cap B) \in Nat /\ Cardinality(Corrupt) \in Nat
      /\ Cardinality(Holder) \in Nat
  BY <1>1, HolderAssumption, FS_CardinalityType
<1>3. Cardinality(A \cup B) = Cardinality(A) + Cardinality(B) - Cardinality(A \cap B)
  BY <1>1, FS_Union
<1>4. Cardinality(A \cap B) <= Cardinality(Corrupt)
  BY <1>1, FS_Subset
<1>5. Cardinality(A \cup B) <= Cardinality(Holder)
  <2>1. A \cup B \subseteq Holder
    OBVIOUS
  <2>2. QED
    BY <2>1, HolderAssumption, FS_Subset
<1>6. QED
  BY <1>2, <1>3, <1>4, <1>5, HolderAssumption

\* A label tells its nonces, and is a commitment.
LEMMA LabelsTell ==
    ASSUME NEW n \in Draw
    PROVE  /\ Labelled(n) \in InnerCommitment
           /\ Labelled(n).pair = n /\ Labelled(n).holder = n.holder
           /\ Labelled(n).session = n.session
BY DEF Labelled, InnerCommitment, Draw

\* What the coordinator can send along are commitments.
LEMMA OfferedTypes == TypeOK => Offered \subseteq InnerCommitment
<1> SUFFICES ASSUME TypeOK PROVE Offered \subseteq InnerCommitment
  OBVIOUS
<1>1. revealed \subseteq InnerCommitment
  BY LabelsTell DEF TypeOK
<1>2. QED
  BY <1>1, MadeUpAssumption DEF Offered

-----------------------------------------------------------------------------

\* Nothing has been drawn, spent or signed yet.
LEMMA SigningInit == Init => SigningInv
<1> SUFFICES ASSUME Init PROVE SigningInv
  OBVIOUS
<1>1. TypeOK
  BY BoundAssumption DEF Init, TypeOK
<1>2. WrittenAhead /\ CallHoldsSession /\ OneSharePerRound /\ AnswersOwnRound
  BY DEF Init, WrittenAhead, CallHoldsSession, OneSharePerRound, AnswersOwnRound
<1>3. QED
  BY <1>1, <1>2 DEF SigningInv

\* Steps that touch neither the shares, nor the store, nor a running call, and
\* keep the types and the precommitments, keep the rest.
LEMMA QuietStep ==
    ASSUME SigningInv, TypeOK', precommits \subseteq precommits',
           UNCHANGED <<spent, signing, shares>>
    PROVE  SigningInv'
<1>1. WrittenAhead' /\ CallHoldsSession' /\ OneSharePerRound'
  BY DEF SigningInv, WrittenAhead, CallHoldsSession, OneSharePerRound
<1>2. AnswersOwnRound'
  BY DEF SigningInv, AnswersOwnRound, Aggregable, Precommitted, OwnRound
<1>3. QED
  BY <1>1, <1>2 DEF SigningInv

\* A round-0 step draws a fresh pair.
LEMMA CommitStep ==
    ASSUME SigningInv, NEW k \in Honest, NEW s \in Session, Commit(k, s)
    PROVE  SigningInv'
<1> DEFINE n == [holder |-> k, session |-> s, draw |-> draws[k] + 1]
<1>1. /\ draws[k] < MaxDraws
      /\ draws'  = [draws EXCEPT ![k] = @ + 1]
      /\ nonces' = [nonces EXCEPT ![k] = @ \cup {n}]
      /\ precommits' = precommits \cup {Labelled(n)}
      /\ UNCHANGED <<saved, revealed, spent, signing, shares>>
  BY DEF Commit
<1>2. draws[k] + 1 \in 1 .. MaxDraws
  BY <1>1, BoundAssumption DEF SigningInv, TypeOK
<1>3. n \in Draw /\ n.holder = k
  BY <1>2 DEF Draw, Honest
<1>4. draws' \in [Honest -> 0 .. MaxDraws]
  BY <1>1, <1>2, BoundAssumption DEF SigningInv, TypeOK
<1>5. TypeOK'
  BY <1>1, <1>3, <1>4 DEF SigningInv, TypeOK
<1>6. QED
  BY <1>1, <1>5, QuietStep

\* Publishing a commitment, or writing a snapshot.
LEMMA RevealOrSnapshotStep ==
    ASSUME SigningInv, NEW k \in Honest,
           (\E n \in nonces[k] : Reveal(k, n)) \/ Snapshot(k)
    PROVE  SigningInv'
<1>1. UNCHANGED <<draws, nonces, precommits, spent, signing, shares>>
  BY DEF Reveal, Snapshot
<1>2. /\ saved' = saved \/ saved' = [saved EXCEPT ![k] = nonces[k]]
      /\ revealed' \subseteq precommits
  BY DEF Reveal, Snapshot, SigningInv, TypeOK
<1>3. TypeOK'
  BY <1>1, <1>2 DEF SigningInv, TypeOK
<1>4. QED
  BY <1>1, <1>3, QuietStep

\* A refusal of the store only loses the nonces.
LEMMA SpendRefusedStep ==
    ASSUME SigningInv, NEW k \in Honest, NEW n \in nonces[k], SpendRefused(k, n)
    PROVE  SigningInv'
<1>1. /\ nonces' = [nonces EXCEPT ![k] = @ \ {n}]
      /\ UNCHANGED <<draws, saved, precommits, revealed, spent, signing, shares>>
  BY DEF SpendRefused
<1>2. nonces' \in [Honest -> SUBSET Draw]
      /\ \A j \in Honest : nonces'[j] \subseteq nonces[j]
  BY <1>1 DEF SigningInv, TypeOK
<1>3. TypeOK'
  BY <1>1, <1>2 DEF SigningInv, TypeOK
<1>4. QED
  BY <1>1, <1>3, QuietStep

\* Entering the call: the session is fresh in the store, so no share of this
\* holder is of it.
LEMMA BeginStep ==
    ASSUME SigningInv, NEW k \in Honest, NEW n \in nonces[k], BeginSign(k, n)
    PROVE  SigningInv'
<1>1. /\ signing[k] = None /\ <<n.session, k>> \notin spent
      /\ nonces'  = [nonces EXCEPT ![k] = @ \ {n}]
      /\ spent'   = spent \cup {<<n.session, k>>}
      /\ signing' = [signing EXCEPT ![k] = n]
      /\ UNCHANGED <<draws, saved, precommits, revealed, shares>>
  BY DEF BeginSign, Spend, Unspent
<1>2. n \in Draw /\ n.holder = k /\ n # None /\ n.session \in Session
  BY NoneAssumption DEF SigningInv, TypeOK, Draw
<1>3. nonces' \in [Honest -> SUBSET Draw]
      /\ \A j \in Honest : nonces'[j] \subseteq nonces[j]
  BY <1>1 DEF SigningInv, TypeOK
<1>4. TypeOK'
  <2>1. spent' \subseteq Session \X Honest
    BY <1>1, <1>2 DEF SigningInv, TypeOK
  <2>2. signing' \in [Honest -> Draw \cup {None}]
        /\ \A j \in Honest : signing'[j] # None => signing'[j].holder = j
    BY <1>1, <1>2 DEF SigningInv, TypeOK
  <2>3. QED
    BY <1>1, <1>3, <2>1, <2>2 DEF SigningInv, TypeOK
<1>5. \A sh \in shares : sh.nonce.holder = k => sh.nonce.session # n.session
  BY <1>1 DEF SigningInv, WrittenAhead
<1>6. CallHoldsSession'
  BY <1>1, <1>5 DEF SigningInv, TypeOK, CallHoldsSession
<1>7. WrittenAhead' /\ OneSharePerRound' /\ AnswersOwnRound'
  BY <1>1 DEF SigningInv, WrittenAhead, OneSharePerRound, AnswersOwnRound,
         Aggregable, Precommitted, OwnRound
<1>8. QED
  BY <1>4, <1>6, <1>7 DEF SigningInv

\* An answer is the first share of its holder and session.
LEMMA FinishStep ==
    ASSUME SigningInv, NEW k \in Honest, NEW s \in Session, NEW C \in SUBSET Offered,
           FinishSign(k, s, C)
    PROVE  SigningInv'
<1> DEFINE n == signing[k]
<1>1. PICK req \in Request(s, C) :
          Accepts(k, req) /\ shares' = shares \cup {[nonce |-> n, request |-> req]}
  BY DEF FinishSign
<1> DEFINE sh == [nonce |-> n, request |-> req]
<1>2. /\ n # None
      /\ OwnRound(n, s, C) /\ Aggregable(C, s)
      /\ signing' = [signing EXCEPT ![k] = None]
      /\ UNCHANGED <<draws, nonces, saved, precommits, revealed, spent>>
  BY DEF FinishSign
<1>3. req.session = s /\ req.commitments = C
  BY DEF Request
<1>4. n \in Draw /\ n.holder = k
  BY <1>2 DEF SigningInv, TypeOK
<1>5. TypeOK'
  <2>1. signing' \in [Honest -> Draw \cup {None}]
        /\ \A j \in Honest : signing'[j] # None => signing'[j].holder = j
    BY <1>2 DEF SigningInv, TypeOK
  <2>2. C \subseteq InnerCommitment
    BY OfferedTypes DEF SigningInv
  <2>3. /\ Cardinality(req.active) >= Threshold
        /\ req.active \subseteq Holders(C)
        /\ req.package.entry = Sum(C)
        /\ k \in req.active \ Corrupt
    BY <1>1, <1>3 DEF Accepts, Quorum, NestedEntry, Honest
  <2>4. \A x \in shares' :
            /\ x.nonce \in Draw
            /\ x.request.commitments \subseteq InnerCommitment
            /\ x.request.package.entry = Sum(x.request.commitments)
            /\ x.request.active \subseteq Holders(x.request.commitments)
            /\ Cardinality(x.request.active) >= Threshold
            /\ x.nonce.holder \in x.request.active \ Corrupt
    BY <1>1, <1>3, <1>4, <2>2, <2>3 DEF SigningInv, TypeOK
  <2>5. QED
    BY <1>2, <2>1, <2>4 DEF SigningInv, TypeOK
<1>6. /\ <<n.session, k>> \in spent
      /\ \A x \in shares : x.nonce.holder = k => x.nonce.session # n.session
  BY <1>2 DEF SigningInv, CallHoldsSession
<1>7. WrittenAhead' /\ OneSharePerRound'
  BY <1>1, <1>2, <1>4, <1>6 DEF SigningInv, WrittenAhead, OneSharePerRound
<1>8. AnswersOwnRound'
  BY <1>1, <1>2, <1>3 DEF SigningInv, AnswersOwnRound, Aggregable, Precommitted, OwnRound
<1>9. CallHoldsSession'
  <2> SUFFICES ASSUME NEW j \in Honest, signing'[j] # None
               PROVE  /\ <<signing'[j].session, j>> \in spent
                      /\ \A x \in shares' :
                            x.nonce.holder = j => x.nonce.session # signing'[j].session
    BY <1>2 DEF CallHoldsSession
  <2>1. j # k /\ signing'[j] = signing[j]
    BY <1>2 DEF SigningInv, TypeOK
  <2>2. QED
    BY <1>1, <1>4, <2>1 DEF SigningInv, CallHoldsSession
<1>10. QED
  BY <1>5, <1>7, <1>8, <1>9 DEF SigningInv

\* A refusal or a restart ends the call and leaves the store and the shares.
LEMMA EndStep ==
    ASSUME SigningInv, NEW k \in Honest, RefuseSign(k) \/ Restart(k)
    PROVE  SigningInv'
<1>1. /\ signing' = [signing EXCEPT ![k] = None]
      /\ nonces' = nonces \/ nonces' = [nonces EXCEPT ![k] = saved[k]]
      /\ UNCHANGED <<draws, saved, precommits, revealed, spent, shares>>
  BY DEF RefuseSign, Restart
<1>2. \A j \in Honest : signing'[j] = IF j = k THEN None ELSE signing[j]
  BY <1>1 DEF SigningInv, TypeOK
<1>3. TypeOK'
  <2>1. signing' \in [Honest -> Draw \cup {None}]
    BY <1>1 DEF SigningInv, TypeOK
  <2>2. nonces' \in [Honest -> SUBSET Draw]
        /\ \A j \in Honest : nonces'[j] \subseteq nonces[j] \cup saved[j]
    BY <1>1 DEF SigningInv, TypeOK
  <2>3. QED
    BY <1>1, <1>2, <2>1, <2>2 DEF SigningInv, TypeOK
<1>4. CallHoldsSession'
  BY <1>1, <1>2 DEF SigningInv, CallHoldsSession
<1>5. WrittenAhead' /\ OneSharePerRound' /\ AnswersOwnRound'
  BY <1>1 DEF SigningInv, WrittenAhead, OneSharePerRound, AnswersOwnRound,
         Aggregable, Precommitted, OwnRound
<1>6. QED
  BY <1>3, <1>4, <1>5 DEF SigningInv

\* The invariant is inductive.
THEOREM SigningInvariant == Spec => []SigningInv
<1>1. SigningInv /\ [Next]_vars => SigningInv'
  <2> SUFFICES ASSUME SigningInv, [Next]_vars PROVE SigningInv'
    OBVIOUS
  <2>1. CASE UNCHANGED vars
    <3>1. UNCHANGED <<draws, nonces, saved, precommits, revealed, spent, signing, shares>>
      BY <2>1 DEF vars
    <3>2. TypeOK'
      BY <3>1 DEF SigningInv, TypeOK
    <3>3. QED
      BY <3>1, <3>2, QuietStep
  <2>2. CASE Next
    <3>1. PICK k \in Honest :
            \/ \E s \in Session : Commit(k, s)
            \/ \E n \in nonces[k] : Reveal(k, n) \/ BeginSign(k, n) \/ SpendRefused(k, n)
            \/ \E s \in Session : \E C \in SUBSET Offered : FinishSign(k, s, C)
            \/ RefuseSign(k)
            \/ Snapshot(k)
            \/ Restart(k)
      BY <2>2 DEF Next
    <3>2. CASE \E s \in Session : Commit(k, s)
      BY <3>2, CommitStep
    <3>3. CASE \E n \in nonces[k] :
                  Reveal(k, n) \/ BeginSign(k, n) \/ SpendRefused(k, n)
      BY <3>3, RevealOrSnapshotStep, BeginStep, SpendRefusedStep
    <3>4. CASE \E s \in Session : \E C \in SUBSET Offered : FinishSign(k, s, C)
      BY <3>4, FinishStep
    <3>5. CASE RefuseSign(k) \/ Restart(k)
      BY <3>5, EndStep
    <3>6. CASE Snapshot(k)
      BY <3>6, RevealOrSnapshotStep
    <3>7. QED
      BY <3>1, <3>2, <3>3, <3>4, <3>5, <3>6
  <2>3. QED
    BY <2>1, <2>2
<1>2. QED
  BY SigningInit, <1>1, PTL DEF Spec

\* Every variable has its type; a share answers a quorum of the holders whose
\* commitments its package aggregates.
THEOREM SigningTypes == Spec => []TypeOK
BY SigningInvariant, PTL DEF SigningInv

\* No snapshot brings a nonce pair back to answer a second challenge.
THEOREM NoncesAnswerOnce == Spec => []NonceAnswersOnce
<1>1. SigningInv => NonceAnswersOnce
  BY DEF SigningInv, OneSharePerRound, NonceAnswersOnce
<1>2. QED
  BY SigningInvariant, <1>1, PTL

\* A share is out only after its session is in the store.
THEOREM RecordedAhead == Spec => []WrittenAhead
<1>1. SigningInv => WrittenAhead
  BY DEF SigningInv
<1>2. QED
  BY SigningInvariant, <1>1, PTL

\* What a share's request lists for an honest holder, that holder drew, and drew
\* for the round of the share's nonces, whatever the labels say.
THEOREM RoundsApart == Spec => []RoundsNotMixed
<1>1. SigningInv => RoundsNotMixed
  <2> SUFFICES ASSUME SigningInv, NEW sh \in shares, NEW c \in sh.request.commitments,
                      c.holder \in Honest
               PROVE  c.pair.holder = c.holder /\ c.pair.session = sh.nonce.session
    BY DEF RoundsNotMixed
  <2>1. c.session = sh.request.session /\ c \in precommits
    BY DEF SigningInv, AnswersOwnRound, Aggregable, Precommitted, Honest
  <2>2. sh.nonce.session = sh.request.session
    BY DEF SigningInv, AnswersOwnRound, OwnRound
  <2>3. PICK n \in Draw : c = Labelled(n)
    BY <2>1 DEF SigningInv, TypeOK
  <2>4. QED
    BY <2>1, <2>2, <2>3, LabelsTell
<1>2. QED
  BY SigningInvariant, <1>1, PTL

\* If quorums meet in an honest holder, two responses of one session are for one
\* message, one package and one quorum: that holder answered once.
THEOREM OneResponse ==
    ASSUME 2 * Threshold > Cardinality(Holder) + Cardinality(Corrupt)
    PROVE  Spec => []OneResponsePerSession
<1>1. SigningInv /\ RoundsNotMixed => OneResponsePerSession
  <2> SUFFICES ASSUME SigningInv, RoundsNotMixed,
                      NEW r \in Responses, NEW q \in Responses, r.session = q.session
               PROVE  r.package = q.package /\ r.active = q.active
    BY DEF OneResponsePerSession
  <2>1. PICK x0 \in shares : r = x0.request
    BY DEF Responses
  <2>2. PICK y0 \in shares : q = y0.request
    BY DEF Responses
  <2>3. /\ r.active \in SUBSET Holder /\ Cardinality(r.active) >= Threshold
        /\ q.active \in SUBSET Holder /\ Cardinality(q.active) >= Threshold
    BY <2>1, <2>2 DEF SigningInv, TypeOK, Holders, InnerCommitment
  <2>4. PICK k \in Honest : k \in r.active /\ k \in q.active
    BY <2>3, QuorumsMeet
  <2>5. PICK x \in shares : x.nonce.holder = k /\ Verifies(x, r)
    BY <2>4 DEF Responses, Aggregates, Honest
  <2>6. PICK y \in shares : y.nonce.holder = k /\ Verifies(y, q)
    BY <2>4 DEF Responses, Aggregates, Honest
  <2>7. x.nonce.session = r.session
    BY <2>1, <2>5 DEF Verifies, RoundsNotMixed, SigningInv, AnswersOwnRound, OwnRound
  <2>8. y.nonce.session = q.session
    BY <2>2, <2>6 DEF Verifies, RoundsNotMixed, SigningInv, AnswersOwnRound, OwnRound
  <2>9. x = y
    BY <2>5, <2>6, <2>7, <2>8 DEF SigningInv, OneSharePerRound
  <2>10. QED
    BY <2>5, <2>6, <2>9 DEF Verifies
<1>2. QED
  BY SigningInvariant, RoundsApart, <1>1, PTL
=============================================================================
