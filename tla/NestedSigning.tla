--------------------------- MODULE NestedSigning ---------------------------
(***************************************************************************)
(* Signing by the inner holders of a nested position (src/nested.rs) with  *)
(* the spent-session layer of src/signer.rs, over processes that crash and *)
(* are restored from snapshots.                                            *)
(*                                                                         *)
(* Nonces are symbolic: a draw is [holder, session, draw], and stands for  *)
(* the pair (D, E) that it is the nonces of.  Commitments carry a holder   *)
(* and a session of their own, plain fields that anybody can fill in; a    *)
(* precommitment hashes both, and stands for what it hashes, SHA-512 being *)
(* taken to be injective.  The nested entry of the outer package, a sum of *)
(* pairs, is how often each occurs in it.                                  *)
(*                                                                         *)
(* The coordinator sends what it likes, built from what was revealed and   *)
(* what it makes up.  Corrupt holders work with it: they publish anything, *)
(* and have a valid share under their own nonces for every request, with   *)
(* no session spent and nothing checked.                                   *)
(***************************************************************************)
EXTENDS Integers, FiniteSets

CONSTANTS
    Holder,     \* inner holders
    Corrupt,    \* those that need not follow the protocol
    Threshold,  \* inner_threshold, t_in
    Session,    \* ids of inner rounds
    Message,    \* messages an outer package may carry
    Approved,   \* Approved[k]: the messages holder k's application approves
    Outer,      \* what the rest of the outer package may be
    MaxDraws,   \* bound: inner_commit calls per holder
    MadeUp,     \* commitments nobody's inner_commit returned
    None

Honest == Holder \ Corrupt

Draw == [holder : Holder, session : Session, draw : 1 .. MaxDraws]
InnerCommitment == [holder : Holder, session : Session, pair : Draw]

ASSUME HolderAssumption == IsFiniteSet(Holder) /\ Threshold \in Nat \ {0}
ASSUME CorruptAssumption == Corrupt \subseteq Holder
ASSUME ApprovedAssumption == Approved \in [Holder -> SUBSET Message]
ASSUME BoundAssumption == MaxDraws \in Nat
ASSUME MadeUpAssumption == MadeUp \subseteq InnerCommitment
ASSUME NoneAssumption == None \notin Draw

VARIABLES
    draws,      \* draws[k]: how often honest holder k has called inner_commit
    nonces,     \* nonces[k]: the nonce pairs in its memory
    saved,      \* saved[k]: those in the snapshot it would restart from
    precommits, \* round-0 precommitments of honest holders
    revealed,   \* commitments honest holders have published
    spent,      \* the SpentSessions stores, durable: pairs <<session, holder>>
    signing,    \* signing[k]: the nonce pair inside a running sign call
    shares      \* their signature shares that have left the process

vars == <<draws, nonces, saved, precommits, revealed, spent, signing, shares>>

-----------------------------------------------------------------------------
(* What a holder checks: inner_sign *)

\* What inner_commit returns with the nonces
Labelled(n) == [holder |-> n.holder, session |-> n.session, pair |-> n]

Holders(C) == {c.holder : c \in C}

\* The sum of the pairs: how often each is in it
Sum(C) == [n \in Draw |-> Cardinality({c \in C : c.pair = n})]

\* What the coordinator can send along: commitments as published, and pairs it
\* has seen, or a corrupt holder has drawn, under other labels
Offered ==
    revealed \cup
        {c \in MadeUp : c.pair.holder \in Corrupt \/ Labelled(c.pair) \in revealed}

\* Requests the coordinator can put together for round s with these; the
\* package's entry is the sum of the commitments sent along, or of all.
Request(s, C) ==
    [package : [message : Message, outer : Outer, entry : {Sum(C), Sum(revealed)}],
     session : {s}, commitments : {C}, active : SUBSET Holder]

\* verify_inner_precommit, against the list of the inner group's own round 0.  A
\* corrupt holder may have precommitted to whatever it publishes, and to each
\* holder differently: nothing makes them compare.
Precommitted(c) == c \in precommits \/ c.holder \in Corrupt

\* Mutant: the commit-reveal round is left to the callers.
AggregableUnchecked(C, s) ==
    /\ C # {}
    /\ \A c \in C : c.session = s
    /\ \A c, e \in C : c.holder = e.holder => c = e

\* aggregate_inner_commitment_pair: one summand per holder, of this session,
\* each precommitted
Aggregable(C, s) ==
    /\ C # {}
    /\ \A c \in C : c.session = s /\ Precommitted(c)
    /\ \A c, e \in C : c.holder = e.holder => c = e

\* Mutant: the quorum's size is not checked.
QuorumOfAnySize(req) == req.active \subseteq Holders(req.commitments)

\* active_indices is a quorum of the holders whose commitments were sent along
Quorum(req) ==
    /\ Cardinality(req.active) >= Threshold
    /\ req.active \subseteq Holders(req.commitments)

\* The nonces are of this round, and their commitment is in the published set.
OwnRound(n, s, C) == n.session = s /\ Labelled(n) \in C

\* verify_nested_commitment: the package's entry is this round's aggregate
NestedEntry(req) == req.package.entry = Sum(req.commitments)

\* inner_sign answers Ok, once the round and its commitments are in order
Accepts(k, req) ==
    /\ req.package.message \in Approved[k]
    /\ Quorum(req)
    /\ NestedEntry(req)
    /\ k \in req.active

-----------------------------------------------------------------------------

Init ==
    /\ draws  = [k \in Honest |-> 0]
    /\ nonces = [k \in Honest |-> {}]
    /\ saved  = [k \in Honest |-> {}]
    /\ precommits = {} /\ revealed = {} /\ spent = {} /\ shares = {}
    /\ signing = [k \in Honest |-> None]

\* inner_commit and inner_precommit
Commit(k, s) ==
    LET n == [holder |-> k, session |-> s, draw |-> draws[k] + 1] IN
    /\ draws[k] < MaxDraws
    /\ draws'  = [draws EXCEPT ![k] = @ + 1]
    /\ nonces' = [nonces EXCEPT ![k] = @ \cup {n}]
    /\ precommits' = precommits \cup {Labelled(n)}
    /\ UNCHANGED <<saved, revealed, spent, signing, shares>>

Reveal(k, n) ==
    /\ n \in nonces[k]
    /\ Labelled(n) \notin revealed
    /\ revealed' = revealed \cup {Labelled(n)}
    /\ UNCHANGED <<draws, nonces, saved, precommits, spent, signing, shares>>

\* Mutant: the record is left for later.
SpendLater(k, n) == spent

\* SpentSessions::spend
Spend(k, n) == spent \cup {<<n.session, k>>}

\* Mutant: insert's answer is dropped.
UnspentIgnored(k, n) == TRUE

\* spend answers Ok only for a pair that was not in the store
Unspent(k, n) == <<n.session, k>> \notin spent

\* Spending::sign begins: the nonces are moved in, and the pair is recorded
\* before anything else happens.
BeginSign(k, n) ==
    /\ signing[k] = None
    /\ n \in nonces[k]
    /\ Unspent(k, n)
    /\ nonces'  = [nonces EXCEPT ![k] = @ \ {n}]
    /\ spent'   = Spend(k, n)
    /\ signing' = [signing EXCEPT ![k] = n]
    /\ UNCHANGED <<draws, saved, precommits, revealed, shares>>

\* spend answers SessionSpent, or its store cannot write: the nonces are gone
\* and nothing signs.
SpendRefused(k, n) ==
    /\ signing[k] = None
    /\ n \in nonces[k]
    /\ nonces' = [nonces EXCEPT ![k] = @ \ {n}]
    /\ UNCHANGED <<draws, saved, precommits, revealed, spent, signing, shares>>

\* ... and the inner signer answers.
FinishSign(k, s, C) ==
    /\ signing[k] # None
    /\ OwnRound(signing[k], s, C)
    /\ Aggregable(C, s)
    /\ \E req \in Request(s, C) :
            /\ Accepts(k, req)
            /\ shares' = shares \cup {[nonce |-> signing[k], request |-> req]}
    /\ signing' = [signing EXCEPT ![k] = None]
    /\ UNCHANGED <<draws, nonces, saved, precommits, revealed, spent>>

\* ... or refuses, for one of the reasons above.
RefuseSign(k) ==
    /\ signing[k] # None
    /\ signing' = [signing EXCEPT ![k] = None]
    /\ UNCHANGED <<draws, nonces, saved, precommits, revealed, spent, shares>>

Snapshot(k) ==
    /\ saved' = [saved EXCEPT ![k] = nonces[k]]
    /\ UNCHANGED <<draws, nonces, precommits, revealed, spent, signing, shares>>

\* A crash, and a restart from the last snapshot.  The store is durable.
Restart(k) ==
    /\ nonces'  = [nonces EXCEPT ![k] = saved[k]]
    /\ signing' = [signing EXCEPT ![k] = None]
    /\ UNCHANGED <<draws, saved, precommits, revealed, spent, shares>>

Next ==
    \E k \in Honest :
        \/ \E s \in Session : Commit(k, s)
        \/ \E n \in nonces[k] : Reveal(k, n) \/ BeginSign(k, n) \/ SpendRefused(k, n)
        \/ \E s \in Session : \E C \in SUBSET Offered : FinishSign(k, s, C)
        \/ RefuseSign(k)
        \/ Snapshot(k)
        \/ Restart(k)

Spec == Init /\ [][Next]_vars

-----------------------------------------------------------------------------
(* Aggregation *)

\* verify_inner_share against the commitment listed for the share's holder: it
\* is the response under that commitment's nonces to this package and quorum.
Verifies(sh, req) ==
    /\ sh.request.package = req.package /\ sh.request.active = req.active
    /\ \E c \in req.commitments : c.holder = sh.nonce.holder /\ c.pair = sh.nonce

\* A corrupt holder can answer if the pair listed for it is one they drew.
CorruptAnswers(k, req) ==
    \E c \in req.commitments : c.holder = k /\ c.pair.holder \in Corrupt

\* aggregate_inner_shares_verified answers Ok to the shares of this request
Aggregates(req) ==
    \A k \in req.active :
        \/ k \in Corrupt /\ CorruptAnswers(k, req)
        \/ \E sh \in shares : sh.nonce.holder = k /\ Verifies(sh, req)

\* Requests whose answers can be summed and handed to the outer protocol
Responses == {req \in {sh.request : sh \in shares} : Aggregates(req)}

-----------------------------------------------------------------------------
(* Properties *)

\* Every variable has its type, and a share answers a quorum of the holders
\* whose commitments the package sums.
TypeOK ==
    /\ draws  \in [Honest -> 0 .. MaxDraws]
    /\ nonces \in [Honest -> SUBSET Draw]
    /\ saved  \in [Honest -> SUBSET Draw]
    /\ \A k \in Honest : \A n \in nonces[k] \cup saved[k] :
            n.holder = k /\ Labelled(n) \in precommits
    /\ precommits \subseteq {Labelled(n) : n \in Draw}
    /\ revealed \subseteq precommits
    /\ spent \subseteq Session \X Honest
    /\ signing \in [Honest -> Draw \cup {None}]
    /\ \A k \in Honest : signing[k] # None => signing[k].holder = k
    /\ \A sh \in shares :
            /\ sh.nonce \in Draw
            /\ sh.request.commitments \subseteq InnerCommitment
            /\ sh.request.package.entry = Sum(sh.request.commitments)
            /\ sh.request.active \subseteq Holders(sh.request.commitments)
            /\ Cardinality(sh.request.active) >= Threshold
            /\ sh.nonce.holder \in sh.request.active \ Corrupt

\* No nonce pair ever answers two challenges, over any number of crashes and
\* restores: two responses under one nonce give the share away.
NonceAnswersOnce ==
    \A x, y \in shares : x.nonce = y.nonce => x = y

\* The record is written ahead: no share leaves a process whose store does not
\* already hold its session.
WrittenAhead ==
    \A sh \in shares : <<sh.nonce.session, sh.nonce.holder>> \in spent

\* Rounds are never spliced: what a share's request lists for an honest holder
\* is a pair which that holder drew, and drew for the round of the share's own
\* nonces, however the coordinator and corrupt holders label what they send.
RoundsNotMixed ==
    \A sh \in shares : \A c \in sh.request.commitments :
        c.holder \in Honest =>
            c.pair.holder = c.holder /\ c.pair.session = sh.nonce.session

\* One inner round yields at most one response, for one message, one outer
\* package and one quorum, although every holder is asked separately and the
\* corrupt ones answer everything.  It needs quorums that meet in an honest
\* holder, which the code leaves to whoever picks inner_threshold.
OneResponsePerSession ==
    \A r, q \in Responses :
        r.session = q.session => r.package = q.package /\ r.active = q.active

\* What aggregate_inner_shares_verified documents of its result: the sum it
\* returns is the nested position's response to the package.
AggregateIsResponse ==
    \A r \in Responses : r.active = Holders(r.commitments)
=============================================================================
