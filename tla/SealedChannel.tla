--------------------------- MODULE SealedChannel ---------------------------
(***************************************************************************)
(* Round 2 over sealed packages (src/sealed.rs): each participant builds a *)
(* SealedRoster out of the round-1 broadcasts in the order they arrived,   *)
(* seals a sub-share to every participant, and opens whatever packages a   *)
(* hostile network hands it, against the agreed round-1 set.               *)
(*                                                                         *)
(* SHA-256 is taken to be injective, so a transcript is the roster it      *)
(* hashes.  A Noise_K message is what its key schedule binds: it can be    *)
(* written with the sender's static secret only, and it opens with the     *)
(* recipient's only, if both sides name the same keys and prologue.  A     *)
(* static key stands for its pair.  Scalars are integers modulo P, and a   *)
(* group element g^x is written as x.                                      *)
(***************************************************************************)
EXTENDS Lagrange, FiniteSets, TLC

CONSTANTS
    Node,           \* honest participants
    Faulty,         \* participants that need not follow the protocol
    Key,            \* Key[i]: the static key derived from i's identity seed
    Session, Round, \* this ceremony's session id and round number
    Past,           \* [session, round] of ceremonies whose packages are about
    Polynomial,     \* Polynomial[c][d]: what d drew for ceremony c
    FaultyCommitment, \* FaultyCommitment[f]: coefficients f committed to
    Arrivals,       \* lists of (index, key) in which the broadcasts may arrive
    FaultyPlaintext,\* what the faulty seal
    None

Index == Node \cup Faulty
Now   == [session |-> Session, round |-> Round]

ASSUME NodeAssumption ==
    /\ Node \subseteq 1 .. P - 1 /\ Faulty \subseteq 1 .. P - 1
    /\ Node \cap Faulty = {}
ASSUME PolynomialAssumption == \A d \in Node : Polynomial[Now][d] \in Seq(Field)
ASSUME PastAssumption == \A c \in Past : c.session # Session \/ c.round # Round
ASSUME KeyAssumption == \A i, j \in Index : Key[i] = Key[j] => i = j

VARIABLES
    roster, \* roster[p]: p's SealedRoster, None before it has one
    agreed, \* agreed[p]: p's AgreedRound1, as of its last derivation
    wire,   \* ciphertexts anybody can deliver, relabelled at will
    dealt,  \* honest participants that have sealed round 2
    taken,  \* taken[p]: sub-shares p has opened, with their dealers
    accused \* accused[p]: dealers p holds BadSubShareEvidence against

vars == <<roster, agreed, wire, dealt, taken, accused>>

-----------------------------------------------------------------------------
(* SealedRoster *)

\* Mutant: the list is kept as it arrived.
Unsorted(list) == list

\* p gives the list's places in order of index, and as they are where it is equal.
InOrder(list, p) ==
    \A i, j \in DOMAIN list : i < j =>
        \/ list[p[i]].index < list[p[j]].index
        \/ list[p[i]].index = list[p[j]].index /\ p[i] < p[j]

Sorted(list) ==
    LET p == CHOOSE q \in Bijection(DOMAIN list, DOMAIN list) : InOrder(list, q)
    IN [k \in DOMAIN list |-> list[p[k]]]

\* EmptyContributions, InvalidIndex and DuplicateIndex
RosterRefused(list) ==
    \/ list = <<>>
    \/ Sorted(list)[1].index = 0
    \/ \E k \in 1 .. Len(list) - 1 : Sorted(list)[k].index = Sorted(list)[k + 1].index

NewRoster(list, s) == [participants |-> Sorted(list), session |-> s]

\* public_key: the key advertised under an index, none if nobody is there
PublicKey(r, i) == {e.key : e \in {f \in Range(r.participants) : f.index = i}}

\* Mutants: the prologue is the same for every session, or every round.
PrologueOfAnySession(r, n) == [transcript |-> [r EXCEPT !.session = 0], session |-> 0, round |-> n]
PrologueOfAnyRound(r, n)   == [transcript |-> r, session |-> r.session, round |-> 0]

Prologue(r, n) == [transcript |-> r, session |-> r.session, round |-> n]

\* The round-1 broadcasts are authenticated: whoever a faulty participant takes
\* the key of, an honest participant's index comes with its own.
ASSUME ArrivalsAssumption ==
    \A list \in Arrivals :
        /\ list \in Seq(Range(list))
        /\ \A e \in Range(list) : e.index \in Nat /\ (e.index \in Node => e.key = Key[e.index])

-----------------------------------------------------------------------------
(* Sealing *)

\* noise_seal with the sender's secret
NoiseSeal(from, to, prologue, plaintext) ==
    [from |-> from, to |-> to, prologue |-> prologue, plaintext |-> plaintext]

\* noise_open with p's secret, under the key of the dealer it takes it for
NoiseOpens(p, remote, prologue, ct) ==
    ct.to = Key[p] /\ ct.from = remote /\ ct.prologue = prologue

\* What participant d committed to in ceremony c
Committed(c, d) == [dealer |-> d, coefficients |-> Polynomial[c][d]]

\* The 72 bytes: a well-formed encode_plaintext and the commitment's digest
Plaintext(c, d, i) ==
    [dealer |-> d, player |-> i, value |-> Evaluate(Polynomial[c][d], i),
     digest |-> Committed(c, d), length |-> 72]

\* seal_round2: one package per roster participant, the dealer included
SealedRound2(c, d, r) ==
    {NoiseSeal(Key[d], e.key, Prologue(r, c.round), Plaintext(c, d, e.index)) :
        e \in Range(r.participants)}

\* Whatever the faulty seal, they seal with their own keys; they know the roster.
FaultySealed ==
    {NoiseSeal(Key[f], Key[p], Prologue(NewRoster(list, Session), Round), pt) :
        f \in Faulty, p \in Node,
        list \in {l \in Arrivals : ~ RosterRefused(l)}, pt \in FaultyPlaintext}

\* Packages of ceremonies that the same participants ran before
Stale ==
    UNION {SealedRound2(c, d, NewRoster(list, c.session)) :
        c \in Past, d \in Node, list \in {l \in Arrivals : ~ RosterRefused(l)}}

\* A package is a ciphertext under whatever indices its envelope is given.
Package == [dealer : Index, recipient : Node, ciphertext : wire]

-----------------------------------------------------------------------------
(* Opening *)

\* The set round 1 ended with, the same for all
AgreedSet ==
    {Committed(Now, d) : d \in Node} \cup
    {[dealer |-> f, coefficients |-> FaultyCommitment[f]] : f \in Faulty}

\* AgreedRound1::commitment
CommitmentOf(p, d) == {c \in agreed[p] : c.dealer = d}

\* verify_subshare
Feldman(c, i, value) == i # 0 /\ value = Evaluate(c.coefficients, i)

\* Mutant: what is inside is not compared with the envelope.
IndicesUnread(p, sp, pt) == TRUE

\* The indices inside match the indices outside.
IndicesMatch(p, sp, pt) == pt.dealer = sp.dealer /\ pt.player = sp.recipient

\* What both openers do first: roster, envelope, Noise, length, decoding,
\* indices.  "Ok" means that the plaintext can be looked at.
Decrypted(p, sp) ==
    LET ct == sp.ciphertext
        pt == ct.plaintext
        remote == PublicKey(roster[p], sp.dealer)
    IN IF remote = {} THEN "UnknownParticipant"
       ELSE IF \/ sp.recipient # p
               \/ \A k \in remote : ~ NoiseOpens(p, k, Prologue(roster[p], Round), ct)
               \/ pt.length # 72
            THEN "SealedOpenFailed"
       ELSE IF pt.dealer = 0 \/ pt.player = 0 THEN "InvalidIndex"
       ELSE IF pt.value \notin Field THEN "InvalidResponse"
       ELSE IF ~ IndicesMatch(p, sp, pt) THEN "SealedOpenFailed"
       ELSE "Ok"

\* Mutant: the digest inside is not looked at.
OpenUnpaired(p, sp, c) ==
    LET pt == sp.ciphertext.plaintext IN
    IF Decrypted(p, sp) # "Ok" THEN Decrypted(p, sp)
    ELSE IF pt.dealer # c.dealer \/ ~ Feldman(c, p, pt.value) THEN "InvalidSubShare"
    ELSE "Ok"

\* open_subshare, against a commitment the caller got from somewhere
OpenSubShare(p, sp, c) ==
    LET pt == sp.ciphertext.plaintext IN
    IF Decrypted(p, sp) # "Ok" THEN Decrypted(p, sp)
    ELSE IF pt.dealer # c.dealer \/ pt.digest # c THEN "InvalidSubShare"
    ELSE IF ~ Feldman(c, p, pt.value) THEN "InvalidSubShare"
    ELSE "Ok"

\* Mutants: the digest inside is not looked at, or is all that is looked at.
OpenWithoutDigest(p, sp) ==
    LET pt == sp.ciphertext.plaintext
        mine == CommitmentOf(p, sp.dealer)
    IN IF mine = {} THEN "UnexpectedDealer"
       ELSE IF Decrypted(p, sp) # "Ok" THEN Decrypted(p, sp)
       ELSE IF \A c \in mine : ~ Feldman(c, p, pt.value) THEN "BadSubShare"
       ELSE "Ok"
OpenByDigest(p, sp) ==
    LET mine == CommitmentOf(p, sp.dealer) IN
    IF mine = {} THEN "UnexpectedDealer"
    ELSE IF Decrypted(p, sp) # "Ok" THEN Decrypted(p, sp)
    ELSE IF sp.ciphertext.plaintext.digest \notin mine THEN "InvalidSubShare"
    ELSE "Ok"

\* open_subshare_agreed_with_evidence: Feldman before the digest
OpenWithEvidence(p, sp) ==
    LET pt == sp.ciphertext.plaintext
        mine == CommitmentOf(p, sp.dealer)
    IN IF mine = {} THEN "UnexpectedDealer"
       ELSE IF Decrypted(p, sp) # "Ok" THEN Decrypted(p, sp)
       ELSE IF \A c \in mine : ~ Feldman(c, p, pt.value) THEN "BadSubShare"
       ELSE IF pt.digest \notin mine THEN "InvalidSubShare"
       ELSE "Ok"

\* OpenFailure::into_error: what open_subshare_agreed answers
IntoError(r) == IF r = "BadSubShare" THEN "InvalidSubShare" ELSE r

-----------------------------------------------------------------------------

Init ==
    /\ roster  = [p \in Node |-> None]
    /\ agreed  = [p \in Node |-> AgreedSet]
    /\ wire    = Stale \cup FaultySealed
    /\ dealt   = {}
    /\ taken   = [p \in Node |-> {}]
    /\ accused = [p \in Node |-> {}]

\* Round 1 closes for p.
BuildRoster(p, list) ==
    /\ roster[p] = None
    /\ ~ RosterRefused(list)
    /\ roster' = [roster EXCEPT ![p] = NewRoster(list, Session)]
    /\ UNCHANGED <<agreed, wire, dealt, taken, accused>>

SealRound2(p) ==
    /\ roster[p] # None
    /\ p \notin dealt
    /\ PublicKey(roster[p], p) # {}
    /\ wire'  = wire \cup SealedRound2(Now, p, roster[p])
    /\ dealt' = dealt \cup {p}
    /\ UNCHANGED <<roster, agreed, taken, accused>>

\* Some package arrives.  A value is handed on; evidence is kept; every other
\* failure is local and leaves nothing.
Open(p, sp) ==
    /\ roster[p] # None
    /\ \/ /\ OpenWithEvidence(p, sp) = "Ok"
          /\ taken' = [taken EXCEPT ![p] = @ \cup
                {[dealer |-> sp.dealer, value |-> sp.ciphertext.plaintext.value]}]
          /\ UNCHANGED accused
       \/ /\ OpenWithEvidence(p, sp) = "BadSubShare"
          /\ accused' = [accused EXCEPT ![p] = @ \cup {sp.dealer}]
          /\ UNCHANGED taken
    /\ UNCHANGED <<roster, agreed, wire, dealt>>

\* p applies a verdict against f, and derives the agreed set again without it.
Drop(p, f) ==
    /\ CommitmentOf(p, f) # {}
    /\ agreed' = [agreed EXCEPT ![p] = @ \ CommitmentOf(p, f)]
    /\ UNCHANGED <<roster, wire, dealt, taken, accused>>

Next ==
    \E p \in Node :
        \/ \E f \in Faulty : Drop(p, f)
        \/ \E list \in Arrivals : BuildRoster(p, list)
        \/ SealRound2(p)
        \/ \E sp \in Package : Open(p, sp)

Spec == Init /\ [][Next]_vars

-----------------------------------------------------------------------------
(* Properties *)

\* Every variable has its type, and a roster is in order of index whatever the
\* order of arrival.
TypeOK ==
    /\ \A p \in Node : roster[p] # None =>
            /\ roster[p].session = Session
            /\ \A i, j \in DOMAIN roster[p].participants :
                    i < j => roster[p].participants[i].index < roster[p].participants[j].index
    /\ agreed \in [Node -> SUBSET AgreedSet]
    /\ dealt \subseteq Node
    /\ taken \in [Node -> SUBSET [dealer : Index, value : Field]]
    /\ accused \in [Node -> SUBSET Index]

\* Relabelling, replaying an earlier ceremony's packages, and advertising
\* another participant's key as one's own gets no honest dealer accused: the
\* only evidence is against those that sealed a bad value themselves.
HonestNotAccused == \A p \in Node : accused[p] \subseteq Faulty

\* open_subshare takes the commitment from its caller, who may have got it from
\* anywhere; what it accepts in an honest dealer's name is that dealer's value
\* together with the commitment that dealer made, also where another
\* commitment has the same value at this index.
PairNotSplit ==
    \A p \in Node : roster[p] # None =>
        \A sp \in {s \in Package : s.dealer \in Node /\ Decrypted(p, s) = "Ok"} :
            \A a \in [1 .. Len(Polynomial[Now][sp.dealer]) -> Field] :
                LET c == [dealer |-> sp.dealer, coefficients |-> a] IN
                OpenSubShare(p, sp, c) = "Ok" => c = Committed(Now, sp.dealer)

\* The two openers give one answer: with the agreed commitment in the caller's
\* hands, open_subshare accepts and refuses what open_subshare_agreed does,
\* and for the same reason.
OpenersAgree ==
    \A p \in Node : roster[p] # None =>
        \A sp \in Package : \A c \in CommitmentOf(p, sp.dealer) :
            IntoError(OpenWithEvidence(p, sp)) = OpenSubShare(p, sp, c)

\* Participants that have heard the same broadcasts, their own among them, in
\* whatever order, open each other's packages: an honest dealer's package is on
\* the wire for every such recipient.
SameBroadcastsOpen ==
    \A d \in dealt, p \in Node :
        roster[p] # None /\ PublicKey(roster[p], p) # {} /\
        Range(roster[p].participants) = Range(roster[d].participants)
            => \E ct \in wire :
                 OpenWithEvidence(p, [dealer |-> d, recipient |-> p, ciphertext |-> ct]) = "Ok"

\* The channel implements Delivery.
Promise == INSTANCE Delivery WITH
    Recipient <- Node,
    Dealer    <- Index,
    ShareOf   <- [d \in Index |-> [p \in Node |->
                    CHOOSE v \in Field : \A c \in AgreedSet : c.dealer = d => Feldman(c, p, v)]],
    Agreed    <- {c.dealer : c \in AgreedSet}

ImplementsDelivery == Promise!Spec
=============================================================================
