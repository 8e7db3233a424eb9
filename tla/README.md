# A TLA+ verification of frostito

frostito is a Rust library (`src/src/*.rs`) for threshold Schnorr keys: a distributed key
generation with an echo round, sealed sub-shares and complaints, proactive resharing, and
"nested" signing, in which one position of an outer FROST group is itself held by an inner
group. It keeps no threads and opens no sockets: everything hard about it is in how several
participants call it, in which order, over channels that lose and repeat, and across crashes.
This directory models those calls and checks and proves what the library promises of them.

## 1. Inventory

| Part | State | Operations | Who it interacts with |
|---|---|---|---|
| Round 1, `dkg::DkgState`, `Dealer`, `ProofOfKnowledge` | `commitments`, `disqualified` | `submit_commitment`, `disqualify`, `is_complete`, `derive_*`, `agreed_round1` | the caller's broadcast delivers packages; complaints disqualify |
| Echo, `AgreedRound1` | an immutable copy of the round-1 set and its digest | `confirm`, `confirm_all`, `commitment` | digests from every participant; round 2 looks commitments up in it |
| Round 2, `dkg::Aggregator` | `subshares`, `constant_commitments` over a fixed `dealer_set` | `add_subshare`, `is_complete`, `finalize`, `derive_group_key` | is made from the handle; is fed by the sealed channel |
| Sealed channel, `sealed.rs` | `SealedRoster`, fixed when round 1 closes | `seal_round2`, `open_subshare`, `open_subshare_agreed`, `.._with_evidence` | Noise_K to each recipient; its failures become complaints |
| Complaints, `Complaint`, `ComplaintTally` | `upheld`, `flagged` | `sign`, `verify`, `adjudicate`, `record`, `disqualifiable` | the caller's complaint log; `disqualify` |
| Nested signing, `nested.rs` | nonces in the holder's memory, the `SpentSessions` store | `inner_commit`, `inner_precommit`, `inner_sign`, `spend`, `verify_inner_share`, `aggregate_inner_shares_verified` | an untrusted coordinator; the host's restarts |
| Signer layers, `signer.rs` | the store, owned by `Spend` | `Holder::sign`, `Spending::sign` | wraps `inner_sign` |
| Nested key generation | the pieces a holder collects | `interleaved_dkg`, `split_evaluation_for_inner`, `verify_split_piece`, `combine_shares` | uses the DKG aggregator; flat participants deal to the holders |
| Resharing, `reshare.rs` | `ReshareState.commitments`, `Aggregator.{subshares,commitments}` | `submit_commitment`, `dealer_set`, `verify_group_key`, `add_subshare`, `finalize` | old holders deal, new players aggregate |
| `lagrange.rs`, `context.rs`, `zf.rs` | none | pure functions | all of the above |
| `curve.rs`, `error.rs`, `lib.rs`, `test_rng.rs` | none | arithmetic wrappers, texts, re-exports | all of the above |

Hard behaviours, and the properties they call for:

* **Equivocation and asynchronous echoes.** A faulty dealer gives different commitments to
  different participants and a faulty peer echoes a different digest to each. Whoever confirms
  must agree with every other that does (`ConfirmedAgree`).
* **Snapshots that go stale.** `AgreedRound1` is a copy and the `Aggregator` is built from it;
  `disqualify` changes neither. What may still be trusted after a disqualification
  (`HandleOnlyShrinks`, `CeremonyTypeOK`,
  `StateDerivesKeyOfShare`, `FinalizesOnceServed`)?
* **Old messages.** A package of an earlier ceremony arrives in this one
  (`HonestDealerIntact`, `HonestNeverDisqualified`); a package arrives twice
  (`StateDerivesKeyOfShare`) or after its dealer was thrown out (`DisqualifiedStaysOut`).
* **A hostile network.** Envelopes are relabelled, keys in the roster copied, packages of other
  sessions and rounds delivered, broadcasts reordered (`HonestNotAccused`, `ImplementsDelivery`,
  `SameBroadcastsOpen`); and two openers check one package in different orders (`OpenersAgree`,
  `PairNotSplit`).
* **Verdicts in different orders.** Complaints are judged locally, one at a time, while others
  finalize (`KeyWithoutCondemned`, `HonestAccuserNeverFlagged`, `ImplementsOneKey`), and some of them
  are lies (`HonestNotVotedOut`, `HonestNeverDisqualified`).
* **Counting what is left.** `DkgAborted` is decided by the dealers that remain after the one being
  removed (`LiveHandleHasQuorum`).
* **Crashes.** A restored holder has its nonces back (`NonceAnswersOnce`, `WrittenAhead`).
* **A coordinator that mixes.** Rounds run concurrently, commitments can be relabelled, each holder is
  asked separately, and corrupt holders answer everything (`RoundsNotMixed`, `OneResponsePerSession`, `AggregateIsResponse`).
* **A commitment that is nobody's in particular.** A reshare dealer shows each player another
  commitment, an old one comes back, a late one changes the dealer set (`SamePolynomial`,
  `HonestSetKeepsKey`, `ImplementsHandover`, `SecretPreserved`).
* **Counts that stand for sets, places that stand for indices** (`CompleteAccountsForAll`,
  `CompleteHasEveryDealer`, `HonestSetFinalizes`, `RecoversConstant`, `BatchSound`), and shares of
  sums whose parts come from different people (`QuorumsReconstruct`).
* **Bytes.** Digests and signatures speak of encodings; two values with one encoding, or bytes that are
  read as a value nobody wrote, undo them (`EncodingsFaithful`).
* **Waiting.** Round 1 ends on a count of echoes, round 2 on a count of sub-shares
  (`RoundOneCompletes`, `FinalizesOnceServed`).

`PROJECT.json` lists these hazards at their lines, with those no property covers yet.

## 2. Modules

```
OneKey    <--implements--  DkgCeremony    --extends-->  DkgRound1
Handover  <--implements--  Reshare        --extends-->  Lagrange
Delivery  <--implements--  SealedChannel  --extends-->  Lagrange
                           NestedSigning
NestedKey, BatchVerify, Encoding          --extend-->   Lagrange
```

`MCDkgRound1`, `MCDkgCeremony`, `MCReshare`, `MCSealedChannel`, `MCNestedSigning` and `MCAlgebra` (the last line
together) give the constants their values for TLC. The theorems are in

```
DkgCeremonyProofs  --extends-->  DkgRound1Proofs
ReshareProofs, SealedChannelProofs, AlgebraProofs, EncodingProofs  --extend-->  LagrangeProofs
NestedSigningProofs
```

### DkgRound1

One `DkgState` per honest participant (`commitments[p]`, `disqualified[p]`), the handle
`agreed[p]` it took, the echoes it holds, and `phase[p]`, how far its caller is. Group elements
are symbolic: a commitment is its dealer, a name for its constant term, a name for its other
coefficients and its length; a proof of knowledge is what its challenge hashes. So a proof binds
dealer, epoch and constant term only (as `ProofOfKnowledge::challenge` does), and one valid proof
goes with several commitments that differ in higher coefficients: that is the equivocation the
echo exists for. The digest hashes whole commitments and the ceremony's parameters, and is
injective; SHA-512 is taken to have no collisions.

`SubmitCommitment` is `submit_commitment` when it answers `Ok(true)` (`Admissible` is the
conjunction of its early returns; refusals and duplicates change nothing). `Disqualify` drops the
slot and lists the dealer before it may report `DkgAborted`, on which the caller stops. `AgreeRound1`
copies the state, `ConfirmAll` and `EchoMismatch` are the two ways the echo ends. The caller keeps
one digest per sender, as the count in `confirm_all` is of digests and not of senders.

### DkgCeremony

Extends round 1 by round 2. A sealed package is whether it opens under the roster's keys and
prologue, the commitment its scalar is a value of, and the commitment its digest names. The
aggregator's parallel vectors are a set of numbered copies of commitments, so a sub-share counted twice shows.
`Opened` and `Accusable` follow the order of checks in `open_subshare_agreed_with_evidence`; `SealedChannel`
has what is inside of them. `KeyBasis` is what the `DkgState` sums for the group key and the
verification shares.
`Verdict` is `Complaint::verify` and `adjudicate` with the judge's own agreed set, `Process` is
`ComplaintTally::record`, `Apply` is `disqualify`, a new `agreed_round1` and a new `Aggregator`.

The library says what it leaves to its caller ("What a caller still has to do", `dkg.rs`), and the
model gives the caller that discipline and no more:

* round-1 packages and echoes come from authenticated senders;
* the complaint log is one for all (a reliable broadcast) and is closed at some point;
* nobody finalizes before it has applied every complaint of the closed log;
* after a disqualification the handle is derived again and aggregation starts over.

Of what a complaint holds nothing is asked. A faulty participant signs as many as it likes, over scalars
and over round-1 packages that it made up (`Fabricated`, any set of complaints under faulty names). Of the
first kind T accusers are needed, and `HonestNotVotedOut` says that fewer faulty ones do not get there. One
upheld complaint of the second kind is enough, and an honest dealer can be lost to it (`made_up`).

The rule that aggregation starts over is what keeps the group in one piece: with the old handle kept, `KeyWithoutCondemned`
and `ImplementsOneKey` both fail (the mutants `HandleKept` and `HandleEchoed`).

### OneKey

What a key generation promises and nothing of how: results are given once, all are equal, each is
a sum of one polynomial per dealer over at least T dealers, an honest dealer's is the one it drew.
`DkgCeremony!ImplementsOneKey` maps `result[p]` to the set of commitments `p` finalized over.

### SealedChannel

Everything between `seal_round2` and a sub-share in the recipient's hands. `roster[p]` is p's
`SealedRoster`, built from the round-1 broadcasts in the order they arrived (`Arrivals`, with lists that
`SealedRoster::new` refuses); `wire` the ciphertexts that exist, which the network delivers under any
envelope; `agreed[p]` p's `AgreedRound1`, from which a faulty dealer may be dropped at any time.
A Noise_K message is the list of what its key schedule binds: both static keys and the prologue. It can
be written with the sender's secret and opens with the recipient's, so faulty participants seal whatever
they like with their own keys and only replay what others sealed. The prologue has the roster (as its
transcript), the session and the round. `Sorted` is the stable `sort_by_key` of `SealedRoster::new`: the list
along the one ordering of its places (`InOrder`) in which equal indices keep theirs. Nothing in the prologue
names an epoch: that sessions are fresh is the caller's part, and `PastAssumption` says so. That honest
participants' broadcasts arrive with their own keys is the authenticated round-1 channel's
(`ArrivalsAssumption`).

`Decrypted` has the checks that the openers share, in their order and with the error each gives, and
`OpenSubShare` and `OpenWithEvidence` go on from there, each in the order of the code: the first compares the
digest before the Feldman check, the second after, since only a bad value may be held against a dealer.
`Open` is a delivery: a value is handed on, evidence kept, and any other failure leaves nothing.

### Delivery

What the channel promises: from an honest dealer, what it dealt to this recipient in this ceremony, once it
has dealt; from any other, the value of the agreed commitment; and nothing else.

### NestedSigning

Honest holders are processes with nonces in memory (`nonces`), a snapshot they restart from (`saved`), a
running sign call (`signing`), and the durable store (`spent`). A nonce pair is symbolic:
holder, session and the number of the draw, and stands for its two points. A commitment is a pair with a
holder and a session written on it, which are plain public fields and say whatever their sender likes; its
precommitment hashes all three and stands for the commitment. The nested entry of the outer package, a sum of
pairs, is how often each pair is in it. The binding factor, the challenge and the Lagrange coefficient are
functions of the package (`inner_params_from_zf`), so the package stands for them.

Corrupt holders have no state: they draw and precommit to anything, and differently to each holder, and have a
valid share for every request that lists a pair of theirs, with nothing checked and no session spent. What they
cannot do is answer under a pair that an honest holder drew. `Offered` is what a coordinator that
works with them can send along: what was published, and pairs it has seen or they drew under other labels
(`MadeUp`). The list of precommitments is the inner group's own round 0 and not the coordinator's, as
`NestedSigningRequest` says.

`FinishSign` is an `inner_sign` that answers `Ok`; its checks have names: `OwnRound`, `Aggregable`
(`aggregate_inner_commitment_pair` with the precommitments), `Quorum`, `NestedEntry`
(`verify_nested_commitment`), and the message. `BeginSign` is the first half of `Spending::sign` and `FinishSign`
the second, and `Restart` may come between: that gap is what write-ahead is about.
`Aggregates` is `aggregate_inner_shares_verified` answering `Ok`; verification of a share compares
it with the package and the quorum, since those fix ρ, c, λ and μ.

### Lagrange

`compute_lagrange_coefficients` as it is computed: the refusals, the denominators d_i, the forward
pass (`Before`), the running suffix of the backward pass (`After`, whose last value is the common
denominator), one inversion. Scalars are the integers modulo a small prime `P`; every index in use
is smaller than `P`, as every u32 is smaller than the order of the real field. `Evaluate` is Horner's
rule, which `generate_subshare` and both `evaluate_at` share. Its refusals and the special case of one
index are checked by `MCAlgebra` against what the weights are for.

### NestedKey

The key generation of a nested position. `coefficients` and `inner[k]` are what `interleaved_dkg` returns (all
commitments, and each holder's shares of the coefficients); it runs all dealers in one process, so it is one
action. `split[i]` is the commitment a flat participant publishes with `split_evaluation_for_inner`, `pieces[k]`
the pieces that holder k has verified, in whatever order they came, `sigma[k]` what `combine_shares` gave it.
A faulty flat participant splits any value and sends anything; pieces that do not verify are dropped.
`combine_shares` sums the pieces it is given and does not read their indices: that there is one of each flat
participant is for its caller to see to, and the model's caller does (`TakePiece`, `Combine`). A
split has as many coefficients as the inner threshold (`NestedKeyAssumption`; nothing in the code
looks at it). A draw has one inner polynomial per holder for each of the outer coefficients, and all outer
polynomials have the outer threshold's length (`DrawsAssumption`), as `interleaved_dkg` and the outer
`Dealer::new` make them.

### BatchVerify

`batch_verify_subshares` with its weights as a parameter, so that a property can count the weights
under which a batch passes.

### Encoding

The encodings: layouts, lengths, prefixes, byte orders and refusals are those of the code, and what a byte, a word
and the curve are is left to constants. The code's are `Base` = 256, `Word` = 4 (a u32), `Long` = 8 (a u64), 32 bytes
for scalars, coordinates and digests, and secp256k1, y² = x³ + 7, whose scalars are written big-endian; indices and
lengths are little-endian. The assumptions are that what is written fits where it is written
(`EncodingAssumption`) and that coordinates are integers modulo an odd number without zero divisors
(`CurveAssumption`). A decoder is the set of the values that it accepts for some bytes. What bytes are a point is decided by
`k256`, which is not part of this repository: the crate checks the length and the zeros and hands the rest on. `Decompress`
and `Parity` have what that library is known to take at 33 bytes, the tags 2 and 3 and also SEC 1's compact tag 5,
which stands for the even of the two points. `CommitmentBytes`,
`Prefixed` and `AccusationBytes` are of variable length, everything else is not. `ByDealer` is the sorting of the
echo; dealers are distinct there, since commitments come out of the slots of a `DkgState`. Hash functions are left out: what
counts is that their inputs differ.

### MCAlgebra

`Lagrange`, `BatchVerify` and `Encoding` have no state. `MCAlgebra` grows a list of numbers and reads it as
indices, as values of a batch and as bytes; beside it, it runs `NestedKey`.

### Reshare

`commitments` is `ReshareState.commitments`; `dealerSet`, `added` and `result` are each new player's
`Aggregator` and what its `finalize` returned; `manifest` is the signed epoch manifest that the
documentation asks the callers for. Senders of commitments are authenticated by the caller's channel, here as
in round 1 (`SubmissionsAssumption`). A group element g^x is written as x, and nothing takes a
logarithm, so that sums, Feldman checks and the group-key check are the real ones; a proof of
possession is what its challenge hashes, and exists only for those that held the constant term.
`Submissions` has, beside what faulty dealers submit, every honest dealer's commitments of this and an
earlier epoch, and one of a key generation with the same epoch number.

`SubmitCommitment` is `submit_commitment` when it answers `Ok(true)`, `Publish` and `NewAggregator` the
caller's way from `dealer_set` to `Aggregator::new`, `AddSubShare` one `add_subshare` or one round of
`add_subshares_batch`, `Finalize` is `finalize`. What a call refuses changes nothing. `FromState` says
where callers take the commitment they pass to `add_subshare` from: out of the `ReshareState`, or out of
the message that brought the sub-share. The code accepts both.

### Handover

What a reshare promises and nothing of how: one polynomial through the old group key, and each result
the player's value on it. The scalars and the evaluation of a polynomial are parameters.

## 3. Runs

| Run | Question | Bounds | States |
|---|---|---|---|
| `round1` | round-1 safety | N = 3, T = 2, one faulty, one old epoch, six faulty packages | 134 k |
| `ceremony` | sums, verdicts and disqualifications; `OneKey` with equivocation | the same N, T; two round-1 packages, four faulty round-2 packages, two false complaints against one honest dealer | 215 k |
| `forged` | `OneKey`, with a replayed proof and its complaint | the same N, T; two faulty round-1 packages, a good round 2 | 126 k |
| `recovery` | `RoundOneCompletes`, `FinalizesOnceServed` | equivocation, a good round 2, a complaint over a made-up package | 67 k |
| `channel` | `Delivery`; who is accused, which packages open | 2 honest, 1 faulty; 7 orders and contents of broadcasts, 2 earlier ceremonies, 8 faulty plaintexts | 2.1 k |
| `signing` | nonces, write-ahead, rounds apart, one response | 4 holders, one corrupt, 3 a quorum, 2 messages, 2 sessions, one draw each, 4 commitments under chosen labels | 226 k |
| `algebra` | interpolation, batches, encodings, a nested position's key | every list of up to 5 numbers below 6, as indices and batches those below 5; 3 holders, 2 a quorum, 2 flat participants | 24 k |
| `reshare` | `Handover`, the old secret, one polynomial, everybody finalizes | 4 old holders, 2 a quorum, 2 colluding; 2 new players | 5.6 k |
| `stale_package`, `made_up`, `quorum_response`, `reshare_split` | disagreements, below | as above; `reshare_split` with 3 old holders | – |

Three participants with one faulty are the smallest group in which two honest participants can be
told different things, in which a disqualification leaves a quorum and a second one does not, and in
which T accusers differ from one. Each hazard involves at most two honest participants and one
faulty one. The faulty packages cover each reason `submit_commitment` refuses for, and both sides of
an equivocation. One earlier epoch is enough, as a package is checked against this epoch only. With two faulty complaints of one accuser, counting complaints and counting accusers differ.
For signing, four holders with one corrupt and quorums of three are the smallest group in which
different quorums exist and any two meet in an honest holder; two sessions are the least in which a splice could
happen. One draw per holder keeps the run small: a second draw of a session is refused by the store, and what happens
with more draws is left to the proofs, which are for any number. The corrupt holder publishes pairs of its own in both
rounds, and the second holder's pair of the first round is offered in the second, as that holder's and as its own. For resharing, two faulty dealers are the least that can shift their constant terms
against each other; they have the lowest indices, so that they are in the dealer set unless it is
taken before they commit, and a late one changes it. Two new players are the least that can differ
and are a quorum of the new threshold.

In the channel the faulty participant may advertise its own key or either honest one's, and take an honest
participant's index; every package is tried under every dealer's and recipient's index. The old
polynomials share a value with the new ones, so that a package of another session and a commitment of this one
do pass the Feldman check together, and only the digest tells them apart. One past session and one past round
are what a prologue has to tell apart, and it holds no other state.

Lists of four indices have two places in the middle, where both passes multiply. Batches have up to three
sub-shares, enough for two errors that cancel under equal weights; with lists of five numbers every string of
bytes that is one too long for a commitment or a sub-share of the sizes at hand is tried. `Base` is 6, so that the
compact tag is a byte. The curve
y² = x³ + 3x + 2 over five elements has points with and without a
partner of the other parity. For a nested position three holders have two quorums that overlap and one flat
participant is faulty; the outer polynomials are lines, so that any two of the three outer participants,
one of them the position, recover the key. `MaxDraws` bounds the draws per holder; nothing else is unbounded.

`CHECK_DEADLOCK FALSE` throughout: a ceremony ends, by finalizing, by aborting or by waiting for a
faulty participant for ever, and signing stops when the draws are used up.

### Fairness

Safety runs have none. `FairCeremony` asks for weak fairness of `HonestStep(p)` for each honest
participant, and of `Close`. `HonestStep` contains only the caller's own calls and the
delivery of what honest participants sent: the caller is required to bring a reliable broadcast,
the library has no step that waits for anything else, and every call returns. Nothing is asked of
faulty participants. `Reshare!Fairness` asks the same of the honest dealers' submissions, of the manifest
and of each player's own calls on what honest dealers send; `HonestSetFinalizes` speaks of manifests
of honest dealers, as nothing removes a dealer from a `ReshareState`.

What the faulty participants have to do for the group to go on is in the premises of the liveness properties.
`RoundOneCompletes` starts from a state in which they have told all honest participants the same and echoed it:
one that echoes a good digest to some only leaves the group in two parts for good.
`FinalizesOnceServed` starts from a state in which everybody has dealt and each faulty dealer has served p or
been disqualified at p: the library gives no way to disqualify one that cheats fewer than T recipients.
A disqualification starts the aggregation over, and what the participant had of a faulty dealer that is still
in goes with it. Nothing makes that dealer send it again, so the premise is `[]<>Served`: the participant is served,
and again after each restart. In the `recovery` run the restart comes from a complaint over a made-up package, which
removes an honest dealer while the faulty one stays. `RoundOneCompletes` asks that no round-1 complaint is ever
upheld: a dealer that is thrown out between two participants' copies leaves these with different digests, and the
library has nothing to start the echo again with.

## 4. Proofs

`DkgRound1Proofs` (every N, T in 1..N, faulty set, set of earlier epochs and faulty packages):

* the inductive invariant `IInv` has the type invariant, `HonestDealerIntact` and `HandleOnlyShrinks`,
  and beside them: no dealer is both recorded and disqualified (`NeverBoth`); an echo held from an
  *honest* participant is the digest of the handle that participant still holds (`HonestEchoes`); a
  confirmed participant has the same digest from everybody (`ConfirmedHeardAll`); behind a handle
  there is no empty slot left to fill (`NoSlotLeft`); whoever goes on has T dealers left
  (`EnoughRemain`). `ConfirmedAgree` alone is not inductive: it needs to know where a digest came
  from, and that its handle no longer changes;
* `Agreement`: both confirmed, so p holds n digests and with them q's, which is the digest of q's
  handle and equals the digest of p's; digests are injective. Faulty echoes are not used;
* `Accounting` is an argument on cardinalities: two disjoint subsets of 1..N whose sizes add up to
  N cover it;
* `TypeCorrect`, `HonestIntact`, `HandleShrinks`, `Quorum`, and `StaysOut` (an action property).

`NestedSigningProofs` (any finite set of holders and corrupt ones among them, any threshold, sessions, messages, labels
and number of draws):

* the inductive invariant `SigningInv` adds to `TypeOK` and `WrittenAhead` that a running call holds a session that is
  in the store and that no share of its holder answers (`CallHoldsSession`), that an honest holder has
  one share per session (`OneSharePerRound`), and that a share answers for nonces of its request's round which are listed
  there, among commitments that passed aggregation (`AnswersOwnRound`). A crash breaks none of them, because the store
  survives it;
* `SigningTypes`, `NoncesAnswerOnce`, `RecordedAhead` follow. `RoundsApart` uses the precommitments: a commitment listed
  for an honest holder is one that this holder precommitted to, so its label is the pair's own;
* `OneResponse` needs that two quorums meet in an honest holder (`QuorumsMeet`, from
  2 * Threshold > holders + corrupt holders), which the code leaves to whoever picks `inner_threshold`: a corrupt
  holder answers everything, so where only it is in both quorums each of them completes a response.

`DkgCeremonyProofs` (the same generality, and any round-2 packages of and any complaints by faulty participants):

* every step of the ceremony is one of round 1 or leaves it alone (`StepOfRound1`), so `IInv` holds throughout;
* a participant that has heard its own digest from everybody keeps set and echoes from there on (`EchoedStays`),
  and two such hold one set (`EchoedAgree`). This is `Agreement` without `phase`: a participant that aborts
  later has judged complaints as well, and its verdicts count in `KeyWithoutCondemned`;
* `CeremonyInv` says that sub-share complaints are judged after that point only (`JudgesEchoed`), that tally and
  convictions are exactly what the verdicts on the processed complaints amount to (`TallyExact`), that nobody is
  disqualified without being condemned (`ForCause`), that honest complaints have grounds (`HonestGrounds`), that
  in round 2 the handle is what the state gives now (`HandleCurrent`), and that whoever has finalized has applied
  the whole closed log and summed what it left (`FinalizedSettled`). None of the properties is inductive alone:
  they compare participants at different points of the log, and what relates these is that a verdict is a
  function of the echoed set, and the tally one of verdicts;
* `JudgingMore`: whoever has judged more condemns more. With `FinalizedSettled` this gives `NoneCondemned`, and
  `SettledAgree` (two that finalize are left with one set), which is the step of `ImplementsKey`. `CompleteIsAll` is
  the counting argument: as many sub-shares as dealers, no dealer twice, so one of each. `KeyOfShare`,
  `AccusersSafe`, `CeremonyTypes` follow from the same invariant. Only `HonestNotVoted` counts the faulty: with fewer than
  T of them the tally of an honest dealer has fewer than T accusers, since an honest accuser's scalar came out of
  a package its dealer sealed. So an honest dealer goes by a round-1 complaint only (`stale_package`, `made_up`).

`SealedChannelProofs` (any participants, keys, broadcasts, past ceremonies and faulty plaintexts):

* the invariant (`ChannelInv`) says that handles hold commitments of the agreed set and that only faulty dealers are
  accused (`Typed`), that every roster is of this session and lists honest participants under their own keys
  (`RostersSound`), and that whatever is on the wire under an honest key and this ceremony's session and round was
  sealed by the key's owner (`WireFromDealers`). `Authentic` is
  the core: a ciphertext that opens at an honest recipient under an honest dealer's index was sealed by that dealer
  for this recipient in this session and round, because the key schedule binds both keys and the prologue;
* `NoHonestAccused`, `PairsKept` and `ChannelDelivers` follow; `OneAnswer` compares the two openers' orders of checks.

`ReshareProofs` (any numbers of dealers and players, any thresholds, faulty dealers and field):

* if commitments come from the `ReshareState`: the inductive invariant `ReshareInv` says that the manifest names
  recorded dealers only (`ManifestRecorded`), that an aggregator's items carry the recorded commitments of dealers of
  its set (`ItemsOfSet`), one each (`OneEach`), and that results are on the polynomial `Shared` that
  manifest and slots define. It is needed because slots are still being filled while players
  finalize: what keeps `Shared` fixed is that a slot is written once and the manifest names written ones.
  `EveryDealer` and `OnePolynomial` follow;
* wherever they come from: `RecordInv` says that what is in a slot was submitted for it with a proof for this epoch
  (`Provenance`), and that what is kept and returned has been checked. `ReshareTypes` follows, and
  `HonestKeepKey`: an honest dealer's slot can hold its commitment of this epoch only (`HonestSlot`), and the
  lowest committed indices are as many as the old threshold asks for (`EnoughDealers`, by the least index left out);
* what a dealer set has for the group key, and what a quorum of new shares has for the secret, is
  `WeightsReconstruct` (below): a dealer set of honest dealers interpolates the standing polynomial at zero, and
  shares that `Checked` puts on `Shared` interpolate its constant term, which `VerifyGroupKey` compared with the
  secret. So `HonestKeepKey` has no hypothesis; `SecretStays` and `ImplementsPromise`, like `OnePolynomial`, have
  `FromState`, and `reshare_split` shows what happens without it.

`LagrangeProofs` (every prime, every list of indices):

* the library's induction theorems take an operator, which the provers at hand cannot instantiate. Both
  inductions that are needed are proved instead for a *set*: of the naturals with some property
  (`NatInductive`, from the well-foundedness of `<`), and of the subsets of a finite set (`SubsetsInductive`,
  which takes an arbitrary element out). `Recursion` is the existence of the recursive functions in the
  definitions of the folds, from which their equations follow;
* the integers modulo `P` are a field (`Distributes`, `NoZeroDivisors`, `MinusThrough`, ...), and sums and products
  over finite sets do not depend on the order in which a fold takes elements: an element can be taken out
  (`SumTake`), sums add, scale, exchange and can be reindexed (`SumOfSums`, `SumScaled`, `SumExchange`, `SumReindexed`);
* `DividedPower`: over more points than m + 1, the m-th powers divided by the products of differences sum to zero, by
  induction on m, since multiplying by x_n - x_i takes the point n out. With zero as one more point this gives
  `WeightsAtZero`: weights (product of the points) / (x_i times the differences) take the m-th powers to 0^m;
* `CoefficientsDivide`: the forward pass, the suffix of the backward pass and the one inversion give just these weights
  (`BeforeIsProduct`, `AfterIsProduct`), and what is inverted is not zero. `EvaluateIsSum`: Horner's rule is the sum
  of the terms. `LagrangeReconstructs` exchanges the two sums; `ListReconstructs` and `WeightsReconstruct` restate it for
  holders in any order, `EvaluateSums` and `EvaluateExchange` are about values of summed polynomials and of polynomials
  in two variables.

`AlgebraProofs` (what `MCAlgebra` checks, for every field, list, group, threshold, draw and split):

* `AnswersDefined` and `Recovers`, from the above;
* `KeyInvariant`: every holder has its shares of the one published draw (`OneDraw`), flat participants published
  splits of the inner threshold's length (`Splits`), what a holder keeps is on them (`PiecesOnSplits`), and what
  it combined is the sum of both (`SigmaCombined`). It is an invariant because a draw and a split are
  made once, and pieces are taken only where none is. `QuorumsSpeak` then is algebra: what holders keep are the values
  of polynomials of the inner threshold's length (`HeldPolynomial`, `CombinedPolynomial`), so that any quorum
  interpolates their constant terms, and these are what the commitments promise at the position. Where a
  flat participant is faulty, what is reconstructed has its split's constant term, whatever that is
  (`QuorumHoldsOuterShare`); that the outer group's key is recovered (`GroupKeyRecovered`) needs every split to
  begin with the dealer's evaluation, which its reader can check and `verify_split_piece` does not;
* `BatchChecks`, for a batch of any length: a good one passes under all weights because both sides are one sum, in
  whatever order the commitments come. A bad one is counted: if sub-share n differs from its promise, then a passing
  choice of weights changed at n by each of the P scalars gives P choices, and those of two passing ones do not
  meet (`UniqueWeight`, `FewBalance`); so at most one choice in P passes. `BatchesSound` is `BatchSound` itself; it asks
  for P > 4, since that property writes its polynomials with the scalars 0 to 4.

`EncodingProofs` (every base, width, order, curve over an odd prime field, and domain):

* digits: `FromLittle` gives back what `LittleEndian` wrote, and the other way round for as many bytes as it was
  (`ReadsWritten`, `WritesRead`, by induction on the width; `BigInverts`). So a scalar's bytes decode to it and to nothing
  else, and bytes at or above the order to nothing (`ScalarsDecode`);
* points (`PointsDecode`): the two square roots of a number are y and Modulus - y, as there are no zero divisors,
  and one of the two is odd, as Modulus is. So x and a parity are one point; the zeros of the identity are
  no point's bytes, since none of the tags is 0. A string with compact tags is read as the one with the even tag in their
  place (`CompactIsEven`, `CompactBlocks`, `CompactCommitment`), and without them each value has one encoding;
* blocks: a concatenation of blocks of one width, or of blocks of which none begins another, has one reading
  (`FlattenInjective`, by induction on the number of blocks). With `\o` taken apart at a known place this gives `SubSharesDecode`,
  `PolynomialsDecode`, `CommitmentsDecode` and, with a length in front of what varies, `ContextsDiffer`,
  `EvidencesDiffer` and `ComplaintsDiffer`. Commitments of any number of coefficients are covered, also such as do
  not belong to the threshold;
* `EchoesDiffer`: a prefixed commitment begins no other, the count in the head says how many there are, and a set of
  commitments of distinct dealers has one list in order. So equal bytes are of equal epochs, thresholds, sizes
  and sets. `DkgRound1` takes digests to be injective: this is the part of it that is not the hash function's;
* `IdentifiersDecode`: bytes whose both ends are zeros, where the two orders could be confused, stand for 0, which is
  refused;
* `EncodingsAlwaysFaithful` is the run's property: of what decoders give back and of the compact form as the only
  second one; the samples of what is signed and hashed are some of those the theorems are about.

`SealedChannelProofs` on orders and types:

* `OrderExists`: the places of any list can be put in order of index and place, by the numbers
  index * (n + 1) + place, which are distinct. So `Sorted` is a list with the same members (`SortedList`), rosters are
  strictly ascending (`TypeInvariant`), and two strictly ascending lists with the same members are the same, by
  induction on their common beginning (`SameBeginning`, `SameRoster`): two participants that heard the same broadcasts
  in different orders have the same transcript;
* `OpenInv` says that what an honest dealer has sealed stays on the wire, for everybody its roster lists and with its
  prologue. `HonestPackageOpens` goes through the opener's checks for such a package, and `SameBroadcasts` follows.

Assumptions are the named `ASSUME`s of the modules; TLC evaluates them in the runs. Hypotheses of theorems, beside them,
are `FromState` (Reshare), quorums that meet in an honest holder (`OneResponse`), fewer than T faulty (`HonestNotVoted`), and
P > 4 (`BatchesSound`). `SampleAssumption` says that the commitments in the run's samples have lengths that fit a u64, as the
code's do.

Model-checked only: the three liveness properties `RoundOneCompletes`, `FinalizesOnceServed` and `HonestSetFinalizes`
(fairness and ENABLED are out of TLAPS's reach). Every invariant and action property of a passing run, and every refinement,
is a theorem. Not a property of any run, and proved: `CoefficientsDivide`, `LagrangeReconstructs`,
`WeightsReconstruct`, `KeyInvariant`, `BatchChecks`, and the theorems of `EncodingProofs` on all values of a kind, of
which the run has a sample.

## 5. Where the code and its documents disagree

1. `stale_package`: a `ForgedProofOfKnowledge` complaint is upheld whenever the quoted package does
   not verify under this epoch, and a package does not say which epoch it is of. An honest dealer's
   package from an earlier ceremony, delivered late, gets it disqualified although an upheld complaint
   means that "the accused dealer really did misbehave".
2. `made_up`: the package in such a complaint is the accuser's word, since a package is signed by nothing. One
   participant that makes up a package naming an honest dealer has it disqualified, by one complaint and at
   everybody, where the documentation says that this evidence needs "no trust in the accuser at all". Neither is among
   the duties that `dkg.rs` leaves to the caller; one that compares the quoted package with what its own channel
   carried from that dealer would refuse it.
3. `quorum_response`: a quorum smaller than the set of holders that revealed passes all checks of
   `inner_sign` and `aggregate_inner_shares_verified`, and the sum is not the response to the package:
   after an eviction the retry needs a new round, not only "a different quorum".
4. `reshare_split`: `reshare::Aggregator::add_subshare` takes the commitment from its caller and compares
   it with nothing agreed. A dealer that shows two players commitments with one constant term and
   different higher coefficients leaves them on different polynomials over the same dealer set, where
   the documentation says "Every new player derives the same `F'`". `OnePolynomial` shows that
   looking commitments up in the `ReshareState` is enough.

Read off the code, without a run: the comment in `curve.rs` says that `decompress` takes the prefixes 2 and 3 besides the
zeros, and the code takes whatever 33 bytes `k256` decodes, which includes the compact tag 5. A point with even y then has
two encodings. What is hashed or stored is written by `compress` and never in the compact form, so digests of
what was read do not depend on it; the library that decides it is not in the repository, and no run is claimed for
it. Comments in `nested.rs` say that `inner_sign` records the session before
it computes, but it has no store; `signer::Spend` does it, and `BeginSign` is that layer's. And after
`DkgAborted` a `DkgState` still answers `derive_group_key`; the model's callers stop there. `SessionSpent`
is documented as a session that already produced a share, but `Spending::sign` records the session first, so that
a request that `inner_sign` refuses spends it too. `verify_split_piece` compares a piece with its split and not
the split with the dealer's outer commitment: that its constant term is the dealer's evaluation at the
position, and that it has as many coefficients as the inner threshold, is for its caller to check.

## 6. Not modelled

* Curve arithmetic (`curve.rs` forwards to external libraries): group elements are symbolic, or exponents
  modulo a small prime. Of the encodings, secp256k1's points are modelled; ristretto's and the other curves' are the
  libraries'.
* The Noise handshake and the hash functions, taken as ideal; signatures other than the ones signing is about.
* Error texts, `Display`, the test RNG, re-exports, and the Decaf377 ciphersuite, which is plumbing for frost-core.
* The bias of an abort-and-retry dealer (GJKR99), a matter of distributions; zeroization, which is not
  observable here.

## 7. Plan

1. The step from `Delivery` to the packages of `DkgCeremony`, which are related by hand: the ceremony's packages
   that open are those that the channel takes.
2. Several epochs of resharing in a row, over the key of a ceremony.
