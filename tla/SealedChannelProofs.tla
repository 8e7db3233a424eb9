------------------------ MODULE SealedChannelProofs ------------------------
(***************************************************************************)
(* Sealed round 2 for any numbers of honest and faulty participants, any   *)
(* past ceremonies and whatever the faulty seal: no honest dealer is       *)
(* accused, the openers agree, participants that heard the same broadcasts *)
(* open the same honest packages, and the channel implements Delivery.     *)
(*                                                                         *)
(* The argument is about keys.  A package that opens under an honest       *)
(* dealer's index was written with that dealer's secret, because rosters   *)
(* give honest indices their own keys; it was written in this session and  *)
(* round, because the prologue says so; and then it is the one that the    *)
(* dealer sealed to this recipient.  That it does open needs the two ends' *)
(* transcripts to be equal, and so that sorting undoes every order of      *)
(* arrival.                                                                *)
(***************************************************************************)
EXTENDS SealedChannel, LagrangeProofs

-----------------------------------------------------------------------------
(* Rosters are in order *)

\* A list of broadcasts: their indices are numbers.
Broadcasts(list) == list \in Seq(Range(list)) /\ \A e \in Range(list) : e.index \in Nat

\* Pairs of index and place compare as one number does.
LEMMA CodeOrder ==
    ASSUME NEW n \in Nat, NEW i \in Nat, NEW j \in Nat, NEW a \in 1 .. n, NEW b \in 1 .. n
    PROVE  i * (n + 1) + a < j * (n + 1) + b <=> i < j \/ (i = j /\ a < b)
<1> DEFINE N == n + 1
<1>1. N \in Nat /\ a \in 1 .. N - 1 /\ b \in 1 .. N - 1
  OBVIOUS
<1>2. ASSUME NEW x \in Nat, NEW y \in Nat, x < y PROVE x * N + N <= y * N
  <2> HIDE DEF N
  <2>1. y - x - 1 \in Nat /\ (y - x - 1) * N >= 0
    BY <1>1, <1>2
  <2>2. y * N = x * N + N + (y - x - 1) * N
    BY <1>1
  <2>3. x * N \in Nat /\ y * N \in Nat /\ (y - x - 1) * N \in Int
    BY <1>1, <2>1
  <2> QED BY <1>1, <2>1, <2>2, <2>3
<1> HIDE DEF N
<1>3. i * N \in Nat /\ j * N \in Nat
  BY <1>1
<1>4. CASE i < j
  <2>1. i * N + N <= j * N
    BY <1>2, <1>4
  <2> QED BY <1>1, <1>3, <1>4, <2>1 DEF N
<1>5. CASE i = j
  BY <1>1, <1>3, <1>5 DEF N
<1>6. CASE j < i
  <2>1. j * N + N <= i * N
    BY <1>2, <1>6
  <2> QED BY <1>1, <1>3, <1>6, <2>1 DEF N
<1> QED BY <1>4, <1>5, <1>6

\* The places of a list can be put in order.
LEMMA OrderExists ==
    ASSUME NEW list, Broadcasts(list)
    PROVE  \E p \in Bijection(DOMAIN list, DOMAIN list) : InOrder(list, p)
<1> DEFINE n == Len(list)
           D == 1 .. n
           N == n + 1
           code == [k \in D |-> list[k].index * N + k]
           S == {code[k] : k \in D}
<1>1. n \in Nat /\ DOMAIN list = D /\ \A k \in D : list[k].index \in Nat
  <2>1. n \in Nat /\ DOMAIN list = D
    BY DEF Broadcasts
  <2>2. \A k \in DOMAIN list : list[k] \in Range(list)
    BY DEF Range
  <2> HIDE DEF D, n
  <2> QED BY <2>1, <2>2 DEF Broadcasts
<1>2. IsFiniteSet(D) /\ Cardinality(D) = n
  <2>1. 1 \in Int /\ n \in Int /\ (IF 1 > n THEN 0 ELSE n - 1 + 1) = n
    BY <1>1
  <2> HIDE DEF n
  <2> QED BY <2>1, FS_Interval
<1> HIDE DEF n
<1>3. \A k \in D : code[k] \in Nat
  <2> TAKE k \in D
  <2>1. list[k].index \in Nat /\ N \in Nat /\ k \in Nat
    BY <1>1
  <2>2. list[k].index * N \in Nat
    <3> HIDE DEF N
    <3> QED BY <2>1
  <2> QED BY <2>1, <2>2
<1>4. \A a, b \in D : code[a] < code[b] <=>
          list[a].index < list[b].index \/ (list[a].index = list[b].index /\ a < b)
  <2> TAKE a \in D, b \in D
  <2> DEFINE i == list[a].index
             j == list[b].index
  <2>1. i \in Nat /\ j \in Nat /\ code[a] = i * (n + 1) + a /\ code[b] = j * (n + 1) + b
    BY <1>1
  <2> HIDE DEF i, j, code
  <2>2. i * (n + 1) + a < j * (n + 1) + b <=> i < j \/ (i = j /\ a < b)
    BY <1>1, <2>1, CodeOrder
  <2>3. code[a] < code[b] <=> i < j \/ (i = j /\ a < b)
    BY <2>1, <2>2
  <2> QED BY <2>3 DEF i, j
<1>5. \A a, b \in D : code[a] = code[b] => a = b
  <2> TAKE a \in D, b \in D
  <2>1. a \in Nat /\ b \in Nat /\ list[a].index \in Nat /\ list[b].index \in Nat
        /\ code[a] \in Nat /\ code[b] \in Nat
    BY <1>1, <1>3
  <2> HIDE DEF code
  <2> QED BY <1>4, <2>1
<1> HIDE DEF code, D
<1>6. IsFiniteSet(S) /\ S \in SUBSET Nat /\ Cardinality(S) = n
  <2> DEFINE h == [k \in D |-> code[k]]
  <2>1. h \in Bijection(D, S)
    BY <1>5 DEF Bijection, Injection, Surjection, IsInjective
  <2> HIDE DEF h
  <2>2. S \in SUBSET Nat
    BY <1>3
  <2> HIDE DEF S
  <2>3. ExistsBijection(D, S)
    BY <2>1 DEF ExistsBijection
  <2> QED BY <1>2, <2>2, <2>3, FS_Bijection
<1>7. PICK q \in [1 .. n -> S] : \A i, j \in DOMAIN q : i < j => q[i] < q[j]
  <2> HIDE DEF S
  <2> QED BY <1>6, AscendingExists
<1>8. \A i \in D : \E k \in D : code[k] = q[i]
  BY DEF D
<1> DEFINE p == [i \in D |-> CHOOSE k \in D : code[k] = q[i]]
<1>9. \A i \in D : p[i] \in D /\ code[p[i]] = q[i]
  BY <1>8
<1>10. p \in [D -> D]
  BY <1>9
<1> HIDE DEF p, S
<1>11. \A i, j \in D : i < j => q[i] < q[j]
  BY <1>7 DEF D
<1>12. \A i, j \in D : p[i] = p[j] => i = j
  <2> TAKE i \in D, j \in D
  <2>1. q[i] \in Nat /\ q[j] \in Nat /\ i \in Nat /\ j \in Nat
    BY <1>3, <1>9 DEF D
  <2> QED BY <1>9, <1>11, <2>1
<1>13. p \in Injection(D, D)
  BY <1>10, <1>12 DEF Injection, IsInjective
<1>14. p \in Surjection(D, D)
  BY <1>2, <1>13, FS_Injection
<1>15. InOrder(list, p)
  <2> SUFFICES ASSUME NEW i \in D, NEW j \in D, i < j
               PROVE  \/ list[p[i]].index < list[p[j]].index
                      \/ list[p[i]].index = list[p[j]].index /\ p[i] < p[j]
    BY <1>1 DEF InOrder
  <2>1. code[p[i]] < code[p[j]]
    BY <1>9, <1>11
  <2> QED BY <1>4, <1>9, <2>1
<1> QED BY <1>1, <1>13, <1>14, <1>15 DEF Bijection

\* Sorting keeps what is in the list, and puts it in order.
LEMMA SortedList ==
    ASSUME NEW list, Broadcasts(list)
    PROVE  /\ Len(list) \in Nat
           /\ Sorted(list) \in [1 .. Len(list) -> Range(list)]
           /\ Range(Sorted(list)) = Range(list)
           /\ \A k \in 1 .. Len(list) : Sorted(list)[k].index \in Nat
           /\ \A i, j \in 1 .. Len(list) :
                i < j => Sorted(list)[i].index <= Sorted(list)[j].index
<1> DEFINE D == DOMAIN list
           s == Sorted(list)
<1>1. Len(list) \in Nat /\ D = 1 .. Len(list) /\ \A k \in D : list[k] \in Range(list)
  BY DEF Broadcasts, Range
<1>2. PICK p \in Bijection(D, D) : InOrder(list, p) /\ s = [k \in D |-> list[p[k]]]
  <2> DEFINE q == CHOOSE r \in Bijection(D, D) : InOrder(list, r)
  <2>1. q \in Bijection(D, D) /\ InOrder(list, q)
    BY OrderExists
  <2>2. s = [k \in D |-> list[q[k]]]
    BY Zenon DEF Sorted
  <2> HIDE DEF q, s
  <2> QED BY <2>1, <2>2
<1>3. (\A k \in D : p[k] \in D) /\ (\A k \in D : \E l \in D : p[l] = k)
  BY <1>2 DEF Bijection, Injection, Surjection
<1>4. DOMAIN s = D /\ \A k \in D : s[k] = list[p[k]]
  BY <1>2
<1> HIDE DEF s
<1>5. Range(s) = Range(list)
  BY <1>3, <1>4 DEF Range
<1>6. \A k \in D : s[k] \in Range(list) /\ s[k].index \in Nat
  BY <1>1, <1>3, <1>4 DEF Broadcasts
<1>7. s \in [D -> Range(list)]
  BY <1>2, <1>4, <1>6
<1>8. \A i, j \in D : i < j => s[i].index <= s[j].index
  <2> SUFFICES ASSUME NEW i \in D, NEW j \in D, i < j PROVE s[i].index <= s[j].index
    OBVIOUS
  <2>1. s[i].index < s[j].index \/ s[i].index = s[j].index
    BY <1>2, <1>4 DEF InOrder
  <2>2. s[i].index \in Nat /\ s[j].index \in Nat
    BY <1>6
  <2> QED BY <2>1, <2>2
<1> HIDE DEF D
<1>9. s \in [1 .. Len(list) -> Range(list)]
  BY <1>1, <1>7, Zenon
<1>10. /\ \A k \in 1 .. Len(list) : s[k].index \in Nat
       /\ \A i, j \in 1 .. Len(list) : i < j => s[i].index <= s[j].index
  BY <1>1, <1>6, <1>8, Zenon
<1> QED BY <1>1, <1>5, <1>9, <1>10 DEF s

\* What makes a roster: no two entries of it have one index.
Increasing(s) == \A i, j \in DOMAIN s : i < j => s[i].index < s[j].index

\* A list that is not refused is strictly in order when it is sorted, its first
\* index above zero.
LEMMA AcceptedAscends ==
    ASSUME NEW list, Broadcasts(list), ~RosterRefused(list)
    PROVE  Increasing(Sorted(list))
<1> DEFINE n == Len(list)
           s == Sorted(list)
<1>1. /\ n \in Nat /\ DOMAIN s = 1 .. n /\ \A k \in 1 .. n : s[k].index \in Nat
      /\ \A i, j \in 1 .. n : i < j => s[i].index <= s[j].index
  BY SortedList
<1>2. \A k \in 1 .. n - 1 : s[k].index # s[k + 1].index
  BY DEF RosterRefused
<1> HIDE DEF n, s
<1>3. ASSUME NEW i \in 1 .. n, NEW j \in 1 .. n, i < j PROVE s[i].index < s[j].index
  <2>1. i \in 1 .. n - 1 /\ i + 1 \in 1 .. n /\ i < i + 1 /\ (i + 1 = j \/ i + 1 < j)
    BY <1>1, <1>3
  <2>2. s[i].index <= s[i + 1].index /\ s[i].index # s[i + 1].index
    BY <1>1, <1>2, <2>1
  <2>3. s[i + 1].index <= s[j].index
    BY <1>1, <2>1
  <2>4. s[i].index \in Nat /\ s[j].index \in Nat /\ s[i + 1].index \in Nat
    BY <1>1, <2>1
  <2> QED BY <2>2, <2>3, <2>4
<1> QED BY <1>1, <1>3 DEF Increasing, s

\* Of two lists in order with the same entries each begins with the other.
LEMMA SameBeginning ==
    ASSUME NEW n \in Nat, NEW m \in Nat, NEW s, NEW t, DOMAIN s = 1 .. n, DOMAIN t = 1 .. m,
           Range(s) = Range(t), \A e \in Range(s) : e.index \in Nat, Increasing(s), Increasing(t)
    PROVE  \A k \in 1 .. n : k \in 1 .. m /\ s[k] = t[k]
<1> DEFINE U == {k \in 1 .. n : ~(k \in 1 .. m /\ s[k] = t[k])}
<1> SUFFICES ASSUME U # {} PROVE FALSE
  OBVIOUS
<1>1. PICK k \in U : \A l \in U : k <= l
  <2>1. U \in SUBSET Nat
    OBVIOUS
  <2> HIDE DEF U
  <2> QED BY <2>1, LeastOf
<1>2. k \in 1 .. n /\ ~(k \in 1 .. m /\ s[k] = t[k])
  OBVIOUS
<1>3. \A l \in 1 .. n : l < k => l \in 1 .. m /\ s[l] = t[l]
  <2> TAKE l \in 1 .. n
  <2> HAVE l < k
  <2>1. l \notin U
    <3> HIDE DEF U
    <3> QED BY <1>1, <1>2
  <2> QED BY <2>1
<1> HIDE DEF U
<1>4. /\ \A i \in 1 .. n : s[i].index \in Nat /\ \E j \in 1 .. m : t[j] = s[i]
      /\ \A j \in 1 .. m : t[j].index \in Nat /\ \E i \in 1 .. n : s[i] = t[j]
  BY DEF Range
<1>5. PICK l \in 1 .. m : t[l] = s[k]
  BY <1>2, <1>4
<1>6. k <= l
  <2> SUFFICES ASSUME l < k PROVE FALSE
    BY <1>2
  <2>1. l \in 1 .. n /\ s[l] = t[l]
    BY <1>2, <1>3
  <2>2. s[l].index < s[k].index
    BY <1>2, <2>1 DEF Increasing
  <2>3. s[l].index \in Nat /\ s[k].index \in Nat /\ s[l].index = s[k].index
    <3>1. t[l] = s[l] /\ t[l] = s[k]
      BY <1>5, <2>1
    <3> QED BY <1>2, <1>4, <2>1, <3>1
  <2> QED BY <2>2, <2>3
<1>7. k \in 1 .. m /\ k < l
  <2>1. k \in 1 .. m
    BY <1>2, <1>6
  <2> QED BY <1>2, <1>5, <1>6, <2>1
<1>8. PICK j \in 1 .. n : s[j] = t[k]
  BY <1>4, <1>7
<1>9. k <= j
  <2> SUFFICES ASSUME j < k PROVE FALSE
    BY <1>2
  <2>1. j \in 1 .. m /\ s[j] = t[j]
    BY <1>3
  <2>2. t[j].index < t[k].index
    BY <1>7, <2>1 DEF Increasing
  <2>3. t[j].index \in Nat /\ t[k].index \in Nat /\ t[j].index = t[k].index
    <3>1. t[j] = t[k]
      BY <1>8, <2>1
    <3> QED BY <1>4, <1>7, <2>1, <3>1
  <2> QED BY <2>2, <2>3
<1>10. t[k].index < t[l].index
  BY <1>7 DEF Increasing
<1>11. s[k].index <= s[j].index
  <2>1. k = j \/ k < j
    BY <1>2, <1>9
  <2>2. k < j => s[k].index < s[j].index
    BY <1>2, <1>8 DEF Increasing
  <2>3. s[k].index \in Nat /\ s[j].index \in Nat
    BY <1>2, <1>4, <1>8
  <2>4. k = j => s[k].index = s[j].index
    OBVIOUS
  <2> QED BY <2>1, <2>2, <2>3, <2>4
<1>12. t[l].index = s[k].index /\ s[j].index = t[k].index
  BY <1>5, <1>8
<1>13. t[k].index \in Nat /\ t[l].index \in Nat /\ s[k].index \in Nat /\ s[j].index \in Nat
  BY <1>2, <1>4, <1>7, <1>8
<1> QED BY <1>10, <1>11, <1>12, <1>13

\* Rosters of the same broadcasts are the same, whatever order they came in.
LEMMA SameRoster ==
    ASSUME NEW list, Broadcasts(list), ~RosterRefused(list),
           NEW other, Broadcasts(other), ~RosterRefused(other),
           Range(Sorted(list)) = Range(Sorted(other))
    PROVE  Sorted(list) = Sorted(other)
<1> DEFINE s == Sorted(list)
           t == Sorted(other)
           n == Len(list)
           m == Len(other)
<1>1. /\ n \in Nat /\ DOMAIN s = 1 .. n /\ s = [k \in 1 .. n |-> s[k]]
      /\ m \in Nat /\ DOMAIN t = 1 .. m /\ t = [k \in 1 .. m |-> t[k]]
      /\ \A e \in Range(s) : e.index \in Nat
  BY SortedList DEF Broadcasts
<1>2. Increasing(s) /\ Increasing(t) /\ Range(s) = Range(t)
  BY AcceptedAscends
<1> HIDE DEF s, t, n, m
<1>3. \A k \in 1 .. n : k \in 1 .. m /\ s[k] = t[k]
  BY <1>1, <1>2, SameBeginning
<1>4. \A k \in 1 .. m : k \in 1 .. n /\ s[k] = t[k]
  <2>1. Range(t) = Range(s) /\ \A e \in Range(t) : e.index \in Nat
    BY <1>1, <1>2
  <2>2. \A k \in 1 .. m : k \in 1 .. n /\ t[k] = s[k]
    BY <1>1, <1>2, <2>1, SameBeginning
  <2> QED BY <2>2
<1>5. 1 .. n = 1 .. m
  BY <1>3, <1>4
<1>6. s = t
  BY <1>1, <1>3, <1>5
<1> QED BY <1>6 DEF s, t

-----------------------------------------------------------------------------
(* Keys *)

\* Every roster lists honest participants under their own keys.
RostersSound ==
    \A p \in Node : roster[p] # None =>
        /\ roster[p].session = Session
        /\ \A e \in Range(roster[p].participants) : e.index \in Node => e.key = Key[e.index]

\* What is on the wire under an honest key and this ceremony's prologue, its
\* owner has sealed.
WireFromDealers ==
    \A ct \in wire, d \in Node :
        /\ ct.from = Key[d]
        /\ ct.prologue.session = Session
        /\ ct.prologue.round = Round
        => d \in dealt /\ \E i : ct.plaintext = Plaintext(Now, d, i)

Typed ==
    /\ roster = [p \in Node |-> roster[p]]
    /\ taken = [p \in Node |-> taken[p]]
    /\ agreed \in [Node -> SUBSET AgreedSet]
    /\ accused \in [Node -> SUBSET Faulty]
    /\ dealt \subseteq Node

ChannelInv == Typed /\ RostersSound /\ WireFromDealers

-----------------------------------------------------------------------------

\* An agreed set has one commitment of a dealer at most.
LEMMA OneCommitment ==
    ASSUME NEW c \in AgreedSet, NEW e \in AgreedSet, c.dealer = e.dealer
    PROVE  c = e
  BY NodeAssumption DEF AgreedSet, Committed

\* An honest dealer's is the one it drew for this ceremony.
LEMMA HonestCommitment ==
    ASSUME NEW c \in AgreedSet, c.dealer \in Node
    PROVE  c = Committed(Now, c.dealer)
  BY NodeAssumption DEF AgreedSet, Committed

\* A plaintext that is looked at opened under a key that the recipient's roster
\* has for the dealer on the envelope, and names the envelope's indices.
LEMMA DecryptedOk ==
    ASSUME NEW p, NEW sp, Decrypted(p, sp) = "Ok"
    PROVE  /\ sp.recipient = p
           /\ \E e \in Range(roster[p].participants) :
                 /\ e.index = sp.dealer
                 /\ NoiseOpens(p, e.key, Prologue(roster[p], Round), sp.ciphertext)
           /\ sp.ciphertext.plaintext.dealer = sp.dealer
           /\ sp.ciphertext.plaintext.player = sp.recipient
           /\ sp.ciphertext.plaintext.value \in Field
  BY DEF Decrypted, PublicKey, IndicesMatch

\* A package that opens under an honest dealer's index is the one that this
\* dealer sealed to this recipient in this ceremony.
LEMMA Authentic ==
    ASSUME ChannelInv, NEW p \in Node, roster[p] # None, NEW sp \in Package,
           sp.dealer \in Node, Decrypted(p, sp) = "Ok"
    PROVE  /\ sp.dealer \in dealt
           /\ sp.ciphertext.plaintext = Plaintext(Now, sp.dealer, p)
  <1> DEFINE ct == sp.ciphertext
             d  == sp.dealer
  <1>1. ct \in wire
    BY DEF Package
  <1>2. PICK e \in Range(roster[p].participants) :
            e.index = d /\ NoiseOpens(p, e.key, Prologue(roster[p], Round), ct)
    BY DecryptedOk
  <1>3. ct.from = Key[d]
    BY <1>2 DEF NoiseOpens, ChannelInv, RostersSound
  <1>4. ct.prologue.session = Session /\ ct.prologue.round = Round
    BY <1>2 DEF NoiseOpens, Prologue, ChannelInv, RostersSound
  <1>5. d \in dealt /\ \E i : ct.plaintext = Plaintext(Now, d, i)
    BY <1>1, <1>3, <1>4 DEF ChannelInv, WireFromDealers
  <1>6. ct.plaintext.player = p
    BY DecryptedOk
  <1>7. PICK i : ct.plaintext = Plaintext(Now, d, i)
    BY <1>5
  <1>8. i = p
    BY <1>6, <1>7 DEF Plaintext
  <1> QED BY <1>5, <1>7, <1>8

\* The commitment of the dealer's index in a participant's agreed set.
LEMMA InAgreedSet ==
    ASSUME ChannelInv, NEW p \in Node, NEW d, NEW c \in CommitmentOf(p, d)
    PROVE  c \in AgreedSet /\ c.dealer = d
  BY DEF ChannelInv, Typed, CommitmentOf

\* Evidence is against faulty dealers only.
LEMMA BadIsFaulty ==
    ASSUME ChannelInv, NEW p \in Node, roster[p] # None, NEW sp \in Package,
           OpenWithEvidence(p, sp) = "BadSubShare"
    PROVE  sp.dealer \in Faulty
  <1>1. /\ CommitmentOf(p, sp.dealer) # {}
        /\ Decrypted(p, sp) = "Ok"
        /\ \A c \in CommitmentOf(p, sp.dealer) :
               ~ Feldman(c, p, sp.ciphertext.plaintext.value)
    BY DEF OpenWithEvidence, Decrypted
  <1>2. SUFFICES ASSUME sp.dealer \in Node PROVE FALSE
    BY DEF Package, Index
  <1>3. sp.ciphertext.plaintext = Plaintext(Now, sp.dealer, p)
    BY <1>1, <1>2, Authentic
  <1>4. PICK c \in CommitmentOf(p, sp.dealer) : TRUE
    BY <1>1
  <1>5. c = Committed(Now, sp.dealer)
    BY <1>2, InAgreedSet, HonestCommitment
  <1>6. p # 0
    BY NodeAssumption
  <1> QED BY <1>1, <1>3, <1>5, <1>6 DEF Feldman, Plaintext, Committed

-----------------------------------------------------------------------------
(* The invariant *)

\* The initial states satisfy the invariant: the handles are whole, and what is on
\* the wire is of earlier ceremonies or written by faulty participants.
LEMMA InitChannelInv == Init => ChannelInv
  <1> SUFFICES ASSUME Init PROVE ChannelInv
    OBVIOUS
  <1>1. Typed
    BY DEF Init, Typed
  <1>2. RostersSound
    BY DEF Init, RostersSound
  <1>3. WireFromDealers
    <2> SUFFICES ASSUME NEW ct \in Stale \cup FaultySealed, NEW d \in Node,
                        ct.from = Key[d], ct.prologue.session = Session,
                        ct.prologue.round = Round
                 PROVE  FALSE
      BY DEF Init, WireFromDealers
    <2>1. CASE ct \in Stale
      <3>1. PICK c \in Past : ct.prologue.session = c.session /\ ct.prologue.round = c.round
        BY <2>1 DEF Stale, SealedRound2, NoiseSeal, Prologue, NewRoster
      <3> QED BY <3>1, PastAssumption
    <2>2. CASE ct \in FaultySealed
      <3>1. PICK f \in Faulty : ct.from = Key[f]
        BY <2>2 DEF FaultySealed, NoiseSeal
      <3> QED BY <3>1, KeyAssumption, NodeAssumption DEF Index
    <2> QED BY <2>1, <2>2
  <1> QED BY <1>1, <1>2, <1>3 DEF ChannelInv

\* Every step keeps it: a roster is built from broadcasts that carry honest keys, a
\* dealer seals with its own key, and an opener accuses on evidence only.
LEMMA NextChannelInv == ChannelInv /\ [Next]_vars => ChannelInv'
  <1> SUFFICES ASSUME ChannelInv, [Next]_vars PROVE ChannelInv'
    OBVIOUS
  <1> USE DEF ChannelInv
  <1>1. CASE UNCHANGED vars
    BY <1>1 DEF vars, Typed, RostersSound, WireFromDealers
  <1>2. ASSUME NEW p \in Node, NEW list \in Arrivals, BuildRoster(p, list)
        PROVE  ChannelInv'
    <2>1. Typed'
      BY <1>2 DEF BuildRoster, Typed
    <2>2. WireFromDealers'
      BY <1>2 DEF BuildRoster, WireFromDealers
    <2>3. RostersSound'
      <3> SUFFICES ASSUME NEW q \in Node, roster'[q] # None
                   PROVE  /\ roster'[q].session = Session
                          /\ \A e \in Range(roster'[q].participants) :
                                 e.index \in Node => e.key = Key[e.index]
        BY DEF RostersSound
      <3>1. CASE q # p
        BY <1>2, <3>1 DEF BuildRoster, RostersSound, Typed
      <3>2. CASE q = p
        <4>1. roster'[q] = NewRoster(list, Session)
          BY <1>2, <3>2 DEF BuildRoster, Typed
        <4>2. roster'[q].session = Session
          BY <4>1 DEF NewRoster
        <4>3. Range(Sorted(list)) = Range(list)
          BY SortedList, ArrivalsAssumption DEF Broadcasts
        <4>4. roster'[q].participants = Sorted(list)
          BY <4>1 DEF NewRoster
        <4> QED BY <4>2, <4>3, <4>4, ArrivalsAssumption
      <3> QED BY <3>1, <3>2
    <2> QED BY <2>1, <2>2, <2>3
  <1>3. ASSUME NEW p \in Node, SealRound2(p)
        PROVE  ChannelInv'
    <2>1. Typed'
      BY <1>3 DEF SealRound2, Typed
    <2>2. RostersSound'
      BY <1>3 DEF SealRound2, RostersSound
    <2>3. WireFromDealers'
      <3> SUFFICES ASSUME NEW ct \in wire', NEW d \in Node, ct.from = Key[d],
                          ct.prologue.session = Session, ct.prologue.round = Round
                   PROVE  d \in dealt' /\ \E i : ct.plaintext = Plaintext(Now, d, i)
        BY DEF WireFromDealers
      <3>1. CASE ct \in wire
        BY <1>3, <3>1 DEF SealRound2, WireFromDealers
      <3>2. CASE ct \in SealedRound2(Now, p, roster[p])
        <4>1. PICK i : ct.from = Key[p] /\ ct.plaintext = Plaintext(Now, p, i)
          BY <3>2 DEF SealedRound2, NoiseSeal
        <4>2. d = p
          BY <4>1, KeyAssumption DEF Index
        <4> QED BY <1>3, <4>1, <4>2 DEF SealRound2
      <3> QED BY <1>3, <3>1, <3>2 DEF SealRound2
    <2> QED BY <2>1, <2>2, <2>3
  <1>4. ASSUME NEW p \in Node, NEW sp \in Package, Open(p, sp)
        PROVE  ChannelInv'
    <2>1. Typed'
      <3>1. accused' \in [Node -> SUBSET Faulty]
        BY <1>4, BadIsFaulty DEF Open, Typed
      <3> QED BY <1>4, <3>1 DEF Open, Typed
    <2>2. RostersSound' /\ WireFromDealers'
      BY <1>4 DEF Open, RostersSound, WireFromDealers
    <2> QED BY <2>1, <2>2
  <1>5. ASSUME NEW p \in Node, NEW f \in Faulty, Drop(p, f)
        PROVE  ChannelInv'
    BY <1>5 DEF Drop, Typed, RostersSound, WireFromDealers
  <1> QED BY <1>1, <1>2, <1>3, <1>4, <1>5 DEF Next

\* So it holds in every state the channel reaches.
LEMMA Invariance == Spec => []ChannelInv
  BY InitChannelInv, NextChannelInv, PTL DEF Spec

-----------------------------------------------------------------------------
(* What follows from it *)

\* No honest dealer is ever accused, for any faulty set, keys, past ceremonies
\* and faulty plaintexts: the evidence that open_subshare_agreed_with_evidence
\* gives is against those that sealed a bad value themselves.
THEOREM NoHonestAccused == Spec => []HonestNotAccused
  <1>1. ChannelInv => HonestNotAccused
    BY DEF ChannelInv, Typed, HonestNotAccused
  <1> QED BY <1>1, Invariance, PTL

\* open_subshare accepts in an honest dealer's name only the pair of value and
\* commitment that the dealer made, wherever the caller has the commitment from.
THEOREM PairsKept == Spec => []PairNotSplit
  <1>1. ChannelInv => PairNotSplit
    <2> SUFFICES ASSUME ChannelInv, NEW p \in Node, roster[p] # None,
                        NEW sp \in Package, sp.dealer \in Node,
                        Decrypted(p, sp) = "Ok",
                        NEW c, OpenSubShare(p, sp, c) = "Ok"
                 PROVE  c = Committed(Now, sp.dealer)
      BY DEF PairNotSplit
    <2>1. sp.ciphertext.plaintext.digest = c
      BY DEF OpenSubShare
    <2>2. sp.ciphertext.plaintext = Plaintext(Now, sp.dealer, p)
      BY Authentic
    <2> QED BY <2>1, <2>2 DEF Plaintext
  <1> QED BY <1>1, Invariance, PTL

\* open_subshare with the agreed commitment and open_subshare_agreed give one
\* answer on every package, although they check in different orders.
THEOREM OneAnswer == Spec => []OpenersAgree
  <1>1. ChannelInv => OpenersAgree
    <2> SUFFICES ASSUME ChannelInv, NEW p \in Node, roster[p] # None,
                        NEW sp \in Package, NEW c \in CommitmentOf(p, sp.dealer)
                 PROVE  IntoError(OpenWithEvidence(p, sp)) = OpenSubShare(p, sp, c)
      BY DEF OpenersAgree
    <2> DEFINE mine == CommitmentOf(p, sp.dealer)
               pt == sp.ciphertext.plaintext
    <2>1. mine = {c}
      BY InAgreedSet, OneCommitment
    <2>2. CASE Decrypted(p, sp) # "Ok"
      <3>1. Decrypted(p, sp) # "BadSubShare"
        BY DEF Decrypted
      <3>2. OpenWithEvidence(p, sp) = Decrypted(p, sp)
        BY <2>1, <2>2 DEF OpenWithEvidence
      <3>3. OpenSubShare(p, sp, c) = Decrypted(p, sp)
        BY <2>2 DEF OpenSubShare
      <3> QED BY <3>1, <3>2, <3>3 DEF IntoError
    <2>3. CASE Decrypted(p, sp) = "Ok"
      <3>1. pt.dealer = c.dealer
        BY <2>3, InAgreedSet, DecryptedOk
      <3>2. OpenWithEvidence(p, sp) =
                IF ~ Feldman(c, p, pt.value) THEN "BadSubShare"
                ELSE IF pt.digest # c THEN "InvalidSubShare" ELSE "Ok"
        BY <2>1, <2>3 DEF OpenWithEvidence
      <3>3. OpenSubShare(p, sp, c) =
                IF pt.digest # c THEN "InvalidSubShare"
                ELSE IF ~ Feldman(c, p, pt.value) THEN "InvalidSubShare" ELSE "Ok"
        BY <2>3, <3>1 DEF OpenSubShare
      <3> QED BY <3>2, <3>3 DEF IntoError
    <2> QED BY <2>2, <2>3
  <1> QED BY <1>1, Invariance, PTL

-----------------------------------------------------------------------------
(* Who has heard the same broadcasts opens everything honest *)

\* A roster is built of broadcasts that were accepted.
Built(r) ==
    \E list \in Arrivals : ~ RosterRefused(list) /\ r = NewRoster(list, Session)

\* What an honest dealer sealed stays on the wire, nobody drops an honest dealer,
\* and only typed values are taken.
OpenInv ==
    /\ \A p \in Node : roster[p] # None => Built(roster[p])
    /\ \A p, d \in Node : Committed(Now, d) \in agreed[p]
    /\ \A d \in dealt :
          /\ roster[d] # None /\ PublicKey(roster[d], d) # {}
          /\ SealedRound2(Now, d, roster[d]) \subseteq wire
    /\ taken \in [Node -> SUBSET [dealer : Index, value : Field]]

\* It holds of the initial states, in which nothing is built, dealt or taken.
LEMMA InitOpenInv == Init => OpenInv
  BY DEF Init, OpenInv, AgreedSet

\* Every step keeps it: a roster is built once, and Drop is of the faulty.
LEMMA NextOpenInv == ChannelInv /\ OpenInv /\ [Next]_vars => OpenInv'
  <1> SUFFICES ASSUME ChannelInv, OpenInv, [Next]_vars PROVE OpenInv'
    OBVIOUS
  <1>0. /\ roster = [p \in Node |-> roster[p]] /\ dealt \subseteq Node
        /\ agreed \in [Node -> SUBSET AgreedSet]
    BY DEF ChannelInv, Typed
  <1>1. CASE UNCHANGED vars
    BY <1>1 DEF vars, OpenInv
  <1>2. ASSUME NEW p \in Node, NEW list \in Arrivals, BuildRoster(p, list)
        PROVE  OpenInv'
    <2> DEFINE r == NewRoster(list, Session)
    <2>1. /\ roster[p] = None /\ Built(r) /\ roster' = [roster EXCEPT ![p] = r]
          /\ UNCHANGED <<agreed, wire, dealt, taken>>
      BY <1>2 DEF BuildRoster, Built
    <2> HIDE DEF r
    <2>2. \A q \in Node : roster'[q] = IF q = p THEN r ELSE roster[q]
      BY <1>0, <2>1
    <2>3. \A d \in dealt : d # p /\ roster'[d] = roster[d]
      BY <1>0, <2>1, <2>2 DEF OpenInv
    <2>4. \A q \in Node : roster'[q] # None => Built(roster'[q])
      BY <2>1, <2>2 DEF OpenInv
    <2> QED BY <2>1, <2>3, <2>4 DEF OpenInv
  <1>3. ASSUME NEW p \in Node, SealRound2(p)
        PROVE  OpenInv'
    BY <1>3 DEF SealRound2, OpenInv
  <1>4. ASSUME NEW p \in Node, NEW sp \in Package, Open(p, sp)
        PROVE  OpenInv'
    <2>1. UNCHANGED <<roster, agreed, wire, dealt>>
      BY <1>4 DEF Open
    <2>2. taken' \in [Node -> SUBSET [dealer : Index, value : Field]]
      <3>1. CASE OpenWithEvidence(p, sp) = "Ok"
        <4>1. Decrypted(p, sp) = "Ok"
          BY <3>1 DEF OpenWithEvidence
        <4>2. sp.ciphertext.plaintext.value \in Field /\ sp.dealer \in Index
          BY <4>1, DecryptedOk DEF Package
        <4> QED BY <1>4, <3>1, <4>2 DEF Open, OpenInv
      <3>2. CASE OpenWithEvidence(p, sp) # "Ok"
        BY <1>4, <3>2 DEF Open, OpenInv
      <3> QED BY <3>1, <3>2
    <2> QED BY <2>1, <2>2 DEF OpenInv
  <1>5. ASSUME NEW p \in Node, NEW f \in Faulty, Drop(p, f)
        PROVE  OpenInv'
    <2>1. /\ agreed' = [agreed EXCEPT ![p] = @ \ CommitmentOf(p, f)]
          /\ UNCHANGED <<roster, wire, dealt, taken>>
      BY <1>5 DEF Drop
    <2>2. \A q, d \in Node : Committed(Now, d) \in agreed'[q]
      <3> TAKE q \in Node, d \in Node
      <3>1. Committed(Now, d) \in agreed[q] /\ Committed(Now, d).dealer # f
        BY NodeAssumption DEF OpenInv, Committed
      <3> QED BY <1>0, <2>1, <3>1 DEF CommitmentOf
    <2> QED BY <2>1, <2>2 DEF OpenInv
  <1> QED BY <1>1, <1>2, <1>3, <1>4, <1>5 DEF Next

\* The two invariants together
LEMMA OpenInvariance == Spec => [](ChannelInv /\ OpenInv)
  BY InitOpenInv, NextOpenInv, Invariance, PTL DEF Spec

\* Every variable keeps its type, and a roster is in order of index whatever the
\* order in which the broadcasts arrived.
THEOREM TypeInvariant == Spec => []TypeOK
  <1>1. ChannelInv /\ OpenInv => TypeOK
    <2> SUFFICES ASSUME ChannelInv, OpenInv PROVE TypeOK
      OBVIOUS
    <2>1. ASSUME NEW p \in Node, roster[p] # None
          PROVE  /\ roster[p].session = Session
                 /\ Increasing(roster[p].participants)
      <3>1. PICK list \in Arrivals : ~ RosterRefused(list) /\ roster[p] = NewRoster(list, Session)
        BY <2>1 DEF OpenInv, Built
      <3>2. Increasing(Sorted(list))
        BY <3>1, AcceptedAscends, ArrivalsAssumption DEF Broadcasts
      <3> QED BY <3>1, <3>2 DEF NewRoster
    <2>2. /\ agreed \in [Node -> SUBSET AgreedSet] /\ dealt \subseteq Node
          /\ accused \in [Node -> SUBSET Index]
      BY DEF ChannelInv, Typed, Index
    <2>3. taken \in [Node -> SUBSET [dealer : Index, value : Field]]
      BY DEF OpenInv
    <2> QED BY <2>1, <2>2, <2>3, Zenon DEF TypeOK, Increasing
  <1> QED BY <1>1, OpenInvariance, PTL

\* A package that an honest dealer sealed to an honest participant opens there, if
\* the two have the same roster and it lists the participant.
LEMMA HonestPackageOpens ==
    ASSUME ChannelInv, OpenInv, NEW d \in dealt, NEW p \in Node,
           roster[p] = roster[d], PublicKey(roster[p], p) # {}
    PROVE  \E ct \in wire :
             OpenWithEvidence(p, [dealer |-> d, recipient |-> p, ciphertext |-> ct]) = "Ok"
  <1> DEFINE r == roster[d]
             pt == Plaintext(Now, d, p)
             ct == NoiseSeal(Key[d], Key[p], Prologue(r, Round), pt)
             sp == [dealer |-> d, recipient |-> p, ciphertext |-> ct]
  <1>1. /\ d \in Node /\ r # None /\ PublicKey(r, d) # {}
        /\ SealedRound2(Now, d, r) \subseteq wire
    BY DEF ChannelInv, Typed, OpenInv
  <1>2. \A i \in Node : PublicKey(r, i) \subseteq {Key[i]}
    BY <1>1 DEF ChannelInv, RostersSound, PublicKey
  <1>3. PublicKey(r, d) = {Key[d]}
    BY <1>1, <1>2
  <1>4. PICK e \in Range(r.participants) : e.index = p /\ e.key = Key[p]
    <2>1. PICK e \in Range(r.participants) : e.index = p
      BY DEF PublicKey
    <2>2. e.key \in PublicKey(r, p)
      BY <2>1 DEF PublicKey
    <2> QED BY <1>2, <2>1, <2>2
  <1>5. ct \in wire
    <2>1. Now.round = Round
      BY DEF Now
    <2>2. ct \in SealedRound2(Now, d, r)
      BY <1>4, <2>1 DEF SealedRound2
    <2> QED BY <1>1, <2>2
  <1>6. /\ pt.dealer = d /\ pt.player = p /\ pt.value = Evaluate(Polynomial[Now][d], p)
        /\ pt.digest = Committed(Now, d) /\ pt.length = 72
    BY DEF Plaintext
  <1>7. d # 0 /\ p # 0 /\ p \in Field
    BY <1>1, NodeAssumption, FieldAssumption DEF Field
  <1>8. pt.value \in Field
    BY <1>1, <1>6, <1>7, PolynomialAssumption, EvaluateInField
  <1>9. /\ sp.dealer = d /\ sp.recipient = p /\ sp.ciphertext = ct /\ ct.plaintext = pt
        /\ NoiseOpens(p, Key[d], Prologue(r, Round), ct)
    BY DEF NoiseSeal, NoiseOpens
  <1> HIDE DEF sp, ct, pt, r
  <1>10. Decrypted(p, sp) = "Ok"
    BY <1>3, <1>6, <1>7, <1>8, <1>9 DEF Decrypted, IndicesMatch, r
  <1>11. Committed(Now, d) \in CommitmentOf(p, d)
    BY <1>1 DEF OpenInv, CommitmentOf, Committed
  <1>12. Feldman(Committed(Now, d), p, pt.value)
    BY <1>6, <1>7 DEF Feldman, Committed
  <1>13. OpenWithEvidence(p, sp) = "Ok"
    BY <1>6, <1>9, <1>10, <1>11, <1>12 DEF OpenWithEvidence
  <1> QED BY <1>5, <1>13 DEF sp

\* Participants that have heard the same broadcasts open each other's packages,
\* whatever order they heard them in and whatever the network does: their rosters
\* are the same, and so are the transcripts that they seal under.
THEOREM SameBroadcasts == Spec => []SameBroadcastsOpen
  <1>1. ChannelInv /\ OpenInv => SameBroadcastsOpen
    <2> SUFFICES ASSUME ChannelInv, OpenInv, NEW d \in dealt, NEW p \in Node,
                        roster[p] # None, PublicKey(roster[p], p) # {},
                        Range(roster[p].participants) = Range(roster[d].participants)
                 PROVE  \E ct \in wire :
                          OpenWithEvidence(p, [dealer |-> d, recipient |-> p, ciphertext |-> ct]) = "Ok"
      BY DEF SameBroadcastsOpen
    <2>1. d \in Node /\ roster[d] # None
      BY DEF ChannelInv, Typed, OpenInv
    <2>2. PICK list \in Arrivals : ~ RosterRefused(list) /\ roster[p] = NewRoster(list, Session)
      BY DEF OpenInv, Built
    <2>3. PICK other \in Arrivals : ~ RosterRefused(other) /\ roster[d] = NewRoster(other, Session)
      BY <2>1 DEF OpenInv, Built
    <2>4. Broadcasts(list) /\ Broadcasts(other)
      BY ArrivalsAssumption DEF Broadcasts
    <2>5. Range(Sorted(list)) = Range(Sorted(other))
      BY <2>2, <2>3 DEF NewRoster
    <2>6. Sorted(list) = Sorted(other)
      BY <2>2, <2>3, <2>4, <2>5, SameRoster
    <2>7. roster[p] = roster[d]
      BY <2>2, <2>3, <2>6 DEF NewRoster
    <2> QED BY <2>7, HonestPackageOpens
  <1> QED BY <1>1, OpenInvariance, PTL

-----------------------------------------------------------------------------
(* The channel implements Delivery. *)

\* Delivery's constants, as Promise has them
Shares == [d \in Index |-> [p \in Node |->
              CHOOSE v \in Field : \A c \in AgreedSet : c.dealer = d => Feldman(c, p, v)]]

\* What is accepted is the value of the agreed commitment, and from an honest
\* dealer only once it has dealt.
LEMMA AcceptedIsDealt ==
    ASSUME ChannelInv, NEW p \in Node, roster[p] # None, NEW sp \in Package,
           OpenWithEvidence(p, sp) = "Ok"
    PROVE  /\ sp.dealer \in {c.dealer : c \in AgreedSet}
           /\ sp.dealer \in Node => sp.dealer \in dealt
           /\ sp.ciphertext.plaintext.value = Shares[sp.dealer][p]
  <1> DEFINE d == sp.dealer
             v == sp.ciphertext.plaintext.value
  <1>1. /\ CommitmentOf(p, d) # {}
        /\ Decrypted(p, sp) = "Ok"
        /\ \E c \in CommitmentOf(p, d) : Feldman(c, p, v)
    BY DEF OpenWithEvidence
  <1>2. PICK c \in CommitmentOf(p, d) : Feldman(c, p, v)
    BY <1>1
  <1>3. c \in AgreedSet /\ c.dealer = d
    BY InAgreedSet
  <1>4. d \in Node => d \in dealt
    BY <1>1, Authentic
  <1>5. v \in Field
    BY <1>1, DecryptedOk
  <1>6. \A w \in Field : (\A e \in AgreedSet : e.dealer = d => Feldman(e, p, w)) <=> w = v
    <2> TAKE w \in Field
    <2>1. ASSUME \A e \in AgreedSet : e.dealer = d => Feldman(e, p, w)
          PROVE  w = v
      BY <1>2, <1>3, <2>1 DEF Feldman
    <2>2. ASSUME w = v, NEW e \in AgreedSet, e.dealer = d
          PROVE  Feldman(e, p, w)
      BY <1>2, <1>3, <2>2, OneCommitment
    <2> QED BY <2>1, <2>2
  <1>7. v = CHOOSE w \in Field : \A e \in AgreedSet : e.dealer = d => Feldman(e, p, w)
    BY <1>5, <1>6
  <1>8. d \in Index
    BY DEF Package
  <1> QED BY <1>3, <1>4, <1>7, <1>8 DEF Shares

\* Whatever the network does with packages, a recipient takes from an honest
\* dealer only what it dealt to it, and from a faulty one only the value of the
\* agreed commitment.
THEOREM ChannelDelivers == Spec => ImplementsDelivery
  <1> DEFINE Vals == <<dealt, taken>>
  <1>1. Init => Promise!Init
    BY DEF Init, Promise!Init
  <1>2. ChannelInv /\ [Next]_vars => [Promise!Next]_Vals
    <2> SUFFICES ASSUME ChannelInv, [Next]_vars
                 PROVE  Promise!Next \/ UNCHANGED Vals
      OBVIOUS
    <2>1. CASE UNCHANGED vars
      BY <2>1 DEF vars
    <2>2. ASSUME NEW p \in Node, NEW list \in Arrivals, BuildRoster(p, list)
          PROVE  UNCHANGED Vals
      BY <2>2 DEF BuildRoster
    <2>3. ASSUME NEW p \in Node, SealRound2(p)
          PROVE  Promise!Next
      BY <2>3 DEF SealRound2, Promise!Next, Promise!Deal, Index
    <2>4. ASSUME NEW p \in Node, NEW sp \in Package, Open(p, sp)
          PROVE  Promise!Next \/ UNCHANGED Vals
      <3>1. CASE OpenWithEvidence(p, sp) = "Ok"
        <4>1. taken' = [taken EXCEPT ![p] = @ \cup
                  {[dealer |-> sp.dealer, value |-> Shares[sp.dealer][p]]}]
          BY <2>4, <3>1, AcceptedIsDealt DEF Open
        <4>2. Promise!Take(p, sp.dealer)
          BY <2>4, <3>1, <4>1, AcceptedIsDealt DEF Open, Promise!Take, Shares
        <4> QED BY <4>2 DEF Promise!Next, Package
      <3>2. CASE OpenWithEvidence(p, sp) # "Ok"
        BY <2>4, <3>2 DEF Open
      <3> QED BY <3>1, <3>2
    <2>5. ASSUME NEW p \in Node, NEW f \in Faulty, Drop(p, f)
          PROVE  UNCHANGED Vals
      BY <2>5 DEF Drop
    <2> QED BY <2>1, <2>2, <2>3, <2>4, <2>5 DEF Next
  <1> QED BY <1>1, <1>2, Invariance, PTL DEF Spec, ImplementsDelivery, Promise!Spec
=============================================================================
