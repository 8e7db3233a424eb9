------------------------------ MODULE Encoding ------------------------------
(***************************************************************************)
(* The byte encodings of the crate: what is stored and sent (scalars,      *)
(* points, sub-shares, commitments, identifiers) with its decoder, and     *)
(* what is signed or hashed (signing contexts, complaints, the round-1     *)
(* echo).                                                                  *)
(*                                                                         *)
(* The widths are constants.  The code's are Base = 256, Word = 4,         *)
(* Long = 8, and 32 for scalars, coordinates and digests.  Scalars and     *)
(* points are those of secp256k1; its curve is                             *)
(* y^2 = x^3 + CurveA x + CurveB over the integers modulo Modulus.         *)
(***************************************************************************)
EXTENDS Lagrange, FiniteSets

CONSTANTS
    Base,            \* the values of a byte
    Word,            \* bytes of a u32
    Long,            \* bytes of a u64
    ScalarBytes,     \* bytes of a scalar,
    CoordinateBytes, \* of a coordinate,
    DigestBytes,     \* and of a digest or session
    SigningDomain, ComplaintDomain, EchoDomain,
    Modulus, CurveA, CurveB

Byte == 0 .. Base - 1

\* Base^n, the number of strings of n bytes
Size[n \in Nat] == IF n = 0 THEN 1 ELSE Base * Size[n - 1]

PointBytes    == 1 + CoordinateBytes
SubShareWidth == 2 * Word + ScalarBytes
EvidenceWidth == 2 * Word + DigestBytes + 1 + SubShareWidth + 2 * DigestBytes

\* Scalars and coordinates fit their widths, and what is of a fixed width, and
\* a domain, has a length that fits a u64.
ASSUME EncodingAssumption ==
    /\ Base \in Nat /\ Base > 5
    /\ {Word, ScalarBytes, CoordinateBytes, DigestBytes} \subseteq Nat \ {0}
    /\ Long \in Nat \ {0, 1}
    /\ P <= Size[ScalarBytes]
    /\ {PointBytes, ScalarBytes, EvidenceWidth} \subseteq 0 .. Size[Long] - 1
    /\ {SigningDomain, ComplaintDomain, EchoDomain} \subseteq Seq(Byte)
    /\ {Len(SigningDomain), Len(ComplaintDomain)} \subseteq 0 .. Size[Long] - 1

\* The coordinates are integers modulo an odd prime.
ASSUME CurveAssumption ==
    /\ Modulus \in Nat /\ Modulus % 2 = 1 /\ Modulus <= Size[CoordinateBytes]
    /\ {CurveA, CurveB} \subseteq Int
    /\ \A a, b \in 1 .. Modulus - 1 : (a * b) % Modulus # 0

U32 == 0 .. Size[Word] - 1
U64 == 0 .. Size[Long] - 1

\* to_le_bytes, to_be_bytes and back, over w bytes
LittleEndian(v, w) == [n \in 1 .. w |-> (v \div Size[n - 1]) % Base]
BigEndian(v, w)    == Reverse(LittleEndian(v, w))
FromLittle(b)      == FoldRight(LAMBDA d, acc : acc * Base + d, b, 0)
FromBig(b)         == FromLittle(Reverse(b))

Zeros(b) == \A n \in DOMAIN b : b[n] = 0

-----------------------------------------------------------------------------
(* Scalars and points.  A decoder answers with the set of what it accepts: *)
(* one value, or nothing.                                                  *)

\* Mutant: a scalar is reduced, where it should be refused.
ReducedScalar(b) == {FromBig(b) % P}

\* from_canonical_bytes: nothing at or above the order
FromCanonicalBytes(b) == {FromBig(b)} \cap Field
ScalarToBytes(v)      == BigEndian(v, ScalarBytes)

Infinity == [x |-> -1, y |-> -1]

OnCurve(pt) ==
    (pt.y * pt.y) % Modulus = (pt.x * pt.x * pt.x + CurveA * pt.x + CurveB) % Modulus

Point == {Infinity} \cup {pt \in [x : 0 .. Modulus - 1, y : 0 .. Modulus - 1] : OnCurve(pt)}

ZeroPoint == [n \in 1 .. PointBytes |-> 0]

\* Mutant: the bare x-coordinate, without the parity of y.
CompressX(pt) ==
    IF pt = Infinity THEN ZeroPoint ELSE <<2>> \o BigEndian(pt.x, CoordinateBytes)

\* compress: parity and x, and zeros for the identity
Compress(pt) ==
    IF pt = Infinity THEN ZeroPoint
    ELSE <<2 + (pt.y % 2)>> \o BigEndian(pt.x, CoordinateBytes)

\* The tags that k256 decodes at this length, and the parity of y that each
\* asks for: compressed even, compressed odd, and compact, which is even.
Parity(tag) == IF tag = 3 THEN 1 ELSE 0

\* decompress: the length, the zeros, the tag and the curve, in this order
Decompress(b) ==
    IF Len(b) # PointBytes THEN {}
    ELSE IF Zeros(b) THEN {Infinity}
    ELSE {pt \in Point \ {Infinity} :
            b[1] \in {2, 3, 5} /\ pt.x = FromBig(Tail(b)) /\ pt.y % 2 = Parity(b[1])}

Points(coefficients) == FlattenSeq([n \in DOMAIN coefficients |-> Compress(coefficients[n])])

\* The k-th stretch of w bytes
Block(b, w, k) == SubSeq(b, w * (k - 1) + 1, w * k)

\* One point for each block, and nothing if one of them is none
DecompressAll(b, t) ==
    {c \in [1 .. t -> Point] : \A n \in 1 .. t : c[n] \in Decompress(Block(b, PointBytes, n))}

-----------------------------------------------------------------------------
(* What is sent and stored *)

SubShares      == [dealer : U32 \ {0}, player : U32 \ {0}, value : Field]
Commitments(t) == [dealer : U32 \ {0}, coefficients : [1 .. t -> Point]]

\* SubShare::encode_plaintext, decode_plaintext
SubShareBytes(s) ==
    LittleEndian(s.dealer, Word) \o LittleEndian(s.player, Word) \o ScalarToBytes(s.value)
SubShareOf(b) ==
    LET dealer == FromLittle(SubSeq(b, 1, Word))
        player == FromLittle(SubSeq(b, Word + 1, 2 * Word))
    IN {[dealer |-> dealer, player |-> player, value |-> v] :
            v \in IF 0 \in {dealer, player} THEN {}
                  ELSE FromCanonicalBytes(SubSeq(b, 2 * Word + 1, SubShareWidth))}

\* DealerCommitment::to_bytes, from_bytes
CommitmentBytes(c) == LittleEndian(c.dealer, Word) \o Points(c.coefficients)
CommitmentOf(b, t) ==
    LET dealer == FromLittle(SubSeq(b, 1, Word))
    IN IF Len(b) # Word + PointBytes * t \/ dealer = 0 THEN {}
       ELSE {[dealer |-> dealer, coefficients |-> c] :
                c \in DecompressAll(SubSeq(b, Word + 1, Len(b)), t)}

\* SharePolynomial::to_bytes, from_bytes
SharePolynomialOf(b, t) ==
    IF t = 0 \/ Len(b) # PointBytes * t THEN {} ELSE DecompressAll(b, t)

\* Mutant: the byte order is told from the first byte.
IdentifierByFirstByte(b, w) ==
    IF Len(b) < w THEN {}
    ELSE IF b[1] # 0 THEN {FromLittle(SubSeq(b, 1, w))} \ {0}
    ELSE {FromBig(SubSeq(b, Len(b) - w + 1, Len(b)))} \ {0}

\* identifier_to_index, over w bytes: the suite's byte order is not known, so
\* both are tried.
IdentifierToIndex(b, w) ==
    LET little == Zeros(SubSeq(b, w + 1, Len(b)))
        big    == Zeros(SubSeq(b, 1, Len(b) - w))
    IN IF Len(b) < w THEN {}
       ELSE IF little THEN {FromLittle(SubSeq(b, 1, w))} \ {0}
       ELSE IF big THEN {FromBig(SubSeq(b, Len(b) - w + 1, Len(b)))} \ {0}
       ELSE {}

-----------------------------------------------------------------------------
(* What is signed or hashed *)

Prefixed(b) == LittleEndian(Len(b), Long) \o b

\* SigningContext::encode
ContextBytes(c) ==
    Prefixed(SigningDomain) \o LittleEndian(c.epoch, Long) \o c.manifest \o Prefixed(c.message)

\* BadSubShareEvidence::encode
EvidenceBytes(e) ==
    LittleEndian(e.dealer, Word) \o LittleEndian(e.recipient, Word) \o e.session \o <<e.round>>
        \o e.subshare \o e.agreed \o e.sealed

\* ComplaintEvidence::encode_into
AccusationBytes(a) ==
    IF a.kind = "forged"
    THEN <<1>> \o Prefixed(CommitmentBytes(a.package.commitment))
               \o Prefixed(Compress(a.package.r)) \o Prefixed(ScalarToBytes(a.package.z))
    ELSE <<2>> \o Prefixed(EvidenceBytes(a.evidence))

\* Complaint::body
ComplaintBody(c) ==
    Prefixed(ComplaintDomain) \o LittleEndian(c.epoch, Long) \o c.session \o <<c.round>>
        \o LittleEndian(c.accuser, Word) \o LittleEndian(c.accused, Word)
        \o AccusationBytes(c.accusation)

\* sort_by_key, of commitments of different dealers
ByDealer(commitments) ==
    CHOOSE s \in [1 .. Cardinality(commitments) -> commitments] :
        \A i, j \in DOMAIN s : i < j => s[i].dealer < s[j].dealer

EchoHead(epoch, t, n, count) ==
    EchoDomain \o LittleEndian(epoch, Long) \o LittleEndian(t, Word) \o LittleEndian(n, Word)
        \o LittleEndian(count, Word)

\* Mutant: each commitment is written without its length.
EchoWithoutLengths(epoch, t, n, commitments) ==
    LET sorted == ByDealer(commitments) IN
    EchoHead(epoch, t, n, Len(sorted)) \o
    FlattenSeq([k \in DOMAIN sorted |->
        LittleEndian(sorted[k].dealer, Word) \o CommitmentBytes(sorted[k])])

\* round1_echo_digest, before it is hashed
EchoBytes(epoch, t, n, commitments) ==
    LET sorted == ByDealer(commitments) IN
    EchoHead(epoch, t, n, Len(sorted)) \o
    FlattenSeq([k \in DOMAIN sorted |->
        LittleEndian(sorted[k].dealer, Word) \o Prefixed(CommitmentBytes(sorted[k]))])
=============================================================================
