------------------------------- MODULE Ed25519 -------------------------------
(***************************************************************************)
(* Signatures: ed25519_spp.py, which does the arithmetic of the curve      *)
(* itself, and curve.ts and ed25519.go, which take points from a library   *)
(* and put the checks of section 8A around it.  The field, the curve and   *)
(* its group are constants; an instance is a small curve of the same       *)
(* shape: P = 5 mod 8, a group of order 8 L.  What is known of the field   *)
(* and of the curve is assumed (FieldAssumption, GroupAssumption).         *)
(*                                                                         *)
(* A string of 32 bytes is the number it is in little-endian order: a      *)
(* coordinate y and, in the highest bit, the sign of x.  SHA-512 may give  *)
(* any number of Digests; the fixed lengths of keys and signatures are     *)
(* implied by the grammar of assertions.                                   *)
(***************************************************************************)
EXTENDS Integers

CONSTANTS
    P,        \* 2^255 - 19 in the code
    L,        \* the order of the base point
    D,        \* the parameter of the curve
    BaseY,    \* y of the base point
    SignBit,  \* 2^255 in the code
    Digests   \* bound: the numbers SHA-512 gives

\* 8 L > SignBit keeps a clamped scalar from being a multiple of L.
ASSUME CurveAssumption ==
    /\ {P, L, D, BaseY, SignBit} \cup Digests \subseteq Nat
    /\ P % 8 = 5 /\ P < SignBit /\ D < P /\ BaseY < P
    /\ SignBit % 16 = 0 /\ 8 * L > SignBit /\ L % 2 = 1

VARIABLES
    seed,       \* the private key, hashed, of whoever made the key
    key,        \* A
    signature,  \* R, S and the hash k0 of R, A and the message
    signed      \* is the signature one that sign made of the seed?

sigVars == <<seed, key, signature, signed>>

Encodings == 0..(2 * SignBit - 1)
Nothing   == -1

-----------------------------------------------------------------------------
(* ed25519_spp.py *)

\* pow(b, n, P)
Pow(b) ==
    LET pow[n \in Nat] ==
            IF n = 0 THEN 1
            ELSE LET half == pow[n \div 2] IN (half * half * (IF n % 2 = 1 THEN b ELSE 1)) % P
    IN  pow

Inv(x)         == Pow(x % P)[P - 2]
RootOfMinusOne == Pow(2)[(P - 1) \div 4]

\* _xrecover: the even x of a y, if there is one.  x2 is its square, x a
\* candidate for the root.
SquareOfX(y)       == ((y * y - 1) * Inv(D * y * y + 1)) % P
Root(x, x2)        == IF (x * x - x2) % P # 0 THEN (x * RootOfMinusOne) % P ELSE x
EvenRoot(root, x2) == [ok |-> (root * root - x2) % P = 0, x |-> IF root % 2 # 0 THEN P - root ELSE root]
XOfSquare(x2)      == EvenRoot(Root(Pow(x2)[(P + 3) \div 8], x2), x2)
XRecover(y)        == XOfSquare(SquareOfX(y))

PointAdd(a, b) ==
    LET dxy == D * a[1] * b[1] * a[2] * b[2]
    IN  <<((a[1] * b[2] + b[1] * a[2]) * Inv(1 + dxy)) % P,
          ((a[2] * b[2] + a[1] * b[1]) * Inv(1 - dxy)) % P>>

Ident == <<0, 1>>

\* _point_mul, from the low bit up: rounds until nothing is left of s, which
\* takes no more than s.
MulStep(st) ==
    IF st.s = 0 THEN st
    ELSE [s |-> st.s \div 2, r |-> IF st.s % 2 = 1 THEN PointAdd(st.r, st.q) ELSE st.r, q |-> PointAdd(st.q, st.q)]
MulLoop(s, pt) ==
    LET state[i \in 0..s] == IF i = 0 THEN [s |-> s, r |-> Ident, q |-> pt] ELSE MulStep(state[i - 1])
    IN  state
PointMul(s, pt) == MulLoop(s, pt)[s].r

BasePoint == <<XRecover(BaseY).x, BaseY>>

EncodePoint(pt) == pt[2] + (IF pt[1] % 2 = 1 THEN SignBit ELSE 0)

Bad == [ok |-> FALSE, pt |-> Ident]

\* decode_point.  The x of a negative zero becomes P, which is not zero.
WithSign(raw, y, rec) ==
    LET sign == raw >= SignBit
        x    == IF sign THEN P - rec.x ELSE rec.x
    IN  IF y >= P \/ ~rec.ok \/ (x = 0 /\ sign) \/ EncodePoint(<<x, y>>) # raw THEN Bad
        ELSE [ok |-> TRUE, pt |-> <<x, y>>]
DecodePoint(raw) == WithSign(raw, raw % SignBit, XRecover(raw % SignBit))

\* verify_spp_ed25519_1 and verifySppEd25519: the checks of section 8A of
\* what A and R decode to.
ProfileChecks_NoSubgroup(a, r, S, k0) ==
    /\ S < L /\ a.ok /\ r.ok
    /\ a.pt # Ident /\ r.pt # Ident
    /\ PointMul(S, BasePoint) = PointAdd(r.pt, PointMul(k0 % L, a.pt))
ProfileChecks(a, r, S, k0) ==
    /\ S < L /\ a.ok /\ r.ok
    /\ a.pt # Ident /\ r.pt # Ident
    /\ PointMul(L, a.pt) = Ident /\ PointMul(L, r.pt) = Ident
    /\ PointMul(S, BasePoint) = PointAdd(r.pt, PointMul(k0 % L, a.pt))

PyVerify(A, R, S, k0) == ProfileChecks(DecodePoint(A), DecodePoint(R), S, k0)

\* The scalar of a private key: s &= (1 << 254) - 8, s |= 1 << 254.
Clamp(h) == ((h % (SignBit \div 2)) \div 8) * 8 + SignBit \div 2

PublicFromPrivate(h) == EncodePoint(PointMul(Clamp(h), BasePoint))

\* sign, where r0 and k0 are what the hashes give.
Sign_Unreduced(h, r0, k0) ==
    [R |-> EncodePoint(PointMul(r0 % L, BasePoint)), S |-> (r0 % L) + (k0 % L) * Clamp(h), k0 |-> k0]
Sign(h, r0, k0) ==
    [R  |-> EncodePoint(PointMul(r0 % L, BasePoint)),
     S  |-> ((r0 % L) + (k0 % L) * Clamp(h)) % L,
     k0 |-> k0]

-----------------------------------------------------------------------------
(* curve.ts on @noble/curves and ed25519.go on filippo.io/edwards25519. *)

\* Points of both libraries are reduced; a negative zero is zero.
Negated(x) == (P - x) % P

\* fromHex of the one is strict, SetBytes of the other takes any y.
FromHex(raw) ==
    LET y    == raw % SignBit
        sign == raw >= SignBit
        rec  == XRecover(y)
    IN  IF y >= P \/ ~rec.ok \/ (rec.x = 0 /\ sign) THEN Bad
        ELSE [ok |-> TRUE, pt |-> <<IF sign THEN Negated(rec.x) ELSE rec.x, y>>]
SetBytes(raw) ==
    LET y   == (raw % SignBit) % P
        rec == XRecover(y)
    IN  IF ~rec.ok THEN Bad
        ELSE [ok |-> TRUE, pt |-> <<IF raw >= SignBit THEN Negated(rec.x) ELSE rec.x, y>>]

\* decodeCanonical
DecodeCanonical(raw) ==
    LET d == FromHex(raw) IN IF d.ok /\ EncodePoint(d.pt) = raw THEN d ELSE Bad

TsVerify(A, R, S, k0) == ProfileChecks(DecodeCanonical(A), DecodeCanonical(R), S, k0)

\* mulByL, from the high bit down.
MulFromHigh(pt) ==
    LET upto[n \in Nat] ==
            IF n = 0 THEN Ident
            ELSE LET res == PointAdd(upto[n \div 2], upto[n \div 2])
                 IN  IF n % 2 = 1 THEN PointAdd(res, pt) ELSE res
    IN  upto

\* SPPEd25519Verify of ed25519.go
GoChecks(A, R, a, r, S, k0) ==
    /\ S < L /\ a.ok /\ r.ok
    /\ EncodePoint(a.pt) = A /\ EncodePoint(r.pt) = R
    /\ a.pt # Ident /\ MulFromHigh(a.pt)[L] = Ident
    /\ r.pt # Ident /\ MulFromHigh(r.pt)[L] = Ident
    /\ PointMul(S, BasePoint) = PointAdd(PointMul(k0 % L, a.pt), r.pt)
GoVerify(A, R, S, k0) == GoChecks(A, R, SetBytes(A), SetBytes(R), S, k0)

-----------------------------------------------------------------------------
(* The field and the group, as far as the profile depends on them. *)

\* P is a prime, so a nonzero number has an inverse; a square has one of two
\* numbers for a root; and -1 / D has none.
ASSUME FieldAssumption ==
    /\ \A a, b \in 1..(P - 1) : (a * b) % P # 0
    /\ \A a \in 1..(P - 1) : (a * Inv(a)) % P = 1
    /\ (RootOfMinusOne * RootOfMinusOne + 1) % P = 0
    /\ \A a \in 0..(P - 1) :
         LET x2 == (a * a) % P
             x  == Pow(x2)[(P + 3) \div 8]
         IN  (x * x - x2) % P = 0 \/ (x * x + x2) % P = 0
    /\ \A y \in 0..(P - 1) : (D * y * y + 1) % P # 0

Curve ==
    {pt \in (0..(P - 1)) \X (0..(P - 1)) :
        (pt[1] * pt[1] * (D * pt[2] * pt[2] + 1) - (pt[2] * pt[2] - 1)) % P = 0}

\* n times a point.
Times(pt) == LET times[n \in Nat] == IF n = 0 THEN Ident ELSE PointAdd(times[n - 1], pt) IN times

\* The points are a commutative group, and those whose multiple by L is the
\* identity are the L multiples of the base point.
ASSUME GroupAssumption ==
    /\ \A a, b \in Curve : PointAdd(a, b) \in Curve /\ PointAdd(a, b) = PointAdd(b, a)
    /\ \A a, b, c \in Curve : PointAdd(PointAdd(a, b), c) = PointAdd(a, PointAdd(b, c))
    /\ \A a \in Curve : PointAdd(a, Ident) = a
    /\ BasePoint \in Curve /\ Times(BasePoint)[L] = Ident
    /\ \A i, j \in 0..(L - 1) : Times(BasePoint)[i] = Times(BasePoint)[j] => i = j
    /\ \A a \in Curve : Times(a)[L] = Ident => \E i \in 0..(L - 1) : a = Times(BasePoint)[i]

-----------------------------------------------------------------------------
NoSignature == [R |-> 0, S |-> 0, k0 |-> 0]
SigInit == seed = Nothing /\ key = Nothing /\ signature = NoSignature /\ signed = FALSE

\* A key is made from a private one, or is any 32 bytes, made ones included.
MakeKey ==
    /\ key = Nothing
    /\ \E h \in 0..(SignBit - 1) : seed' = h /\ key' = PublicFromPrivate(h)
    /\ UNCHANGED <<signature, signed>>
AnyKey ==
    /\ key = Nothing
    /\ key' \in Encodings
    /\ UNCHANGED <<seed, signature, signed>>

\* So is a signature; NoSignature says that none has come yet.
MakeSignature ==
    /\ seed # Nothing /\ signature = NoSignature /\ ~signed
    /\ \E r0, k0 \in Digests : signature' = Sign(seed, r0, k0)
    /\ signed' = TRUE
    /\ UNCHANGED <<seed, key>>
AnySignature ==
    /\ key # Nothing /\ seed = Nothing /\ signature = NoSignature
    /\ signature' \in [R : Encodings, S : 0..L, k0 : Digests]
    /\ UNCHANGED <<seed, key, signed>>

SigNext == MakeKey \/ AnyKey \/ MakeSignature \/ AnySignature

SigSpec == SigInit /\ [][SigNext]_sigVars

-----------------------------------------------------------------------------
\* Section 8A without arithmetic of points: A and R are the encodings of
\* multiples a and r of the base point, neither of them the identity, S is
\* below L, and S = r + k a.
Multiples == [i \in 1..(L - 1) |-> EncodePoint(Times(BasePoint)[i])]
InProfile(A, R, S, k0) ==
    \E a, r \in 1..(L - 1) :
        A = Multiples[a] /\ R = Multiples[r] /\ S = (r + (k0 % L) * a) % L

\* x = 0 with the sign of a negative number.
NegativeZero(raw) == raw >= SignBit /\ XRecover(raw % SignBit) = [ok |-> TRUE, x |-> 0]

Verdicts(Verify(_, _, _, _)) == Verify(key, signature.R, signature.S, signature.k0)

\* curve.ts and ed25519.go accept exactly what section 8A accepts, of all
\* byte strings: points of small and of mixed order, the identity, encodings
\* of y + P, negative zeros, and S of L and more are refused.  ed25519_spp.py
\* does too, but for negative zeros.
VerifiersExact ==
    key # Nothing =>
        /\ Verdicts(TsVerify) <=> Verdicts(InProfile)
        /\ Verdicts(GoVerify) <=> Verdicts(InProfile)
        /\ ~NegativeZero(key) /\ ~NegativeZero(signature.R) => (Verdicts(PyVerify) <=> Verdicts(InProfile))

\* Whatever private key, what sign makes is accepted by all three, unless the
\* hash r is a multiple of L and R the identity.
SignedVerifies ==
    signed /\ signature.R # EncodePoint(Ident) =>
        Verdicts(PyVerify) /\ Verdicts(TsVerify) /\ Verdicts(GoVerify)

\* The specification: "SPP validity is objective, so v1 freezes one profile",
\* which says "Reject if `A` is the identity."
PythonExact == key # Nothing => (Verdicts(PyVerify) <=> Verdicts(InProfile))
=============================================================================
