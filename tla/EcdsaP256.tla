------------------------------ MODULE EcdsaP256 ------------------------------
(***************************************************************************)
(* bootloader/crypto/ecdsa_p256.c: 256-bit integers as LIMBS words of LIMB *)
(* bits, least significant word first (the code: 8 of 32), the modular     *)
(* arithmetic on them, and EcdsaP256_VerifyDigest for any curve            *)
(* y^2 = x^3 - 3x + b of prime order.  Points are affine <<x, y>> or       *)
(* Jacobian [x, y, z], as in the code.                                     *)
(*                                                                         *)
(* The arithmetic is compared with that of the integers, verification with *)
(* its definition, on a curve small enough to try every point and every    *)
(* signature value.                                                        *)
(***************************************************************************)
EXTENDS Integers, Sequences, SequencesExt, FiniteSets

CONSTANTS
    LIMB,            \* bits of a word
    LIMBS,           \* U256_LIMBS
    Moduli,          \* the moduli to try
    P, N, B,         \* g_p, g_n, g_b
    GX, GY,          \* g_generator
    Scales,          \* z coordinates of Jacobian points
    Digests, SValues \* digests and values of s to try

(* What the constants have to satisfy.                                     *)
CurveAssumption ==
    /\ LIMB \in Nat \ {0} /\ LIMBS \in Nat \ {0}
    /\ \A m \in Moduli : m \in 2..(2 ^ (LIMB * LIMBS) - 1)
    /\ {N, P} \subseteq 2..(2 ^ (LIMB * LIMBS) - 1) /\ {B, GX, GY} \subseteq 0..(P - 1)
    /\ P < 2 * N /\ 2 ^ (LIMB * LIMBS) <= 2 * N

WORD == 2 ^ LIMB
U256_BITS == LIMB * LIMBS

Limbs == [i \in 1..LIMBS |-> i]
U256_Clear == [i \in 1..LIMBS |-> 0]
One == [U256_Clear EXCEPT ![1] = 1]

U256_IsZero(v) == \A i \in 1..LIMBS : v[i] = 0

(* The highest word that differs decides.                                  *)
U256_Compare(l, r) ==
    LET differ == {i \in 1..LIMBS : l[i] # r[i]}
        i == CHOOSE k \in differ : \A j \in differ : j <= k
    IN  IF differ = {} THEN 0 ELSE IF l[i] > r[i] THEN 1 ELSE -1

(* Big-endian bytes to words; a byte has half the bits of a word here.     *)
U256_FromBigEndian(bytes) ==
    [i \in 1..LIMBS |-> LET o == 2 * (LIMBS - i)
                        IN  bytes[o + 1] * 2 ^ (LIMB \div 2) + bytes[o + 2]]

U256_GetBit(v, bit) == (v[bit \div LIMB + 1] \div 2 ^ (bit % LIMB)) % 2

Borrow(first, a, b, borrow) == IF a < b \/ first < borrow THEN 1 ELSE 0

U256_SubRaw(l, r) ==
    LET sub[i \in 0..LIMBS] ==
          IF i = 0 THEN [out |-> <<>>, borrow |-> 0]
          ELSE LET acc == sub[i - 1]
                   first == (l[i] - r[i]) % WORD
               IN  [out |-> Append(acc.out, (first - acc.borrow) % WORD),
                    borrow |-> Borrow(first, l[i], r[i], acc.borrow)]
    IN  sub[LIMBS].out

U256_AddRaw(l, r) ==
    LET add[i \in 0..LIMBS] ==
          IF i = 0 THEN [out |-> <<>>, carry |-> 0]
          ELSE LET acc == add[i - 1]
                   first == (l[i] + r[i]) % WORD
                   second == (first + acc.carry) % WORD
               IN  [out |-> Append(acc.out, second),
                    carry |-> IF first < l[i] \/ second < first THEN 1 ELSE 0]
    IN  add[LIMBS].out

U256_SubSmall(v, small) ==
    LET sub[i \in 0..LIMBS] ==
          IF i = 0 THEN [out |-> <<>>, borrow |-> small]
          ELSE LET acc == sub[i - 1]
               IN  [out |-> Append(acc.out, (v[i] - acc.borrow) % WORD),
                    borrow |-> IF v[i] >= acc.borrow THEN 0 ELSE 1]
    IN  sub[LIMBS].out

(* No temporary is wider than the words: the sum is compared before it is  *)
(* formed.                                                                 *)
ModAdd(l, r, m) ==
    LET threshold == U256_SubRaw(m, r)
    IN  IF U256_Compare(l, threshold) >= 0 THEN U256_SubRaw(l, threshold)
        ELSE U256_AddRaw(l, r)

ModSub(l, r, m) ==
    IF U256_Compare(l, r) >= 0 THEN U256_SubRaw(l, r)
    ELSE U256_SubRaw(m, U256_SubRaw(r, l))

ModMul(l, r, m) ==
    FoldLeft(LAMBDA acc, bit :
               [product |-> IF U256_GetBit(r, bit) # 0 THEN ModAdd(acc.product, acc.doubled, m)
                            ELSE acc.product,
                doubled |-> IF bit + 1 < U256_BITS THEN ModAdd(acc.doubled, acc.doubled, m)
                            ELSE acc.doubled],
             [product |-> U256_Clear, doubled |-> l],
             [k \in 1..U256_BITS |-> k - 1]).product

ModTriple(v, m) == ModAdd(ModAdd(v, v, m), v, m)
ModTimes8(v, m) ==
    LET times2 == ModAdd(v, v, m)
        times4 == ModAdd(times2, times2, m)
    IN  ModAdd(times4, times4, m)

(* Fermat: value ^ (modulus - 2), from the highest bit down.               *)
ModInverse(v, m) ==
    LET exponent == U256_SubSmall(m, 2)
    IN  FoldLeft(LAMBDA acc, bit :
                   LET squared == ModMul(acc, acc, m)
                   IN  IF U256_GetBit(exponent, bit) # 0 THEN ModMul(squared, v, m)
                       ELSE squared,
                 One, [k \in 1..U256_BITS |-> U256_BITS - k])

(* Words of a number, for what is written with numerals, and back.         *)
Value(v) == FoldLeft(LAMBDA n, i : n + v[i] * WORD ^ (i - 1), 0, Limbs)
Words(n) == [i \in 1..LIMBS |-> (n \div WORD ^ (i - 1)) % WORD]

-----------------------------------------------------------------------------
(* The arithmetic against that of the integers.                            *)

Bytes(n) == [k \in 1..(2 * LIMBS) |->
               (n \div 2 ^ ((LIMB \div 2) * (2 * LIMBS - k))) % 2 ^ (LIMB \div 2)]
Prime(n) == n > 1 /\ \A k \in 2..(n - 1) : n % k # 0

(* All operands below a modulus.                                           *)
VARIABLES modulus, left, right

arithmeticVars == <<modulus, left, right>>

ArithmeticInit == modulus \in Moduli /\ left = 0 /\ right = 0
ArithmeticNext ==
    \/ left + 1 < modulus /\ left' = left + 1 /\ UNCHANGED <<modulus, right>>
    \/ right + 1 < modulus /\ right' = right + 1 /\ UNCHANGED <<modulus, left>>

(* The modular operations are exact, though every intermediate value has   *)
(* to fit the words: sums and doublings that would not, borrows that run   *)
(* through words that are zero, products formed bit by bit.                *)
ArithmeticExact ==
    LET l == Words(left)
        r == Words(right)
        m == Words(modulus)
    IN  /\ U256_FromBigEndian(Bytes(left)) = l
        /\ Value(ModAdd(l, r, m)) = (left + right) % modulus
        /\ Value(ModSub(l, r, m)) = (left - right) % modulus
        /\ Value(ModMul(l, r, m)) = (left * right) % modulus
        /\ Value(ModTriple(l, m)) = (3 * left) % modulus
        /\ Value(ModTimes8(l, m)) = (8 * left) % modulus

(* For a prime modulus every value but zero has its inverse.               *)
InverseExact ==
    (Prime(modulus) /\ right = 0 /\ left # 0) =>
       (Value(ModInverse(Words(left), Words(modulus))) * left) % modulus = 1

-----------------------------------------------------------------------------
(* The curve.                                                              *)

p == Words(P)
n == Words(N)
b == Words(B)
generator == <<Words(GX), Words(GY)>>

U256 == [1..LIMBS -> 0..(WORD - 1)]
Add[l \in U256, r \in U256] == ModAdd(l, r, p)
Sub[l \in U256, r \in U256] == ModSub(l, r, p)
Mul[l \in U256, r \in U256] == ModMul(l, r, p)
Square[v \in U256] == ModMul(v, v, p)
Double[v \in U256] == ModAdd(v, v, p)
Triple(v) == Add[Double[v], v]
Times4(v) == Double[Double[v]]
Times8(v) == Double[Times4(v)]

PointInfinity == [x |-> U256_Clear, y |-> U256_Clear, z |-> U256_Clear]
PointIsInfinity(q) == U256_IsZero(q.z)
PointSetAffine(a) == [x |-> a[1], y |-> a[2], z |-> One]

(* Doubling, for the curve coefficient -3.                                 *)
PointDouble(q) ==
    IF PointIsInfinity(q) \/ U256_IsZero(q.y) THEN PointInfinity
    ELSE LET delta == Square[q.z]
             gamma == Square[q.y]
             beta == Mul[q.x, gamma]
             alpha == Triple(Mul[Sub[q.x, delta], Add[q.x, delta]])
             x3 == Sub[Square[alpha], Times8(beta)]
         IN  [x |-> x3,
              y |-> Sub[Mul[alpha, Sub[Times4(beta), x3]], Times8(Square[gamma])],
              z |-> Sub[Sub[Square[Add[q.y, q.z]], gamma], delta]]

(* Both points have the same x: they are equal or opposite.                *)
SameXSum(q, r) == IF U256_IsZero(r) THEN PointDouble(q) ELSE PointInfinity

PointAddAffine(q, a) ==
    IF PointIsInfinity(q) THEN PointSetAffine(a)
    ELSE LET z1z1 == Square[q.z]
             h == Sub[Mul[a[1], z1z1], q.x]
             r == Sub[Mul[a[2], Mul[q.z, z1z1]], q.y]
             hh == Square[h]
             i4 == Times4(hh)
             j == Mul[h, i4]
             v == Mul[q.x, i4]
             x3 == Sub[Sub[Square[Double[r]], j], Double[v]]
         IN  IF U256_IsZero(h) THEN SameXSum(q, r)
             ELSE [x |-> x3,
                   y |-> Sub[Mul[Double[r], Sub[v, x3]], Double[Mul[q.y, j]]],
                   z |-> Sub[Sub[Square[Add[q.z, h]], z1z1], hh]]

PointIsOnCurve(a) ==
    /\ U256_Compare(a[1], p) < 0 /\ U256_Compare(a[2], p) < 0
    /\ ~(U256_IsZero(a[1]) /\ U256_IsZero(a[2]))
    /\ Square[a[2]] = Add[Sub[Mul[Square[a[1]], a[1]], Triple(a[1])], b]

PointAffineX(q) == Mul[q.x, Square[ModInverse(q.z, p)]]

(* scalar_g * G + scalar_q * Q, both scalars from the highest bit down.    *)
PointLinearCombination(scalar_g, scalar_q, a) ==
    LET bits == [k \in 1..U256_BITS |-> U256_BITS - k]
        additions(bit) == (IF U256_GetBit(scalar_g, bit) # 0 THEN <<generator>> ELSE <<>>)
                          \o (IF U256_GetBit(scalar_q, bit) # 0 THEN <<a>> ELSE <<>>)
    IN  FoldLeft(LAMBDA q, bit :
                   FoldLeft(PointAddAffine, PointDouble(q), additions(bit)),
                 PointInfinity, bits)

(* Mutant: a value of N or more is left as it is.                          *)
NotReduced(v) == v

(* One subtraction is enough: P and any digest are below 2 * N.            *)
Reduce(v) == IF U256_Compare(v, n) >= 0 THEN U256_SubRaw(v, n) ELSE v

InRange(v) == ~U256_IsZero(v) /\ U256_Compare(v, n) < 0

EcdsaP256_VerifyDigest(q, digest, r, s) ==
    IF ~PointIsOnCurve(q) THEN "INVALID_PUBLIC_KEY"
    ELSE IF ~InRange(r) \/ ~InRange(s) THEN "INVALID_SIGNATURE"
    ELSE LET w == ModInverse(s, n)
             u1 == ModMul(Reduce(digest), w, n)
             u2 == ModMul(r, w, n)
             point == PointLinearCombination(u1, u2, q)
         IN  IF ~PointIsInfinity(point) /\ Reduce(PointAffineX(point)) = r
               THEN "VALID" ELSE "INVALID_SIGNATURE"

-----------------------------------------------------------------------------
(* The group: affine points as numbers, O the neutral one.                 *)
O == <<"infinity">>
Field == 0..(P - 1)
Points == {a \in Field \X Field : (a[2] * a[2] - a[1] * a[1] * a[1] + 3 * a[1] - B) % P = 0}
Quotient(c, d) == CHOOSE k \in Field : (k * d - c) % P = 0

Sum(a, c) ==
    IF a = O THEN c ELSE IF c = O THEN a
    ELSE IF a[1] = c[1] /\ (a[2] + c[2]) % P = 0 THEN O
    ELSE LET k == IF a = c THEN Quotient((3 * a[1] * a[1] - 3) % P, (2 * a[2]) % P)
                  ELSE Quotient((c[2] - a[2]) % P, (c[1] - a[1]) % P)
             x == (k * k - a[1] - c[1]) % P
         IN  <<x, (k * (a[1] - x) - a[2]) % P>>

G == <<GX, GY>>
Multiples[k \in 0..N] == IF k = 0 THEN O ELSE Sum(Multiples[k - 1], G)

(* The curve has N points.                                                 *)
GroupAssumption == Cardinality(Points) = N - 1 /\ Multiples[N] = O

Log(a) == CHOOSE k \in 0..(N - 1) : Multiples[k] = a
InverseN(v) == CHOOSE w \in 1..(N - 1) : (v * w) % N = 1

(* A Jacobian point of the code stands for an affine one.                  *)
Stands(q, a) ==
    LET z == Value(q.z)
    IN  IF a = O THEN z = 0
        ELSE /\ z # 0 /\ (a[1] * z * z - Value(q.x)) % P = 0
             /\ (a[2] * ((z * z * z) % P) - Value(q.y)) % P = 0

Jacobian(a, z) ==
    IF a = O THEN PointInfinity
    ELSE [x |-> Words((a[1] * z * z) % P), y |-> Words((a[2] * ((z * z * z) % P)) % P),
          z |-> Words(z)]

Affine(a) == <<Words(a[1]), Words(a[2])>>

-----------------------------------------------------------------------------
(* What to try: a sum of two points, or a signature under a key; keys that *)
(* are no points of the curve among them.                                  *)

VARIABLES what, key, other, digest, r, s

curveVars == <<what, key, other, digest, r, s>>

Keys == {Multiples[k] : k \in {1, 2, 18, N - 1}} \cup {<<0, 0>>, <<GX, GY + 1>>, <<GX + P, GY>>}

CurveInit == what = "NONE" /\ key \in Keys /\ other = O /\ digest = 0 /\ r = 0 /\ s = 0

TrySum ==
    /\ what = "NONE" /\ what' = "SUM"
    /\ key \in Points /\ other' \in Points \cup {O} /\ s' \in Scales
    /\ UNCHANGED <<key, digest, r>>

TrySignature ==
    /\ what = "NONE" /\ what' = "VERIFY"
    /\ digest' \in Digests /\ r' \in 0..(N + 1) /\ s' \in SValues
    /\ UNCHANGED <<key, other>>

(* The release tool signs with the secret Log(key) and a nonce.            *)
Sign ==
    /\ what = "NONE" /\ what' = "SIGNED"
    /\ key \in Points /\ digest' \in Digests
    /\ \E nonce \in 1..(N - 1) :
         /\ r' = Multiples[nonce][1] % N
         /\ s' = (InverseN(nonce) * (digest' + r' * Log(key))) % N
    /\ r' # 0 /\ s' # 0
    /\ UNCHANGED <<key, other>>

CurveNext == TrySum \/ TrySignature \/ Sign

Status == EcdsaP256_VerifyDigest(Affine(key), Words(digest), Words(r), Words(s))

(* The formulas of PointDouble and PointAddAffine are the addition of the  *)
(* group, for every representation of a point, doubling, opposite points   *)
(* and infinity included.                                                  *)
GroupLaw ==
    what = "SUM" =>
      /\ Stands(PointAddAffine(Jacobian(other, s), Affine(key)), Sum(other, key))
      /\ Stands(PointDouble(Jacobian(key, s)), Sum(key, key))

(* ECDSA as defined: r and s in range, and r is the x coordinate of        *)
(* (z / s) G + (r / s) Q.                                                  *)
Genuine ==
    /\ key \in Points /\ r \in 1..(N - 1) /\ s \in 1..(N - 1)
    /\ LET w == InverseN(s)
           R == Multiples[(digest * w + ((r * w) % N) * Log(key)) % N]
       IN  R # O /\ R[1] % N = r

Verdict ==
    IF key \notin Points THEN "INVALID_PUBLIC_KEY"
    ELSE IF Genuine THEN "VALID" ELSE "INVALID_SIGNATURE"

(* EcdsaP256_VerifyDigest says VALID of exactly the genuine signatures,    *)
(* and nothing about a key that is not on the curve.                       *)
MatchesDefinition == what \in {"VERIFY", "SIGNED"} => Status = Verdict

(* No release is lost: what the release tool signs, with any nonce, is     *)
(* genuine and therefore accepted, a digest or an x coordinate of N or     *)
(* more included.                                                          *)
SignedIsAccepted == what = "SIGNED" => Genuine

=============================================================================
