-------------------------------- MODULE Ecvrf --------------------------------
(***************************************************************************)
(* ECVRF-SECP256K1-SHA256-TAI as verify-network-ecvrf.ts computes it, over *)
(* a cyclic group of order Q: a point is its exponent to the base point,   *)
(* so 1..(Q-1) are the curve points, 0 is no point (the sentinel's gamma,  *)
(* or a digest that is no x coordinate) and a scalar multiple is a product *)
(* modulo Q.  The hash functions are parameters: nothing depends on what   *)
(* they return, only on their being functions.                             *)
(***************************************************************************)
EXTENDS Integers

CONSTANTS Q,                          \* group order
          C_LIMIT,                    \* challenges are below it: 2^128
          S_LIMIT,                    \* what 32 bytes hold: 2^256
          HASH_TO_CURVE_MAX_ITERATIONS,
          CurveDigest(_, _, _),       \* key, alpha, counter: a point or 0
          ChallengeDigest(_, _, _, _),
          NonceOf(_, _)               \* RFC 6979: secret and point

Points == 1..(Q - 1)

\* The digests are what the bytes they are read from can hold.
ASSUME GroupAssumption ==
    /\ Q \in Nat \ {0} /\ C_LIMIT \in Nat /\ S_LIMIT \in Nat /\ Q <= S_LIMIT
    /\ HASH_TO_CURVE_MAX_ITERATIONS \in Nat
    /\ \A h, gamma \in Points, u, v \in 0..(Q - 1) :
         /\ ChallengeDigest(h, gamma, u, v) \in Nat
         /\ ChallengeDigest(h, gamma, u, v) < C_LIMIT
    /\ \A x, h \in Points : NonceOf(x, h) \in Points
    \* The order is prime: no product of two points' exponents vanishes.
    /\ \A a, b \in Points : (a * b) % Q \in Points

SENTINEL_PROOF == [gamma |-> 0, c |-> 0, s |-> 0]
isSentinel(proof) == proof.gamma = 0

\* A failed attempt is a digest that is no point.
Attempts(key, alpha) ==
    {n \in 0..(HASH_TO_CURVE_MAX_ITERATIONS - 1) : CurveDigest(key, alpha, n) \in Points}

isFulfillable(key, alpha) == Attempts(key, alpha) # {}

\* Only for a fulfillable alpha.
HashToCurve(key, alpha) ==
    CurveDigest(key, alpha, CHOOSE n \in Attempts(key, alpha) :
                              \A other \in Attempts(key, alpha) : n <= other)

\* The public key of secret x is x times the base point.
PublicKey(x) == x % Q

\* The proof of a known hash point; prove() throws for an unfulfillable alpha.
ProofAt(x, h) ==
    LET gamma == (h * x) % Q
        k == NonceOf(x, h)
        c == ChallengeDigest(h, gamma, k % Q, (h * k) % Q)
    IN  [gamma |-> gamma, c |-> c, s |-> (k + c * x) % Q]

Prove(x, alpha) == ProofAt(x, HashToCurve(PublicKey(x), alpha))

\* The challenge a verifier computes from U = s G - c Y and V = s H - c Gamma.
ChallengeOf(key, proof, h) ==
    ChallengeDigest(h, proof.gamma, (proof.s - proof.c * key) % Q,
                    (proof.s * h - proof.c * proof.gamma) % Q)

VerifyAt(key, proof, h) ==
    /\ proof.c < C_LIMIT /\ proof.s < Q
    /\ key \in Points /\ proof.gamma \in Points
    /\ ChallengeOf(key, proof, h) = proof.c

Verify(key, proof, alpha) ==
    isFulfillable(key, alpha) /\ VerifyAt(key, proof, HashToCurve(key, alpha))

\* sha256 of the compressed gamma: a digest stands for its gamma.
DeriveRandomness(proof) == IF isSentinel(proof) THEN 0 ELSE proof.gamma

\* The proof string holds the limbs; what does not fit is refused on either side.
ProofFits(proof) == proof.c < C_LIMIT /\ proof.s < S_LIMIT
ProofReadable(proof) == ProofFits(proof) /\ proof.gamma \in Points /\ proof.s < Q
=============================================================================
