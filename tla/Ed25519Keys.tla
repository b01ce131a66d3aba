----------------------------- MODULE Ed25519Keys -----------------------------
(***************************************************************************)
(* ed25519_create_keypair, _add_scalar, _sign and _verify of lib/ed25519,  *)
(* over the points of Edwards and the scalars of ScalarLimbs.  The wallet  *)
(* calls the first of them.  SHA-512 is any function: what it makes of a   *)
(* seed is chosen, what it makes of a message is Digest.                   *)
(* One caller uses one key pair; the two halves of ed25519_add_scalar may  *)
(* be two calls, as its comment suggests.                                  *)
(***************************************************************************)
EXTENDS Edwards

CONSTANTS
  KeyBits,      \* bits of a private scalar (256)
  PrefixValues,     \* second halves of a private key, as numbers
  Messages,     \* messages, as numbers
  Scalars,      \* scalars that are added to a key, high bit included
  DigestRange,  \* values of a digest
  MaxKeyCalls   \* bound on the calls of a behaviour

ASSUME KeysAssumption ==
  /\ KeyBits = Nibbles * NibbleBits
  /\ PrefixValues \subseteq Nat /\ Messages \subseteq Nat
  /\ Scalars \subseteq 0 .. Power(2, KeyBits) - 1 /\ DigestRange \in Nat \ {0}

VARIABLES
  private,    \* [scalar, prefix], the two halves of private_key[64]
  public,     \* public_key[32]
  behind,     \* scalars added to one half of the pair and not yet to the other
  signature,  \* the last one made: [R, S], its message m, the public key given
  keyCalls    \* calls so far

keyVars == <<private, public, behind, signature, keyCalls>>

Digest(a, b, c) == (31 * a + 17 * b + 7 * c + a * b + 5) % DigestRange
NoSignature == [R |-> 0, S |-> 0, m |-> 0, A |-> 0]
NoKey == [scalar |-> 0, prefix |-> 0]

\* sc_reduce and sc_muladd, which ScalarLimbs computes limb by limb.
ScalarMod(x) == x % BaseOrder
MulAdd(a, b, c) == (a * b + c) % BaseOrder

\* ge_scalarmult_base and ge_p3_tobytes.
PublicOf(a) == GeToBytes(Extended(TimesPoint(a, BasePoint)))

\* private_key[0] &= 248, private_key[31] &= 63, private_key[31] |= 64.
Clamped(x) == (x % Power(2, KeyBits - 2)) - (x % 8) + Power(2, KeyBits - 2)

CreateKeypair(x, prefix) ==
  /\ private = [scalar |-> Clamped(x), prefix |-> prefix]
  /\ public = PublicOf(Clamped(x))

KeysInit ==
  /\ \E x \in 0 .. Power(2, KeyBits) - 1, prefix \in PrefixValues : CreateKeypair(x, prefix)
  /\ behind = <<>> /\ signature = NoSignature /\ keyCalls = 0

KeysIdle ==
  /\ private = NoKey /\ public = PublicOf(0) /\ behind = <<>> /\ signature = NoSignature
  /\ keyCalls = MaxKeyCalls

-----------------------------------------------------------------------------
\* The copy n of the scalar loses its highest bit.
WithoutTop(scalar) == scalar % Power(2, KeyBits - 1)

AddedToPrivate(scalar) ==
  [scalar |-> MulAdd(1, WithoutTop(scalar), private.scalar),
   prefix |-> Digest(private.prefix, scalar, 0)]

\* Mutant: "undo negate" is forgotten.
AddedToPublicNegated(scalar) ==
  LET t == GeFromBytesNegate(public)
      n == Extended(TimesPoint(WithoutTop(scalar), BasePoint))
  IN  GeToBytes(P1p1ToP3(GeAdd(n, P3ToCached(t))))

\* Without the private key: unpack, undo the negation, add n * B.
AddedToPublic(scalar) ==
  LET t == GeFromBytesNegate(public)
      T == P4(Opposite(t.X), t.Y, t.Z, Opposite(t.T))
      n == Extended(TimesPoint(WithoutTop(scalar), BasePoint))
  IN  GeToBytes(P1p1ToP3(GeAdd(n, P3ToCached(T))))

\* ed25519_add_scalar(public_key, private_key, scalar).
AddScalarToBoth(scalar) ==
  /\ behind = <<>>
  /\ private' = AddedToPrivate(scalar)
  /\ public' = PublicOf(private'.scalar)
  /\ UNCHANGED behind

\* ed25519_add_scalar(public_key, NULL, scalar), then with NULL for the public
\* key, or the other way round.
AddScalarToPublic(scalar) ==
  /\ behind \in {<<>>, <<"public", scalar>>}
  /\ public' = AddedToPublic(scalar)
  /\ behind' = IF behind = <<>> THEN <<"private", scalar>> ELSE <<>>
  /\ UNCHANGED private

AddScalarToPrivate(scalar) ==
  /\ behind \in {<<>>, <<"private", scalar>>}
  /\ private' = AddedToPrivate(scalar)
  /\ behind' = IF behind = <<>> THEN <<"public", scalar>> ELSE <<>>
  /\ UNCHANGED public

AddScalar(scalar) ==
  /\ AddScalarToBoth(scalar) \/ AddScalarToPublic(scalar) \/ AddScalarToPrivate(scalar)
  /\ UNCHANGED signature

\* r = H(prefix, m); R = r * B; S = H(R, A, m) * a + r, with the public key given.
Signed(m) ==
  LET r == ScalarMod(Digest(private.prefix, m, 1))
      R == PublicOf(r)
      hram == ScalarMod(Digest(R, public, m))
  IN  [R |-> R, S |-> MulAdd(hram, private.scalar, r), m |-> m, A |-> public]

\* The caller signs with a pair whose halves have caught up.
SignMessage(m) ==
  /\ behind = <<>>
  /\ signature' = Signed(m)
  /\ UNCHANGED <<private, public, behind>>

\* ed25519_verify: S * B - H(R, A, m) * A is packed and compared with R.
Accepts(R, S, m, A) ==
  /\ S < Power(2, KeyBits - 3)            \* signature[63] & 224
  /\ GeFromBytesNegate(A) # NotAPoint
  /\ LET minusA == Affine(GeFromBytesNegate(A))
         h == ScalarMod(Digest(R, A, m))
         check == Sum2Points(TimesPoint(h, minusA), TimesPoint(S, BasePoint))
     IN  GeToBytes(Extended(check)) = R

KeysNext ==
  /\ keyCalls < MaxKeyCalls
  /\ keyCalls' = keyCalls + 1
  /\ \/ \E scalar \in Scalars : AddScalar(scalar)
     \/ \E m \in Messages : SignMessage(m)

KeysSpec == KeysInit /\ [][KeysNext]_keyVars

-----------------------------------------------------------------------------
\* The two halves of a pair belong together after any number of additions,
\* made to both at once or to one half after the other, in either order: the
\* private half reduces modulo the order what the public half adds as points.
HalvesAgree == behind = <<>> => public = PublicOf(private.scalar)

\* What ed25519_sign makes, ed25519_verify accepts under the public key it was
\* made with, whatever additions the pair has been through: reduced scalars,
\* unreduced clamped ones and packed points tell the same story.
SignaturesVerify ==
  signature # NoSignature =>
    Accepts(signature.R, signature.S, signature.m, signature.A)

\* The four files of the interface agree with each other.
KeysSound == HalvesAgree /\ SignaturesVerify
=============================================================================
