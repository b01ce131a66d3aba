--------------------------- MODULE Sha512Compress ---------------------------
(***************************************************************************)
(* sha512_compress of lib/ed25519/sha512.c.  The code never moves the      *)
(* working variables: RND is expanded eight times, each time with the      *)
(* names of S shifted by one, and two words of S are written in place.     *)
(* A word has CompressBits bits here; a rotation counts modulo that, as    *)
(* ROR64c masks it, and a constant of K is its highest bits.               *)
(***************************************************************************)
EXTENDS Integers, Sequences

CONSTANTS
  CompressBits,  \* bits of a word (64), at most 16
  StateWords,    \* the words the hash value may hold, as numbers
  BlockWords     \* the words a block may be made of, as numbers

ASSUME CompressAssumption == CompressBits \in Nat \ {0}

VARIABLES
  S,         \* S[0..7], the working variables, at 1 .. 8
  hashState, \* md->state
  W,         \* the message schedule
  rounds     \* as done of Sha512Rounds

compressVars == <<S, hashState, W, rounds>>

\* The highest sixteen bits of the constants, 0x428a and so on.
K == <<
    17034, 28983, 46528, 59829, 14678, 23025, 37439, 43804, 55303, 4739,
    9265, 21772, 29374, 32990, 39900, 49563, 58523, 61374, 4033, 9228,
    11753, 19060, 23728, 30457, 38974, 43057, 45059, 48985, 50912, 54695,
    1738, 5161, 10167, 11803, 19756, 21304, 25866, 30314, 33218, 37490,
    41663, 43034, 49739, 51052, 53650, 54937, 62478, 4202, 6564, 7735,
    10056, 13488, 14620, 20184, 23452, 26670, 29839, 30885, 33992, 36039,
    37054, 42064, 48889, 50801, 51751, 53638, 60122, 62845, 1776, 2659,
    4415, 7025, 10459, 13002, 15518, 17181, 19653, 22911, 24523, 27716 >>

KWord(t) == {b \in 0 .. CompressBits - 1 : (K[t] \div 2 ^ (16 - CompressBits + b)) % 2 = 1}

\* How far the names have turned.
Turn == IF rounds \in 0 .. 80 THEN rounds ELSE 0

Fips == INSTANCE Sha512Rounds WITH
  WordBits <- CompressBits, ConstantOf <- KWord,
  working <- [i \in 1 .. 8 |-> S[1 + ((i - 1 - Turn) % 8)]],
  previous <- hashState, schedule <- W, done <- rounds

CXor(x, y) == Fips!Xor(x, y)
Plus(x, y) == Fips!Add(x, y)
ROR(x, n) == {(b - (n % CompressBits)) % CompressBits : b \in x}
SHR(x, n) == Fips!ShR(x, n)

Ch(x, y, z) == CXor(z, x \cap CXor(y, z))
Maj(x, y, z) == ((x \cup y) \cap z) \cup (x \cap y)
Sigma0(x) == CXor(CXor(ROR(x, 28), ROR(x, 34)), ROR(x, 39))
Sigma1(x) == CXor(CXor(ROR(x, 14), ROR(x, 18)), ROR(x, 41))
Gamma0(x) == CXor(CXor(ROR(x, 1), ROR(x, 8)), SHR(x, 7))
Gamma1(x) == CXor(CXor(ROR(x, 19), ROR(x, 61)), SHR(x, 6))

\* W[16..79] from the words of the block.
Expanded(first) ==
  LET Extend(w, t) ==
        Append(w, Plus(Plus(Gamma1(w[t - 2]), w[t - 7]), Plus(Gamma0(w[t - 15]), w[t - 16])))
      upTo[n \in 0 .. 64] == IF n = 0 THEN first ELSE Extend(upTo[n - 1], n + 16)
  IN  upTo[64]

\* A block of one word over and over with one other word in it.
SampleBlocks ==
  {[t \in 1 .. 16 |-> Fips!WordOf(IF t = at THEN y ELSE x)] :
      at \in {1, 16}, x \in BlockWords, y \in BlockWords}

CompressIdleAt(r) ==
  /\ S = [i \in 1 .. 8 |-> {}] /\ W = [t \in 1 .. 80 |-> {}] /\ rounds = r
CompressInit ==
  /\ CompressIdleAt(-1)
  /\ \E x \in StateWords, y \in StateWords :
       hashState = [i \in 1 .. 8 |-> Fips!WordOf((x * i + y) % 2 ^ CompressBits)]
CompressIdle == CompressIdleAt(81) /\ hashState = [i \in 1 .. 8 |-> {}]

\* Copy the state into S, load the block, expand it.
LoadBlock(first) ==
  /\ rounds = -1
  /\ S' = hashState /\ W' = Expanded(first) /\ rounds' = 0
  /\ UNCHANGED hashState

\* Mutant: the calls name the words in the opposite turn.
TurnedBack(t, i) == 1 + ((i - 1 + t) % 8)
\* The place in S of argument i of the call of RND for round t: the names turn
\* by one from call to call and are back after eight.
Argument(t, i) == 1 + ((i - 1 + 8 - (t % 8)) % 8)

\* RND: t0 and t1, then d += t0 and h = t0 + t1.
Rnd(t) ==
  LET a == S[Argument(t, 1)] b == S[Argument(t, 2)] c == S[Argument(t, 3)]
      e == S[Argument(t, 5)] f == S[Argument(t, 6)] g == S[Argument(t, 7)]
      t0 == Plus(Plus(Plus(S[Argument(t, 8)], Sigma1(e)), Plus(Ch(e, f, g), KWord(t + 1))), W[t + 1])
      t1 == Plus(Sigma0(a), Maj(a, b, c))
  IN  [S EXCEPT ![Argument(t, 4)] = Plus(@, t0), ![Argument(t, 8)] = Plus(t0, t1)]

CompressRound ==
  /\ rounds \in 0 .. 79
  /\ S' = Rnd(rounds) /\ rounds' = rounds + 1
  /\ UNCHANGED <<hashState, W>>

\* Feedback.
AddState ==
  /\ rounds = 80
  /\ hashState' = [i \in 1 .. 8 |-> Plus(hashState[i], S[i])]
  /\ rounds' = 81
  /\ UNCHANGED <<S, W>>

CompressNext ==
  \/ \E first \in SampleBlocks : LoadBlock(first)
  \/ CompressRound \/ AddState

CompressSpec == CompressInit /\ [][CompressNext]_compressVars

-----------------------------------------------------------------------------
\* Writing two words in place under turning names is the round of FIPS 180-4,
\* where all eight variables move, for all eighty rounds and the addition at the
\* end, whose word i is S[i] again because eighty is a multiple of eight; and
\* Ch and Maj are the functions of the standard in a cheaper form.
ImplementsFips == Fips!RoundsSpec
=============================================================================
