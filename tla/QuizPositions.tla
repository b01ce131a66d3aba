---------------------------- MODULE QuizPositions ----------------------------
(***************************************************************************)
(* Which words the backup check asks for: wc_quiz_positions of             *)
(* lib/wallet_core/wallet_core.cpp.  One step is one iteration of one of   *)
(* its two loops.  The first takes positions from the bytes of the audit   *)
(* hash, the second fills up with the smallest positions not yet taken.    *)
(***************************************************************************)
EXTENDS Integers, Sequences, FiniteSets

CONSTANTS
  HashLen,    \* bytes of the hash (32)
  Byte,       \* values of a byte (0 .. 255)
  WordCount,  \* words in a mnemonic (24)
  QuizWords   \* words to ask for (4)

ASSUME QuizAssumption ==
  /\ HashLen \in Nat /\ WordCount \in Nat \ {0} /\ QuizWords \in Nat \ {0}
  /\ QuizWords <= WordCount
  /\ Byte \subseteq Nat /\ 0 \in Byte

VARIABLES
  hash,       \* the argument
  pos,        \* pos[0 .. k-1], a sequence of length k
  candidate,  \* index of the first loop
  v           \* index of the second loop

vars == <<hash, pos, candidate, v>>

Position == 0 .. WordCount - 1

Init ==
  /\ hash \in [0 .. HashLen - 1 -> Byte]
  /\ pos = <<>> /\ candidate = 0 /\ v = 0

\* No call under way: the one for a hash of zeros has returned.
QuizIdle ==
  /\ hash = [i \in 0 .. HashLen - 1 |-> 0]
  /\ pos = [s \in 1 .. QuizWords |-> s - 1]
  /\ candidate = HashLen /\ v = QuizWords

\* The scan for a duplicate, and a mutant of it that sees only the last entry.
TakenLast(p) == pos # <<>> /\ pos[Len(pos)] = p

Taken(p) == \E j \in 1 .. Len(pos) : pos[j] = p

Take(p) == pos' = IF Taken(p) THEN pos ELSE Append(pos, p)

MoreWanted == Len(pos) < QuizWords

\* Mutant of Advance: the index moves only past what was taken.
AdvanceWhenTaken == candidate' = IF pos' = pos THEN candidate ELSE candidate + 1

Advance == candidate' = candidate + 1

FromHash ==
  /\ candidate < HashLen /\ MoreWanted
  /\ Take(hash[candidate] % WordCount)
  /\ Advance
  /\ UNCHANGED <<hash, v>>

FallbackBegins == candidate >= HashLen

FallbackEnd == WordCount

Fallback ==
  /\ FallbackBegins /\ MoreWanted
  /\ v < FallbackEnd
  /\ Take(v)
  /\ v' = v + 1
  /\ UNCHANGED <<hash, candidate>>

Next == FromHash \/ Fallback

\* Nothing waits inside the function: its loops run as long as they can.
Spec == Init /\ [][Next]_vars /\ WF_vars(Next)

-----------------------------------------------------------------------------
Returned == ~MoreWanted \/ (FallbackBegins /\ v >= FallbackEnd)

TypeOK ==
  /\ hash \in [0 .. HashLen - 1 -> Byte]
  /\ pos \in Seq(Position) /\ Len(pos) <= QuizWords
  /\ candidate \in 0 .. HashLen
  /\ v \in 0 .. WordCount

\* No word is asked twice, so that passing the check takes QuizWords words
\* ("4 distinct indices 0..23").
Distinct == \A s, t \in 1 .. Len(pos) : s # t => pos[s] # pos[t]

\* The fallback fills what the hash leaves: handleQuiz reads QuizWords entries
\* of quizPos, and none of them is left over from an earlier wallet.
FourPositions == Returned => Len(pos) = QuizWords

\* The values the two loops see, in order.
Stream == [i \in 1 .. HashLen + WordCount |->
             IF i <= HashLen THEN hash[i - 1] % WordCount ELSE i - HashLen - 1]

\* The challenge is decided by the fingerprint alone, earliest value first:
\* whatever the stream holds before a position that was taken is taken too, and
\* earlier; no position is asked for twice.
HashOrder ==
  \A t \in 1 .. Len(pos) :
    \E i \in 1 .. HashLen + WordCount :
      /\ Stream[i] = pos[t]
      /\ \A j \in 1 .. i - 1 : Stream[j] # pos[t] /\ \E s \in 1 .. t - 1 : pos[s] = Stream[j]
      /\ \A s \in 1 .. t - 1 : \E j \in 1 .. i - 1 : Stream[j] = pos[s]

\* What buildWallet relies on: a challenge that is complete and, for whoever knows
\* the fingerprint, determined.
PositionsSound == FourPositions /\ HashOrder

\* "candidate index always advances - cannot loop forever".
Returns == <>Returned
=============================================================================
