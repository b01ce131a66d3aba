------------------------------ MODULE KeyEdges ------------------------------
(***************************************************************************)
(* Typing in the backup check: wc_key_edges of wallet_core.cpp, which      *)
(* turns the characters one poll finds into edges, and handleQuiz, which   *)
(* spends them, over a keyboard whose keys go down and up between polls.   *)
(* The keyboard driver reports the characters of the keys that are down;   *)
(* shift changes the character of a held key.                              *)
(* The comparison with the asked word is a nondeterministic choice.        *)
(***************************************************************************)
EXTENDS Integers, FiniteSets, SequencesExt

CONSTANTS
  Keys,     \* the letters' keys, by their lower-case codes
  WordCap,  \* characters a poll takes in (8)
  BufCap    \* letters quizBuf can hold (11)

ASSUME KeyboardAssumption ==
  /\ Keys \subseteq 97 .. 122 /\ IsFiniteSet(Keys)
  /\ WordCap \in Nat \ {0} /\ BufCap \in Nat \ {0}

VARIABLES
  down, shift, enterDown, delDown,  \* the keys that are down
  mask, prevEnter, prevDel,         \* what the poll before has seen
  buf,                              \* quizBuf
  open,                             \* the check takes keys
  seen,                             \* observer: characters down at the poll before
  unspent,                          \* observer: presses no poll has answered
  crowded, reshifted                \* observer: since a poll found no key, more
                                    \* keys were down than a poll takes in;
                                    \* shift moved while a letter was down

keyboard == <<down, shift, enterDown, delDown>>
edges == <<mask, prevEnter, prevDel>>
keysVars == <<keyboard, edges, buf, open, seen, unspent, crowded, reshifted>>

Upper == 65 .. 90
ToLower(c) == IF c \in Upper THEN c + 32 ELSE c

KeysInit ==
  /\ down = {} /\ shift = FALSE /\ enterDown = FALSE /\ delDown = FALSE
  /\ mask = {} /\ prevEnter = FALSE /\ prevDel = FALSE
  /\ buf = <<>> /\ open = TRUE
  /\ seen = {} /\ unspent = {} /\ crowded = FALSE /\ reshifted = FALSE

-----------------------------------------------------------------------------
(* The user.                                                                *)

Char(k) == IF shift THEN k - 32 ELSE k

\* A key that goes up and down again between two polls, with the same
\* character, is one press to both.
KeyDown(k) ==
  /\ k \notin down
  /\ down' = down \cup {k}
  /\ unspent' = IF Char(k) \in seen THEN unspent ELSE unspent \cup {k}
  /\ crowded' = (crowded \/ Cardinality(down') > WordCap)
  /\ UNCHANGED <<shift, enterDown, delDown, edges, buf, open, seen, reshifted>>

KeyUp(k) ==
  /\ k \in down
  /\ down' = down \ {k}
  /\ unspent' = unspent \ {k}
  /\ UNCHANGED <<shift, enterDown, delDown, edges, buf, open, seen, crowded, reshifted>>

Shift ==
  /\ shift' = ~shift
  /\ reshifted' = (reshifted \/ down # {})
  /\ UNCHANGED <<down, enterDown, delDown, edges, buf, open, seen, unspent, crowded>>

EnterOrDel ==
  /\ \/ enterDown' = ~enterDown /\ UNCHANGED delDown
     \/ delDown' = ~delDown /\ UNCHANGED enterDown
  /\ UNCHANGED <<down, shift, edges, buf, open, seen, unspent, crowded, reshifted>>

-----------------------------------------------------------------------------
(* One poll of loop().                                                      *)

\* keysState().word
Word == {Char(k) : k \in down}

\* The driver scans the keys in a fixed order, here that of their codes; a poll
\* has room for the first WordCap of those that are down.
Scanned == {k \in down : Cardinality({j \in down : j <= k}) <= WordCap}

\* The characters wc_key_edges keeps of a poll, and those it reports as new.
TakenIn == {Char(k) : k \in Scanned}

Added == TakenIn \ mask

\* Mutant of SavedMask: only what is new is remembered.
SavedMaskOfNew == Added

SavedMask == TakenIn

EnterEdge == enterDown /\ ~prevEnter
DelEdge == delDown /\ ~prevDel

KeyEdges ==
  /\ mask' = SavedMask
  /\ prevEnter' = enterDown /\ prevDel' = delDown

\* A poll answers the presses it takes in: with a letter, with a warning, or
\* by Enter or Del going first.
Answered == {ToLower(c) : c \in TakenIn}

Pressed == down # {} \/ shift \/ enterDown \/ delDown

Poll ==
  /\ Pressed /\ open
  /\ KeyEdges
  /\ unspent' = unspent \ Answered
  /\ seen' = Word
  /\ UNCHANGED <<keyboard, crowded, reshifted>>

\* Enter: right, wrong, or the last word of all, which closes the check.
PollEnter ==
  /\ Poll /\ EnterEdge
  /\ buf' = <<>>
  /\ open' \in BOOLEAN

PollDel ==
  /\ Poll /\ DelEdge /\ ~EnterEdge
  /\ buf' = IF buf = <<>> THEN buf ELSE Front(buf)
  /\ open' = (buf # <<>>)

RoomInBuf == Len(buf) < BufCap

PollLetter ==
  /\ Poll /\ ~EnterEdge /\ ~DelEdge
  /\ \E c \in Added :
       /\ Added = {c}
       /\ buf' = IF RoomInBuf THEN Append(buf, ToLower(c)) ELSE buf
  /\ UNCHANGED open

\* A chord is refused with a warning; with nothing new nothing happens.
PollOther ==
  /\ Poll /\ ~EnterEdge /\ ~DelEdge
  /\ Cardinality(Added) # 1
  /\ UNCHANGED <<buf, open>>

\* No key is down: the edges are forgotten.  A check that was closed can be
\* opened again from here, with every key up.
PollReleased ==
  /\ ~Pressed
  /\ mask' = {} /\ prevEnter' = FALSE /\ prevDel' = FALSE
  /\ crowded' = FALSE /\ reshifted' = FALSE
  /\ seen' = {} /\ open' = TRUE
  /\ buf' = IF open THEN buf ELSE <<>>
  /\ UNCHANGED <<keyboard, unspent>>

KeysNext ==
  \/ \E k \in Keys : KeyDown(k) \/ KeyUp(k)
  \/ Shift \/ EnterOrDel
  \/ PollEnter \/ PollDel \/ PollLetter \/ PollOther \/ PollReleased

KeysSpec == KeysInit /\ [][KeysNext]_keysVars

-----------------------------------------------------------------------------
\* The keys, the saved edges and the word being typed; the word never outgrows
\* its buffer.
KeysTypeOK ==
  /\ down \subseteq Keys /\ unspent \subseteq down
  /\ {shift, enterDown, delDown, prevEnter, prevDel, open, crowded, reshifted} \subseteq BOOLEAN
  /\ mask \cup seen \subseteq Keys \cup {k - 32 : k \in Keys}
  /\ buf \in Seq(Keys) /\ Len(buf) <= BufCap

\* Overlapping, held and repeated keys: a letter enters the word only for a
\* press that no earlier poll has answered.  It takes more keys at once than a
\* poll takes in, or shift moving under a held key, to type one press twice.
OneLetterPerPress ==
  [][Len(buf') > Len(buf) /\ ~crowded /\ ~reshifted => Last(buf') \in unspent]_keysVars

\* The three ways a press that a poll took in is lost without a letter or a
\* warning, and no other: Enter or Del rises in the same poll and goes first, or
\* the buffer is full.  (Also lost is what more keys at once than a poll takes
\* in, or shift moving under a held key, have hidden.)
DropsExplained ==
  [][\A k \in (unspent \ unspent') \cap down' :
       \/ buf' = Append(buf, k)
       \/ Cardinality(Added) > 1
       \/ EnterEdge \/ DelEdge \/ Len(buf) = BufCap
       \/ crowded \/ reshifted]_keysVars

\* One letter at most for a press, and none only where handleQuiz has other use
\* for the poll or no room.
TypingExplained == OneLetterPerPress /\ DropsExplained

\* README.md:15: "overlapping/chorded keys are rejected with an explicit
\* warning".  No letter enters the word while a letter key that an earlier poll
\* found is still down.
OverlapRejected == [][Len(buf') > Len(buf) => mask \cap TakenIn = {}]_keysVars

\* README.md:15: "never silently merged or dropped"; SECURITY.md:35: "rejected
\* visibly".  A press that a poll took in becomes a letter, or the warning on a
\* chord is drawn.
DropsVisible ==
  [][\A k \in (unspent \ unspent') \cap down' :
       buf' = Append(buf, k) \/ Cardinality(Added) > 1]_keysVars
=============================================================================
