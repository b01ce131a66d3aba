---------------------------- MODULE MCDiceWallet ----------------------------
(***************************************************************************)
(* Instances of DiceWallet for TLC.  The numbers are as small as the       *)
(* interesting cases allow: a two-faced die, three words of which two are  *)
(* asked, one page of words.                                               *)
(***************************************************************************)
EXTENDS DiceWallet

\* Words of one or two letters that differ between wallets and positions; the
\* letter s or a also turns pages, y also confirms.
MCWord(w, p) ==
  LET odd == Len(w) > 0 /\ w[Len(w)] % 2 = 1
  IN  IF p = 0 THEN IF 115 \in Chars THEN <<115>> ELSE <<97>>
      ELSE IF odd THEN <<97, 121>> ELSE <<121>>

\* Wallets ask for different positions.
MCChallenge(w) ==
  IF Len(w) > 0 /\ w[1] % 2 = 1 THEN [s \in Steps |-> s] ELSE [s \in Steps |-> WordCount - 1 - s]

MCHealthyBoot == {[radios |-> TRUE, card |-> TRUE, mounted |-> TRUE]}

\* No card, a card that does not mount, a mounted card.
MCAnyCard == {t \in [radios : {TRUE}, card : BOOLEAN, mounted : BOOLEAN] : t.mounted => t.card}
=============================================================================
