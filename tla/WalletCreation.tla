--------------------------- MODULE WalletCreation ---------------------------
(***************************************************************************)
(* How a wallet is made: buildWallet with the generator inside it          *)
(* (WalletBuild), whose words, seed and address are one step each, and the *)
(* functions that compute them (Derivation).  The build waits for what it  *)
(* calls and shares no state with it but arguments and results, so a       *)
(* behaviour is of the one or of the other.                                *)
(***************************************************************************)
EXTENDS WalletBuild, Derivation

VARIABLE inside  \* which of the two

creationVars == <<inside, buildVars, walletVars>>

CreationInit ==
  \/ inside = "build" /\ BuildInit /\ DIdle
  \/ inside = "derivation" /\ BuildIdle /\ DInit

InBuild == inside = "build" /\ UNCHANGED <<inside, walletVars>>
InDerivation == inside = "derivation" /\ UNCHANGED <<inside, buildVars>>

CreationNext ==
  \/ InBuild /\ BuildNext
  \/ InDerivation /\ DNext

\* The code that is called runs on.
CreationSpec ==
  CreationInit /\ [][CreationNext]_creationVars /\ WF_creationVars(InDerivation /\ OneNfkd)
=============================================================================
