----------------------------- MODULE Derivation -----------------------------
(***************************************************************************)
(* What stands between 32 bytes of entropy and the address on the screen,  *)
(* with NFKD, which only passphrases need: functions that are called one   *)
(* after the other by one task and share no state, so a behaviour is one   *)
(* call, or one sequence of calls, of one of them.                         *)
(***************************************************************************)
EXTENDS Sha512Stream, Sha512Compress, KeyDerivation, Mnemonic, Base58, Nfkd

walletVars == <<streamVars, compressVars, derivationVars, mnemonicVars, base58Vars, nfkdVars>>

DIdle ==
  StreamIdle /\ CompressIdle /\ DerivationIdle /\ MnemonicIdle /\ Base58Idle /\ NfkdIdle

DInit ==
  \/ StreamInit /\ CompressIdle /\ DerivationIdle /\ MnemonicIdle /\ Base58Idle /\ NfkdIdle
  \/ StreamIdle /\ CompressInit /\ DerivationIdle /\ MnemonicIdle /\ Base58Idle /\ NfkdIdle
  \/ StreamIdle /\ CompressIdle /\ DerivationInit /\ MnemonicIdle /\ Base58Idle /\ NfkdIdle
  \/ StreamIdle /\ CompressIdle /\ DerivationIdle /\ MnemonicInit /\ Base58Idle /\ NfkdIdle
  \/ StreamIdle /\ CompressIdle /\ DerivationIdle /\ MnemonicIdle /\ Base58Init /\ NfkdIdle
  \/ StreamIdle /\ CompressIdle /\ DerivationIdle /\ MnemonicIdle /\ Base58Idle /\ NfkdInit

OneStream == StreamNext /\ UNCHANGED <<compressVars, derivationVars, mnemonicVars, base58Vars, nfkdVars>>
OneCompress == CompressNext /\ UNCHANGED <<streamVars, derivationVars, mnemonicVars, base58Vars, nfkdVars>>
OneDerivation == DerivationNext /\ UNCHANGED <<streamVars, compressVars, mnemonicVars, base58Vars, nfkdVars>>
OneMnemonic == MnemonicNext /\ UNCHANGED <<streamVars, compressVars, derivationVars, base58Vars, nfkdVars>>
OneBase58 == Base58Next /\ UNCHANGED <<streamVars, compressVars, derivationVars, mnemonicVars, nfkdVars>>
OneNfkd == NfkdNext /\ UNCHANGED <<streamVars, compressVars, derivationVars, mnemonicVars, base58Vars>>

DNext == OneStream \/ OneCompress \/ OneDerivation \/ OneMnemonic \/ OneBase58 \/ OneNfkd

\* The code that is called runs on.
DSpec == DInit /\ [][DNext]_walletVars /\ WF_walletVars(OneNfkd)
=============================================================================
