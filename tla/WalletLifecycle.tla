-------------------------- MODULE WalletLifecycle --------------------------
(***************************************************************************)
(* What the appliance promises about its one wallet, without keys, screens *)
(* or modes: at most one wallet is in memory; a new one is never verified; *)
(* the record on the card carries the address of a wallet only if it was   *)
(* written while that wallet was in memory and verified; losing power      *)
(* forgets all but the record.                                             *)
(***************************************************************************)
CONSTANTS
  Wallets,
  None       \* no wallet, or no address in the record

VARIABLES
  wallet,
  verified,  \* the backup of this wallet was checked
  record     \* <<>>, or <<address>>: the last record on the card

vars == <<wallet, verified, record>>

Init == wallet = None /\ verified = FALSE /\ record = <<>>

\* What may stand on the card after a record of wallet w was begun: nothing
\* new, a record without the address, or with it if w is verified.
RecordOf(w, isVerified) == {record, <<None>>, <<IF isVerified THEN w ELSE None>>}

MayRecord == record' \in RecordOf(wallet', verified')

Generate ==
  /\ wallet' \in Wallets \ {None}
  /\ verified' = FALSE
  /\ MayRecord

Verify ==
  /\ wallet # None
  /\ verified' = TRUE
  /\ UNCHANGED wallet
  /\ MayRecord

\* A refused build, or an empty backup check, changes nothing but the record.
Refuse == UNCHANGED <<wallet, verified>> /\ MayRecord

Forgotten == wallet' = None /\ verified' = FALSE

\* Clear-all, which may fail to remove the record.
Wipe == Forgotten /\ record' \in {record, <<>>}

\* Power may fail while a record of the wallet is being written.
PowerLoss == Forgotten /\ record' \in RecordOf(wallet, verified)

Next == Generate \/ Verify \/ Refuse \/ Wipe \/ PowerLoss

Spec == Init /\ [][Next]_vars
=============================================================================
