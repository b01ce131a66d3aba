------------------------------- MODULE Ed25519 -------------------------------
(***************************************************************************)
(* lib/ed25519 as a whole.  The library has no state of its own and the    *)
(* firmware one task that calls it, so a behaviour is one call, or one     *)
(* sequence of calls, into one of its layers; each layer is specified on   *)
(* top of what the layer below is shown to compute.                        *)
(***************************************************************************)
EXTENDS FieldLimbs, FieldPowers, ScalarLimbs, Ed25519Keys

libraryVars == <<fieldVars, powerVars, scalarVars, edwardsVars, keyVars>>

LibraryInit ==
  \/ FieldInit /\ PowerIdle /\ ScalarIdle /\ EdwardsIdle /\ KeysIdle
  \/ FieldIdle /\ PowerInit /\ ScalarIdle /\ EdwardsIdle /\ KeysIdle
  \/ FieldIdle /\ PowerIdle /\ ScalarInit /\ EdwardsIdle /\ KeysIdle
  \/ FieldIdle /\ PowerIdle /\ ScalarIdle /\ EdwardsInit /\ KeysIdle
  \/ FieldIdle /\ PowerIdle /\ ScalarIdle /\ EdwardsIdle /\ KeysInit

LibraryNext ==
  \/ FieldNext /\ UNCHANGED <<powerVars, scalarVars, edwardsVars, keyVars>>
  \/ PowerNext /\ UNCHANGED <<fieldVars, scalarVars, edwardsVars, keyVars>>
  \/ ScalarNext /\ UNCHANGED <<fieldVars, powerVars, edwardsVars, keyVars>>
  \/ EdwardsNext /\ UNCHANGED <<fieldVars, powerVars, scalarVars, keyVars>>
  \/ KeysNext /\ UNCHANGED <<fieldVars, powerVars, scalarVars, edwardsVars>>

LibrarySpec == LibraryInit /\ [][LibraryNext]_libraryVars

-----------------------------------------------------------------------------
\* What fe.c promises ge.c: no limb outgrows its type, equal elements have equal
\* bytes, and the exponent chains compute inverse and root.
FieldSound == LimbsBounded /\ CanonicalBytes /\ PowersExact
=============================================================================
