----------------------------- MODULE MCEd25519 -----------------------------
(***************************************************************************)
(* The library for TLC, with a small order of the base point: -delta is    *)
(* 1 - 4 * 2^LimbBits, so the order is 2^12 + 31.                          *)
(***************************************************************************)
EXTENDS Ed25519

MCDelta == <<1, -4>>
=============================================================================
