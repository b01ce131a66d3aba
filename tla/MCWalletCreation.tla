-------------------------- MODULE MCWalletCreation --------------------------
(***************************************************************************)
(* Entries of utf8proc_data.inc for TLC: c with cedilla, an acute on it, a *)
(* mark that is two, the ligature fi, a musical note outside the first     *)
(* plane, and the marks U+0301, U+0308, U+0344, U+031B, U+1D165, U+0327.   *)
(***************************************************************************)
EXTENDS WalletCreation

MCDecomposition ==
  [c \in {231, 7689, 836, 64257, 119134} |->
     CASE c = 231 -> <<99, 807>>
       [] c = 7689 -> <<231, 769>>
       [] c = 836 -> <<776, 769>>
       [] c = 64257 -> <<102, 105>>
       [] c = 119134 -> <<119127, 119141>>]

MCClasses ==
  [c \in {769, 776, 836, 795, 119141, 807} |->
     CASE c \in {769, 776, 836} -> 230
       [] c \in {795, 119141} -> 216
       [] c = 807 -> 202]
=============================================================================
