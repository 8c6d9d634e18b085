----------------------------- MODULE MCDisplay -----------------------------
(***************************************************************************)
(* Two modes, one within the other.                                        *)
(***************************************************************************)
EXTENDS Display

CONSTANTS small, large

LargeCoversSmall == {<<large, small>>}
============================================================================
