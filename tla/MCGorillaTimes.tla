-------------------------- MODULE MCGorillaTimes --------------------------
(***************************************************************************)
(* The model-checking instance of GorillaTimes: 7-bit words with prefix    *)
(* classes of 2, 3, 4 and 6 bits.                                          *)
(***************************************************************************)
EXTENDS GorillaTimes

Widths7 == <<2, 3, 4, 6>>

\* Every timestamp of a 7-bit word.
AllTimes == 0..127
===========================================================================
