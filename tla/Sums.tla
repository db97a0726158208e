-------------------------------- MODULE Sums --------------------------------
(***************************************************************************)
(* Sums of finitely many amounts.                                          *)
(***************************************************************************)
EXTENDS Naturals, FiniteSets

Sets == INSTANCE FiniteSetsExt

SumOf(f) == Sets!MapThenSumSet(LAMBDA p : f[p], DOMAIN f)
=============================================================================
