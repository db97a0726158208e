--------------------------- MODULE MCPaymentStatus --------------------------
(***************************************************************************)
(* Small instances of PaymentStatus for TLC.                               *)
(***************************************************************************)
EXTENDS PaymentStatus
=============================================================================
