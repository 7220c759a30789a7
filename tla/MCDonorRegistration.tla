------------------------- MODULE MCDonorRegistration -------------------------
(* DonorRegistration for TLC: its constants are plain numbers.             *)
EXTENDS DonorRegistration
=============================================================================
