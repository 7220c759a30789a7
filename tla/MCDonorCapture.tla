--------------------------- MODULE MCDonorCapture ---------------------------
(* TLC instances of DonorCapture. Request ids and layers are numbers: the   *)
(* code sorts the one and visits the other in order.                        *)
EXTENDS DonorCapture
=============================================================================
